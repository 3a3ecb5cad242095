------------------------------ MODULE FlowWalk ------------------------------
(***************************************************************************)
(* What a function body promises to do once the definite-initialisation    *)
(* analysis has accepted it: control follows the edges of the pruned CFG,  *)
(* one node at a time, and every slot a node reads was written before.     *)
(***************************************************************************)
EXTENDS DefiniteInit

VARIABLES
    at,         \* the node control has reached
    written     \* the slots written so far, the node's own write included

walk == <<at, written>>

WalkInit ==
    /\ AnalysisInit
    /\ at = EntryNode /\ written = g.params

WalkStep ==
    /\ verdict = "accept"
    /\ \E e \in g.edges :
          /\ e[1] = at
          /\ at' = e[2]
          /\ written' = written \cup g.gen[e[2]]
    /\ UNCHANGED analysis

(* A rejected body is never run; an accepted one may end at the exit node. *)
WalkEnd ==
    /\ verdict # "none"
    /\ verdict = "accept" => \A e \in g.edges : e[1] # at
    /\ UNCHANGED <<analysis, walk>>

WalkNext == \/ Analyse /\ UNCHANGED walk
            \/ WalkStep
            \/ WalkEnd

WalkSpec == WalkInit /\ [][WalkNext]_<<analysis, walk>>

(* The analyzer is one C call: it runs until it returns.                   *)
FairWalkSpec == WalkSpec /\ WF_<<analysis, walk>>(Analyse /\ UNCHANGED walk)

WalkTypeOK == at \in g.nodes /\ written \subseteq g.slots

(* Whatever node control goes to next, the slots that node reads have been *)
(* written: no path of an accepted body reads an uninitialised variable.   *)
NextReadsAreWritten ==
    \A e \in g.edges : verdict = "accept" /\ e[1] = at => g.reads[e[2]] \subseteq written

(* The invariant behind it: OUT of the current node is a lower bound.      *)
OutIsWritten == verdict = "accept" => out[at] \subseteq written
=============================================================================
