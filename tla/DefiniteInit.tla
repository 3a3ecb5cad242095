---------------------------- MODULE DefiniteInit ----------------------------
(***************************************************************************)
(* tc_analyze_definite_init (src/vm/analyzer/tc_cfg.c): the iterative      *)
(* must-initialise analysis of one control-flow graph. Bit sets over slots *)
(* are sets of slots; a sweep visits the reachable nodes in id order and   *)
(* sweeps are repeated until one of them changes nothing; then the reads   *)
(* of every reachable node are checked against its IN set.                 *)
(***************************************************************************)
EXTENDS Integers, FiniteSets

CONSTANT Graphs     \* graphs of reachable nodes, the entry node being 0

EntryNode == 0

(* A reachable part of a CFG: every node but the entry has a predecessor.  *)
IsGraph(h) ==
    /\ h.nodes \subseteq Nat /\ EntryNode \in h.nodes
    /\ h.edges \subseteq h.nodes \X h.nodes
    /\ h.params \subseteq h.slots
    /\ h.gen \in [h.nodes -> SUBSET h.slots]
    /\ h.reads \in [h.nodes -> SUBSET h.slots]
    /\ h.gen[EntryNode] = {} /\ h.reads[EntryNode] = {}
    /\ \A v \in h.nodes \ {EntryNode} : \E e \in h.edges : e[2] = v

ASSUME GraphsAssumption == \A h \in Graphs : IsGraph(h)

VARIABLES
    g,          \* the graph under analysis
    in, out,    \* in_sets, out_sets
    todo,       \* the nodes this sweep has still to visit
    changed,    \* this sweep has changed a set
    verdict,    \* "none" until the reads have been checked
    culprit     \* the node an error is reported at

analysis == <<g, in, out, todo, changed, verdict, culprit>>

Inner == g.nodes \ {EntryNode}

(* Mutant: the sets start empty.                                          *)
FromEmptySets ==
    /\ g \in Graphs
    /\ in  = [v \in g.nodes |-> {}]
    /\ out = [v \in g.nodes |-> IF v = EntryNode THEN g.params ELSE {}]
    /\ todo = Inner
    /\ changed = FALSE
    /\ verdict = "none"
    /\ culprit = EntryNode

AnalysisInit ==
    /\ g \in Graphs
    /\ in  = [v \in g.nodes |-> IF v = EntryNode THEN {} ELSE g.slots]
    /\ out = [v \in g.nodes |-> IF v = EntryNode THEN g.params ELSE g.slots]
    /\ todo = Inner
    /\ changed = FALSE
    /\ verdict = "none"
    /\ culprit = EntryNode

Preds(v) == {e[1] : e \in {f \in g.edges : f[2] = v}}

(* Mutant: a slot set on some path counts.                                *)
MeetSome(v) == {s \in g.slots : \E u \in Preds(v) : s \in out[u]}

(* The conjunction over the predecessors' OUT sets, empty without one.     *)
Meet(v) == IF Preds(v) = {} THEN {} ELSE {s \in g.slots : \A u \in Preds(v) : s \in out[u]}

(* Mutant: every visit counts as a change.                                *)
VisitChanges ==
    \E v \in todo :
        /\ \A u \in todo : v <= u
        /\ in'  = [in EXCEPT ![v] = Meet(v)]
        /\ out' = [out EXCEPT ![v] = Meet(v) \cup g.gen[v]]
        /\ changed' = TRUE
        /\ todo' = todo \ {v}
        /\ UNCHANGED <<g, verdict, culprit>>

Visit ==
    \E v \in todo :
        /\ \A u \in todo : v <= u
        /\ in'  = [in EXCEPT ![v] = Meet(v)]
        /\ out' = [out EXCEPT ![v] = Meet(v) \cup g.gen[v]]
        /\ changed' = (changed \/ in'[v] # in[v] \/ out'[v] # out[v])
        /\ todo' = todo \ {v}
        /\ UNCHANGED <<g, verdict, culprit>>

Resweep ==
    /\ todo = {} /\ changed
    /\ todo' = Inner
    /\ changed' = FALSE
    /\ UNCHANGED <<g, in, out, verdict, culprit>>

(* The reachable nodes that read a slot outside their IN set.              *)
BadReads == {v \in g.nodes : ~(g.reads[v] \subseteq in[v])}

Check ==
    /\ todo = {} /\ ~changed /\ verdict = "none"
    /\ IF BadReads = {}
       THEN verdict' = "accept" /\ UNCHANGED culprit
       ELSE /\ verdict' = "uninitialized"
            /\ culprit' \in {v \in BadReads : \A u \in BadReads : v <= u}
    /\ UNCHANGED <<g, in, out, todo, changed>>

Analyse == Visit \/ Resweep \/ Check

-----------------------------------------------------------------------------

AnalysisTypeOK ==
    /\ g \in Graphs
    /\ in  \in [g.nodes -> SUBSET g.slots]
    /\ out \in [g.nodes -> SUBSET g.slots]
    /\ todo \subseteq Inner
    /\ changed \in BOOLEAN
    /\ verdict \in {"none", "accept", "uninitialized"}
    /\ culprit \in g.nodes

(* The path semantics of the language standard, as a reference: slot s may *)
(* be unset on arrival at v when some path from the entry reaches v        *)
(* without passing a statement that initialises s. The nodes such a path   *)
(* reaches are the least set that has the entry and that no edge out of a  *)
(* node that does not initialise s leaves.                                 *)
CarriesUnset(s, T) ==
    /\ s \notin g.params => EntryNode \in T
    /\ \A e \in g.edges : e[1] \in T /\ s \notin g.gen[e[1]] => e[2] \in T

MayBeUnset(s) == {v \in g.nodes : \A T \in SUBSET g.nodes : CarriesUnset(s, T) => v \in T}

SetOnEveryPath(v) == {s \in g.slots : v \notin MayBeUnset(s)}

(* No sweep, in whatever order nodes and back edges are met, drops a slot  *)
(* that some solution of the equations keeps (tc_cfg.c, while (changed)):  *)
(* starting from full sets the loop stops at the greatest solution, so it  *)
(* rejects no body that a better answer would accept.                      *)
Solves(X) ==
    /\ X[EntryNode] \subseteq g.params
    /\ \A v \in Inner : \A s \in X[v] : s \in g.gen[v] \/ \A u \in Preds(v) : s \in X[u]

AboveEverySolution ==
    \A X \in [g.nodes -> SUBSET g.slots] :
        Solves(X) => \A v \in g.nodes : X[v] \subseteq out[v]

(* The solution the loop stops at is exactly that of the path semantics,   *)
(* and the verdict and the node it names are those of the path semantics:  *)
(* the first node in source order that some path reaches with an unset     *)
(* slot it reads.                                                          *)
VerdictIsPathVerdict ==
    LET bad == {v \in g.nodes : ~(g.reads[v] \subseteq SetOnEveryPath(v))}
    IN  /\ verdict = "accept" => bad = {}
        /\ verdict = "uninitialized" => culprit \in bad /\ \A v \in bad : culprit <= v

(* The equations hold when the loop stops: a sweep without a change has    *)
(* really looked at every node with the final sets of its predecessors.    *)
IsFixpoint ==
    \A v \in Inner : in[v] = Meet(v) /\ out[v] = Meet(v) \cup g.gen[v]
StopsAtFixpoint == verdict # "none" => IsFixpoint

(* A step of the loop never adds a slot to a set.                          *)
SetsShrink == [][\A v \in g.nodes : in'[v] \subseteq in[v] /\ out'[v] \subseteq out[v]]_<<in, out>>

(* The loop ends on every graph, back edges and self loops included.       *)
Terminates == <>(verdict # "none")
=============================================================================
