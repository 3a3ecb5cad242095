--------------------------- MODULE FlowWalk_proofs ---------------------------
(***************************************************************************)
(* Theorems about the definite-initialisation analysis and the walks it    *)
(* licenses, for every set of graphs.                                      *)
(***************************************************************************)
EXTENDS FlowWalk, TLAPS

allVars == <<analysis, walk>>

(* The equations of one node.                                              *)
Equation(v) == in[v] = Meet(v) /\ out[v] = Meet(v) \cup g.gen[v]

(* The sweep invariant: as long as a sweep has changed nothing, the nodes  *)
(* it has visited satisfy their equations; the reads are checked only when *)
(* it has visited them all.                                                *)
SweepInv ==
    /\ ~changed => \A v \in Inner \ todo : Equation(v)
    /\ verdict # "none" => todo = {} /\ ~changed
    /\ verdict = "accept" => \A v \in g.nodes : g.reads[v] \subseteq in[v]
    /\ out[EntryNode] = g.params

(* The sets are above what their predecessors' sets give.                  *)
ShrinkInv == \A v \in Inner : Meet(v) \subseteq in[v] /\ Meet(v) \cup g.gen[v] \subseteq out[v]

(* Control leaves the entry only after the verdict; OUT bounds what has    *)
(* been written from below.                                                *)
WalkInv ==
    /\ verdict = "none" => at = EntryNode
    /\ g.params \subseteq written
    /\ OutIsWritten

Types == AnalysisTypeOK /\ WalkTypeOK

(* What GraphsAssumption says of one graph, in facts to cite.             *)
LEMMA GraphFacts ==
    ASSUME NEW h \in Graphs
    PROVE  /\ EntryNode \in h.nodes
           /\ h.nodes \subseteq Nat
           /\ h.edges \subseteq h.nodes \X h.nodes
           /\ h.params \subseteq h.slots
           /\ h.gen \in [h.nodes -> SUBSET h.slots]
           /\ h.reads \in [h.nodes -> SUBSET h.slots]
           /\ h.gen[EntryNode] = {} /\ h.reads[EntryNode] = {}
  BY GraphsAssumption DEF IsGraph

(* Every member of an edge is a pair of nodes.                             *)
LEMMA EdgeEnds ==
    ASSUME g \in Graphs, NEW e \in g.edges
    PROVE  e[1] \in g.nodes /\ e[2] \in g.nodes
  BY GraphFacts

(* A meet is a set of slots of the graph.                                 *)
LEMMA MeetType == ASSUME NEW v PROVE Meet(v) \subseteq g.slots
  BY DEF Meet

(* A predecessor's OUT set contains the meet.                              *)
LEMMA MeetBelow ==
    ASSUME NEW e \in g.edges
    PROVE  Meet(e[2]) \subseteq out[e[1]]
  BY DEF Meet, Preds

(* tc_analyze_definite_init starts with well-formed sets.                 *)
LEMMA InitTypes == WalkInit => Types
  <1> SUFFICES ASSUME WalkInit PROVE Types
    OBVIOUS
  <1>0. AnalysisInit
    BY DEF WalkInit
  <1>1. g \in Graphs
    BY <1>0 DEF AnalysisInit
  <1> USE GraphFacts, <1>0, <1>1
  <1>2. in \in [g.nodes -> SUBSET g.slots] /\ out \in [g.nodes -> SUBSET g.slots]
    BY DEF AnalysisInit
  <1> QED
    BY <1>1, <1>2 DEF AnalysisInit, WalkInit, Types, AnalysisTypeOK, WalkTypeOK, Inner

(* No visit, sweep, check or step of the walk breaks the types.           *)
LEMMA StepTypes == Types /\ [WalkNext]_allVars => Types'
  <1> SUFFICES ASSUME Types, [WalkNext]_allVars PROVE Types'
    OBVIOUS
  <1> USE DEF Types, AnalysisTypeOK, WalkTypeOK
  <1>1. CASE Visit /\ UNCHANGED walk
    <2>1. PICK v \in todo :
            /\ in'  = [in EXCEPT ![v] = Meet(v)]
            /\ out' = [out EXCEPT ![v] = Meet(v) \cup g.gen[v]]
            /\ changed' = (changed \/ in'[v] # in[v] \/ out'[v] # out[v])
            /\ todo' = todo \ {v}
            /\ UNCHANGED <<g, verdict, culprit>>
      BY <1>1 DEF Visit
    <2>2. v \in g.nodes
      BY DEF Inner
    <2>3. Meet(v) \subseteq g.slots /\ g.gen[v] \subseteq g.slots
      BY <2>2, MeetType, GraphFacts
    <2>4. in' \in [g'.nodes -> SUBSET g'.slots] /\ out' \in [g'.nodes -> SUBSET g'.slots]
      BY <2>1, <2>3
    <2>5. todo' \subseteq Inner'
      BY <2>1 DEF Inner
    <2>6. changed' \in BOOLEAN
      BY <2>1
    <2> QED
      BY <1>1, <2>1, <2>4, <2>5, <2>6 DEF walk
  <1>2. CASE Resweep /\ UNCHANGED walk
    BY <1>2 DEF Resweep, walk, Inner
  <1>3. CASE Check /\ UNCHANGED walk
    BY <1>3 DEF Check, BadReads, walk, Inner
  <1>4. CASE WalkStep
    <2>1. PICK e \in g.edges : e[1] = at /\ at' = e[2] /\ written' = written \cup g.gen[e[2]]
      BY <1>4 DEF WalkStep
    <2>2. at' \in g.nodes /\ g.gen[e[2]] \subseteq g.slots
      BY <2>1, EdgeEnds, GraphFacts
    <2> QED
      BY <1>4, <2>1, <2>2 DEF WalkStep, analysis, Inner
  <1>5. CASE WalkEnd \/ UNCHANGED allVars
    BY <1>5 DEF WalkEnd, allVars, analysis, walk, Inner
  <1> QED
    BY <1>1, <1>2, <1>3, <1>4, <1>5 DEF WalkNext, Analyse

(* Type correctness of the analysis: the sets stay sets of slots of the    *)
(* graph under analysis (the bit sets of tc_analyze_definite_init).        *)
THEOREM TypeCorrect == WalkSpec => [](AnalysisTypeOK /\ WalkTypeOK)
  <1>1. WalkInit => Types
    BY InitTypes
  <1>2. Types /\ [WalkNext]_allVars => Types'
    BY StepTypes
  <1>3. Types => AnalysisTypeOK /\ WalkTypeOK
    BY DEF Types
  <1> QED
    BY <1>1, <1>2, <1>3, PTL DEF WalkSpec, allVars

-----------------------------------------------------------------------------

(* The three parts of the inductive invariant hold at the start: the full *)
(* sets are above everything, and nothing has run.                        *)
LEMMA InitSweep == WalkInit => SweepInv /\ ShrinkInv /\ WalkInv
  <1> SUFFICES ASSUME WalkInit PROVE SweepInv /\ ShrinkInv /\ WalkInv
    OBVIOUS
  <1>0. AnalysisInit
    BY DEF WalkInit
  <1>1. Types
    BY InitTypes
  <1>2. SweepInv
    BY <1>0, <1>1 DEF SweepInv, AnalysisInit, Types, AnalysisTypeOK, Inner
  <1>3. ShrinkInv
    <2> SUFFICES ASSUME NEW v \in Inner
                 PROVE  Meet(v) \subseteq in[v] /\ Meet(v) \cup g.gen[v] \subseteq out[v]
      BY DEF ShrinkInv
    <2>1. in[v] = g.slots /\ out[v] = g.slots
      BY <1>0 DEF AnalysisInit, Inner
    <2>2. Meet(v) \subseteq g.slots /\ g.gen[v] \subseteq g.slots
      BY <1>0, MeetType, GraphFacts DEF AnalysisInit, Inner
    <2> QED
      BY <2>1, <2>2
  <1>4. WalkInv
    BY <1>0, <1>1 DEF WalkInv, AnalysisInit, WalkInit, OutIsWritten
  <1> QED
    BY <1>2, <1>3, <1>4

(* A visit makes no set larger.                                            *)
LEMMA VisitShrinks ==
    ASSUME Types, ShrinkInv, Visit
    PROVE  \A v \in g.nodes : in'[v] \subseteq in[v] /\ out'[v] \subseteq out[v]
  <1>1. PICK v \in todo : /\ in'  = [in EXCEPT ![v] = Meet(v)]
                          /\ out' = [out EXCEPT ![v] = Meet(v) \cup g.gen[v]]
    BY DEF Visit
  <1>2. v \in Inner /\ v \in g.nodes
    BY DEF Types, AnalysisTypeOK, Inner
  <1>3. Meet(v) \subseteq in[v] /\ Meet(v) \cup g.gen[v] \subseteq out[v]
    BY <1>2 DEF ShrinkInv
  <1> QED
    BY <1>1, <1>2, <1>3 DEF Types, AnalysisTypeOK

(* Smaller OUT sets give a smaller meet.                                   *)
LEMMA MeetMonotone ==
    ASSUME g \in Graphs, g' = g, \A u \in g.nodes : out'[u] \subseteq out[u], NEW v
    PROVE  Meet(v)' \subseteq Meet(v)
  <1>1. Preds(v) \subseteq g.nodes /\ Preds(v)' = Preds(v)
    BY EdgeEnds DEF Preds
  <1> QED
    BY <1>1 DEF Meet

(* A visit makes one set smaller, so every meet can only shrink and the   *)
(* sets stay above what the equations give.                               *)
LEMMA StepShrink == Types /\ ShrinkInv /\ [WalkNext]_allVars => ShrinkInv'
  <1> SUFFICES ASSUME Types, ShrinkInv, [WalkNext]_allVars PROVE ShrinkInv'
    OBVIOUS
  <1>1. CASE Visit
    <2>1. PICK w \in todo : /\ in'  = [in EXCEPT ![w] = Meet(w)]
                            /\ out' = [out EXCEPT ![w] = Meet(w) \cup g.gen[w]]
                            /\ g' = g
      BY <1>1 DEF Visit
    <2>2. \A u \in g.nodes : out'[u] \subseteq out[u]
      BY <1>1, VisitShrinks
    <2> SUFFICES ASSUME NEW v \in Inner
                 PROVE  Meet(v)' \subseteq in'[v] /\ Meet(v)' \cup g.gen[v] \subseteq out'[v]
      BY <2>1 DEF ShrinkInv, Inner
    <2>3. Meet(v)' \subseteq Meet(v)
      BY <2>1, <2>2, MeetMonotone DEF Types, AnalysisTypeOK
    <2>4. v \in g.nodes
      BY DEF Inner
    <2>5. CASE v = w
      BY <2>1, <2>3, <2>4, <2>5 DEF Types, AnalysisTypeOK
    <2>6. CASE v # w
      BY <2>1, <2>3, <2>4, <2>6 DEF Types, AnalysisTypeOK, ShrinkInv
    <2> QED
      BY <2>5, <2>6
  <1>2. CASE UNCHANGED <<g, in, out>>
    BY <1>2 DEF ShrinkInv, Inner, Meet, Preds
  <1>3. Visit \/ UNCHANGED <<g, in, out>>
    BY DEF WalkNext, Analyse, Resweep, Check, WalkStep, WalkEnd, allVars, analysis
  <1> QED
    BY <1>1, <1>2, <1>3

(* A visit that changes nothing leaves the equations of the nodes this    *)
(* sweep has already visited true; one that changes something sets        *)
(* changed.                                                               *)
LEMMA StepSweep == Types /\ SweepInv /\ [WalkNext]_allVars => SweepInv'
  <1> SUFFICES ASSUME Types, SweepInv, [WalkNext]_allVars PROVE SweepInv'
    OBVIOUS
  <1>1. CASE Visit
    <2>1. PICK w \in todo : /\ in'  = [in EXCEPT ![w] = Meet(w)]
                            /\ out' = [out EXCEPT ![w] = Meet(w) \cup g.gen[w]]
                            /\ changed' = (changed \/ in'[w] # in[w] \/ out'[w] # out[w])
                            /\ todo' = todo \ {w}
                            /\ UNCHANGED <<g, verdict, culprit>>
      BY <1>1 DEF Visit
    <2>2. w \in g.nodes /\ w # EntryNode
      BY DEF Types, AnalysisTypeOK, Inner
    <2>3. verdict' = "none"
      BY <2>1 DEF SweepInv
    <2>4. out'[EntryNode] = g'.params
      BY <2>1, <2>2 DEF SweepInv
    <2>5. ASSUME ~changed', NEW v \in Inner' \ todo' PROVE Equation(v)'
      <3>1. ~changed /\ in' = in /\ out' = out
        BY <2>1, <2>2, <2>5 DEF Types, AnalysisTypeOK
      <3>2. Meet(v)' = Meet(v)
        BY <2>1, <3>1 DEF Meet, Preds
      <3>3. CASE v = w
        <4>1. in'[w] = Meet(w) /\ out'[w] = Meet(w) \cup g.gen[w]
          BY <2>1, <2>2 DEF Types, AnalysisTypeOK
        <4> QED
          BY <2>1, <3>2, <3>3, <4>1 DEF Equation
      <3>4. CASE v # w
        <4>1. v \in Inner \ todo
          BY <2>1, <2>5, <3>4 DEF Inner
        <4> QED
          BY <2>1, <3>1, <3>2, <4>1 DEF SweepInv, Equation
      <3> QED
        BY <3>3, <3>4
    <2> QED
      BY <2>3, <2>4, <2>5 DEF SweepInv
  <1>2. CASE Resweep
    BY <1>2 DEF Resweep, SweepInv, Inner
  <1>3. CASE Check
    <2>1. verdict' = "accept" => \A v \in g.nodes : g.reads[v] \subseteq in[v]
      BY <1>3 DEF Check, BadReads
    <2>2. \A v \in Inner : Equation(v)' = Equation(v)
      BY <1>3 DEF Check, Equation, Meet, Preds
    <2> QED
      BY <1>3, <2>1, <2>2 DEF Check, SweepInv, Inner
  <1>4. CASE UNCHANGED analysis
    <2>1. \A v \in Inner : Equation(v)' = Equation(v)
      BY <1>4 DEF analysis, Equation, Meet, Preds
    <2> QED
      BY <1>4, <2>1 DEF analysis, SweepInv, Inner
  <1>5. Visit \/ Resweep \/ Check \/ UNCHANGED analysis
    BY DEF WalkNext, Analyse, WalkStep, WalkEnd, allVars
  <1> QED
    BY <1>1, <1>2, <1>3, <1>4, <1>5

(* A step of the walk along an edge writes at least what OUT of the new   *)
(* node promises, as the equations hold once the verdict is there.        *)
LEMMA StepWalk == Types /\ SweepInv /\ WalkInv /\ [WalkNext]_allVars => WalkInv'
  <1> SUFFICES ASSUME Types, SweepInv, WalkInv, [WalkNext]_allVars PROVE WalkInv'
    OBVIOUS
  <1>1. CASE (Visit \/ Resweep) /\ UNCHANGED walk
    <2>1. verdict = "none" /\ verdict' = "none" /\ g' = g
      BY <1>1 DEF Visit, Resweep, SweepInv
    <2> QED
      BY <1>1, <2>1 DEF WalkInv, OutIsWritten, walk
  <1>2. CASE Check /\ UNCHANGED walk
    <2>1. at = EntryNode /\ out[at] \subseteq written
      BY <1>2 DEF Check, WalkInv, SweepInv
    <2> QED
      BY <1>2, <2>1 DEF Check, WalkInv, OutIsWritten, walk
  <1>3. CASE WalkStep
    <2>1. PICK e \in g.edges : e[1] = at /\ at' = e[2] /\ written' = written \cup g.gen[e[2]]
      BY <1>3 DEF WalkStep
    <2>2. verdict = "accept" /\ UNCHANGED analysis
      BY <1>3 DEF WalkStep
    <2>3. out[at] \subseteq written
      BY <2>2 DEF WalkInv, OutIsWritten
    <2>4. out[e[2]] \subseteq written \cup g.gen[e[2]]
      <3>1. CASE e[2] = EntryNode
        BY <3>1 DEF SweepInv, WalkInv
      <3>2. CASE e[2] # EntryNode
        <4>1. e[2] \in Inner \ todo
          BY <2>2, <3>2, EdgeEnds DEF Types, AnalysisTypeOK, SweepInv, Inner
        <4>2. out[e[2]] = Meet(e[2]) \cup g.gen[e[2]]
          BY <2>2, <4>1 DEF SweepInv, Equation
        <4> QED
          BY <2>1, <2>3, <4>2, MeetBelow
      <3> QED
        BY <3>1, <3>2
    <2> QED
      BY <2>1, <2>2, <2>4 DEF WalkInv, OutIsWritten, analysis
  <1>4. CASE WalkEnd \/ UNCHANGED allVars
    BY <1>4 DEF WalkEnd, WalkInv, OutIsWritten, allVars, analysis, walk
  <1> QED
    BY <1>1, <1>2, <1>3, <1>4 DEF WalkNext, Analyse

(* The meet of predecessors above X is above what X may keep.              *)
LEMMA StepAbove == Types /\ AboveEverySolution /\ [WalkNext]_allVars => AboveEverySolution'
  <1> SUFFICES ASSUME Types, AboveEverySolution, [WalkNext]_allVars,
                      NEW X \in [g'.nodes -> SUBSET g'.slots], Solves(X)'
               PROVE  \A v \in g'.nodes : X[v] \subseteq out'[v]
    BY DEF AboveEverySolution
  <1>1. g' = g
    BY DEF WalkNext, Analyse, Visit, Resweep, Check, WalkStep, WalkEnd, allVars, analysis
  <1>2. Solves(X)
    BY <1>1 DEF Solves, Inner, Preds
  <1>3. \A v \in g.nodes : X[v] \subseteq out[v]
    BY <1>1, <1>2 DEF AboveEverySolution
  <1>4. CASE Visit
    <2>1. PICK w \in todo : out' = [out EXCEPT ![w] = Meet(w) \cup g.gen[w]]
      BY <1>4 DEF Visit
    <2>2. w \in Inner
      BY DEF Types, AnalysisTypeOK
    <2>3. PICK u \in g.nodes : u \in Preds(w)
      BY <2>2, GraphsAssumption DEF Types, AnalysisTypeOK, IsGraph, Inner, Preds
    <2>4. \A s \in X[w] : s \in g.gen[w] \/ s \in Meet(w)
      <3> SUFFICES ASSUME NEW s \in X[w], s \notin g.gen[w] PROVE s \in Meet(w)
        OBVIOUS
      <3>1. s \in g.slots
        BY <1>1, <2>2 DEF Inner
      <3>2. \A x \in Preds(w) : s \in X[x] /\ x \in g.nodes
        BY <1>2, <2>2, EdgeEnds DEF Solves, Preds, Types, AnalysisTypeOK
      <3> QED
        BY <1>3, <2>3, <3>1, <3>2 DEF Meet
    <2> QED
      BY <1>1, <1>3, <2>1, <2>4 DEF Types, AnalysisTypeOK
  <1>5. CASE out' = out
    BY <1>1, <1>3, <1>5
  <1> QED
    BY <1>4, <1>5 DEF WalkNext, Analyse, Resweep, Check, WalkStep, WalkEnd, allVars, analysis

(* The inductive invariant holds in every state of the analysis and the   *)
(* walk.                                                                  *)
LEMMA Invariance == WalkSpec => [](Types /\ SweepInv /\ ShrinkInv /\ WalkInv)
  <1>1. WalkInit => Types /\ SweepInv /\ ShrinkInv /\ WalkInv
    BY InitTypes, InitSweep
  <1>2. Types /\ SweepInv /\ ShrinkInv /\ WalkInv /\ [WalkNext]_allVars
            => (Types /\ SweepInv /\ ShrinkInv /\ WalkInv)'
    BY StepTypes, StepSweep, StepShrink, StepWalk
  <1> QED
    BY <1>1, <1>2, PTL DEF WalkSpec, allVars

-----------------------------------------------------------------------------

(* When the sweeps stop the sets solve the equations of every node         *)
(* (tc_analyze_definite_init, while (changed)).                            *)
THEOREM StopsAtSolution == WalkSpec => []StopsAtFixpoint
  <1>1. SweepInv => StopsAtFixpoint
    BY DEF SweepInv, StopsAtFixpoint, IsFixpoint, Equation
  <1> QED
    BY <1>1, Invariance, PTL

(* No walk along the graph of an accepted body comes to a node that reads  *)
(* a slot nothing on the walk has written: the verdict of                  *)
(* tc_analyze_definite_init is safe for loops, gotos and joins of any form.*)
THEOREM AcceptedReadsAreWritten == WalkSpec => []NextReadsAreWritten
  <1>1. Types /\ SweepInv /\ WalkInv => NextReadsAreWritten
    <2> SUFFICES ASSUME Types, SweepInv, WalkInv, verdict = "accept",
                        NEW e \in g.edges, e[1] = at
                 PROVE  g.reads[e[2]] \subseteq written
      BY DEF NextReadsAreWritten
    <2>1. e[2] \in g.nodes
      BY EdgeEnds DEF Types, AnalysisTypeOK
    <2>2. CASE e[2] = EntryNode
      BY <2>2, GraphFacts DEF Types, AnalysisTypeOK
    <2>3. CASE e[2] # EntryNode
      <3>1. in[e[2]] = Meet(e[2])
        BY <2>1, <2>3 DEF SweepInv, Equation, Inner
      <3>2. Meet(e[2]) \subseteq out[at] /\ out[at] \subseteq written
        BY MeetBelow DEF WalkInv, OutIsWritten
      <3> QED
        BY <2>1, <3>1, <3>2 DEF SweepInv
    <2> QED
      BY <2>2, <2>3
  <1> QED
    BY <1>1, Invariance, PTL

(* No step of the analysis adds a slot to a set, so a sweep that changes   *)
(* something makes progress towards the last one.                          *)
THEOREM SetsOnlyShrink == WalkSpec => SetsShrink
  <1>1. Types /\ ShrinkInv /\ [WalkNext]_allVars =>
            [\A v \in g.nodes : in'[v] \subseteq in[v] /\ out'[v] \subseteq out[v]]_<<in, out>>
    <2> SUFFICES ASSUME Types, ShrinkInv, [WalkNext]_allVars, ~UNCHANGED <<in, out>>
                 PROVE  \A v \in g.nodes : in'[v] \subseteq in[v] /\ out'[v] \subseteq out[v]
      OBVIOUS
    <2>1. Visit
      BY DEF WalkNext, Analyse, Resweep, Check, WalkStep, WalkEnd, allVars, analysis
    <2> QED
      BY <2>1, VisitShrinks
  <1> QED
    BY <1>1, Invariance, PTL DEF WalkSpec, SetsShrink, allVars
(* The analysis never rejects more than the equations force it to: every   *)
(* solution is below the sets at every moment, so with StopsAtSolution the *)
(* final sets are the greatest solution, whatever the shape of the graph.  *)
THEOREM GreatestSolution == WalkSpec => []AboveEverySolution
  <1>1. WalkInit => Types /\ AboveEverySolution
    <2> SUFFICES ASSUME WalkInit,
                        NEW X \in [g.nodes -> SUBSET g.slots], Solves(X), NEW v \in g.nodes
                 PROVE  X[v] \subseteq out[v]
      BY InitTypes DEF AboveEverySolution
    <2> QED
      BY DEF WalkInit, AnalysisInit, Solves
  <1>2. Types /\ AboveEverySolution /\ [WalkNext]_allVars => (Types /\ AboveEverySolution)'
    BY StepTypes, StepAbove
  <1> QED
    BY <1>1, <1>2, PTL DEF WalkSpec, allVars

-----------------------------------------------------------------------------

(* The error names the first node whose reads its IN set does not cover,   *)
(* and none is named without a reason.                                     *)
CulpritInv ==
    /\ verdict = "accept" => BadReads = {}
    /\ verdict = "uninitialized" => culprit \in BadReads /\ \A v \in BadReads : culprit <= v

(* The unset slots travel along the edges as CarriesUnset says.            *)
LEMMA UnsetIsClosed ==
    ASSUME g \in Graphs, NEW s
    PROVE  CarriesUnset(s, MayBeUnset(s))
  <1>1. s \notin g.params => EntryNode \in MayBeUnset(s)
    BY GraphFacts DEF MayBeUnset, CarriesUnset
  <1>2. ASSUME NEW e \in g.edges, e[1] \in MayBeUnset(s), s \notin g.gen[e[1]]
        PROVE  e[2] \in MayBeUnset(s)
    <2>1. ASSUME NEW T \in SUBSET g.nodes, CarriesUnset(s, T) PROVE e[2] \in T
      BY <1>2, <2>1 DEF MayBeUnset, CarriesUnset
    <2> QED
      BY <2>1, EdgeEnds DEF MayBeUnset
  <1> QED
    BY <1>1, <1>2 DEF CarriesUnset

(* They are in every set that has the entry and is closed.                 *)
LEMMA UnsetIsLeast ==
    ASSUME NEW s, NEW T \in SUBSET g.nodes, CarriesUnset(s, T)
    PROVE  MayBeUnset(s) \subseteq T
  BY DEF MayBeUnset

(* A slot the fixpoint keeps on arrival at a node is set on every path to  *)
(* it: the nodes where it is not kept are closed under the equations.      *)
LEMMA KeptIsSet ==
    ASSUME Types, IsFixpoint, out[EntryNode] = g.params, NEW v \in Inner, NEW s \in in[v]
    PROVE  v \notin MayBeUnset(s)
  <1>0. g \in Graphs
    BY DEF Types, AnalysisTypeOK
  <1> DEFINE lost == {u \in g.nodes : s \notin g.params /\ (u = EntryNode \/ s \notin in[u])}
  <1>1. s \notin g.params => EntryNode \in lost
    BY <1>0, GraphFacts
  <1>2. ASSUME NEW e \in g.edges, e[1] \in lost, s \notin g.gen[e[1]]
        PROVE  e[2] \in lost
    <2>1. e[1] \in g.nodes /\ e[2] \in g.nodes
      BY <1>0, EdgeEnds
    <2>2. s \notin out[e[1]]
      <3>1. CASE e[1] = EntryNode
        BY <1>2, <3>1
      <3>2. CASE e[1] # EntryNode
        <4>1. in[e[1]] = Meet(e[1]) /\ out[e[1]] = Meet(e[1]) \cup g.gen[e[1]]
          BY <2>1, <3>2 DEF IsFixpoint, Inner
        <4> QED
          BY <1>2, <3>2, <4>1
      <3> QED
        BY <3>1, <3>2
    <2>3. CASE e[2] # EntryNode
      <3>1. in[e[2]] = Meet(e[2])
        BY <2>1, <2>3 DEF IsFixpoint, Inner
      <3>2. s \notin in[e[2]]
        BY <2>2, <3>1, MeetBelow
      <3> QED
        BY <1>2, <2>1, <3>2
    <2> QED
      BY <1>2, <2>1, <2>3
  <1>3. CarriesUnset(s, lost)
    BY <1>1, <1>2 DEF CarriesUnset
  <1>4. MayBeUnset(s) \subseteq lost
    BY <1>3, UnsetIsLeast
  <1> QED
    BY <1>4 DEF Inner

(* What is set on every path to a node, with what the node sets itself, is *)
(* a solution of the equations.                                            *)
PathSets == [v \in g.nodes |->
    IF v = EntryNode THEN g.params ELSE SetOnEveryPath(v) \cup g.gen[v]]

(* A slot set on every path to v is set on every path out of a predecessor.*)
LEMMA SetBefore ==
    ASSUME g \in Graphs, NEW v \in Inner, NEW s \in SetOnEveryPath(v), NEW u \in Preds(v)
    PROVE  u \in g.nodes /\ s \in PathSets[u]
  <1>1. PICK e \in g.edges : e[1] = u /\ e[2] = v
    BY DEF Preds
  <1>2. u \in g.nodes
    BY <1>1, EdgeEnds
  <1>3. v \notin MayBeUnset(s) /\ s \in g.slots
    BY DEF SetOnEveryPath
  <1>4. u \notin MayBeUnset(s) \/ s \in g.gen[u]
    BY <1>1, <1>3, UnsetIsClosed DEF CarriesUnset
  <1>5. CASE u = EntryNode
    <2>1. u \notin MayBeUnset(s)
      BY <1>4, <1>5, GraphFacts
    <2>2. s \in g.params
      BY <1>5, <2>1, UnsetIsClosed DEF CarriesUnset
    <2> QED
      BY <1>2, <1>5, <2>2 DEF PathSets
  <1>6. CASE u # EntryNode
    BY <1>2, <1>3, <1>4, <1>6 DEF PathSets, SetOnEveryPath
  <1> QED
    BY <1>5, <1>6

(* So no sweep drops a slot that every path sets.                          *)
LEMMA PathSetsSolve == ASSUME g \in Graphs PROVE Solves(PathSets) /\ PathSets \in [g.nodes -> SUBSET g.slots]
  <1> USE GraphFacts
  <1>1. PathSets[EntryNode] \subseteq g.params
    BY DEF PathSets
  <1>2. ASSUME NEW v \in Inner, NEW s \in PathSets[v], s \notin g.gen[v], NEW u \in Preds(v)
        PROVE  s \in PathSets[u]
    <2>1. s \in SetOnEveryPath(v)
      BY <1>2 DEF PathSets, Inner
    <2> QED
      BY <2>1, SetBefore
  <1>3. PathSets \in [g.nodes -> SUBSET g.slots]
    BY DEF PathSets, SetOnEveryPath
  <1> QED
    BY <1>1, <1>2, <1>3 DEF Solves

(* The fixpoint keeps a slot at a node exactly if every path to it sets it.*)
LEMMA FixpointIsPathSets ==
    ASSUME Types, IsFixpoint, AboveEverySolution, out[EntryNode] = g.params, NEW v \in Inner
    PROVE  in[v] = SetOnEveryPath(v)
  <1>0. g \in Graphs /\ v \in g.nodes /\ in[v] \subseteq g.slots
    BY DEF Types, AnalysisTypeOK, Inner
  <1>1. in[v] \subseteq SetOnEveryPath(v)
    BY <1>0, KeptIsSet DEF SetOnEveryPath
  <1>2. ASSUME NEW s \in SetOnEveryPath(v) PROVE s \in in[v]
    <2>1. \A u \in g.nodes : PathSets[u] \subseteq out[u]
      BY <1>0, PathSetsSolve DEF AboveEverySolution
    <2>2. \A u \in Preds(v) : s \in out[u]
      BY <1>0, <1>2, <2>1, SetBefore
    <2>3. Preds(v) # {}
      BY <1>0, GraphsAssumption DEF IsGraph, Inner, Preds
    <2>4. s \in Meet(v)
      BY <1>2, <2>2, <2>3 DEF Meet, SetOnEveryPath
    <2> QED
      BY <2>4 DEF IsFixpoint
  <1> QED
    BY <1>1, <1>2

(* Check looks at the final sets; nothing moves after it.                  *)
LEMMA StepCulprit == Types /\ SweepInv /\ CulpritInv /\ [WalkNext]_allVars => CulpritInv'
  <1> SUFFICES ASSUME Types, SweepInv, CulpritInv, [WalkNext]_allVars PROVE CulpritInv'
    OBVIOUS
  <1>1. CASE Visit \/ Resweep
    BY <1>1 DEF Visit, Resweep, SweepInv, CulpritInv
  <1>2. CASE Check
    BY <1>2 DEF Check, CulpritInv, BadReads
  <1>3. CASE UNCHANGED analysis
    BY <1>3 DEF analysis, CulpritInv, BadReads
  <1> QED
    BY <1>1, <1>2, <1>3 DEF WalkNext, Analyse, WalkStep, WalkEnd, allVars

(* The verdict of tc_analyze_definite_init is that of the path semantics   *)
(* for every graph: a body is rejected exactly if some path reaches a read *)
(* of a slot the path has not set, and the node named is the first such in *)
(* source order.                                                           *)
THEOREM VerdictMatchesPaths == WalkSpec => []VerdictIsPathVerdict
  <1>1. WalkInit => CulpritInv
    BY DEF WalkInit, AnalysisInit, CulpritInv
  <1>2. Types /\ SweepInv /\ CulpritInv /\ [WalkNext]_allVars => CulpritInv'
    BY StepCulprit
  <1>3. Types /\ SweepInv /\ AboveEverySolution /\ CulpritInv => VerdictIsPathVerdict
    <2> SUFFICES ASSUME Types, SweepInv, AboveEverySolution, CulpritInv, verdict # "none"
                 PROVE  VerdictIsPathVerdict
      BY DEF VerdictIsPathVerdict
    <2>1. IsFixpoint /\ out[EntryNode] = g.params
      BY DEF SweepInv, IsFixpoint, Equation
    <2>2. \A v \in Inner : in[v] = SetOnEveryPath(v)
      BY <2>1, FixpointIsPathSets
    <2>3. g.reads[EntryNode] = {}
      BY GraphFacts DEF Types, AnalysisTypeOK
    <2>4. BadReads = {v \in g.nodes : ~(g.reads[v] \subseteq SetOnEveryPath(v))}
      BY <2>2, <2>3 DEF BadReads, Inner
    <2> QED
      BY <2>4 DEF CulpritInv, VerdictIsPathVerdict
  <1> QED
    BY <1>1, <1>2, <1>3, Invariance, GreatestSolution, PTL DEF WalkSpec, allVars
=============================================================================
