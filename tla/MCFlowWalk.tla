----------------------------- MODULE MCFlowWalk -----------------------------
(* Checks the analysis and the walk on every small graph, reducible or not,*)
(* with one node that reads.                                               *)
EXTENDS FlowWalk

CONSTANTS MaxNode, Slots, Params

SmallGraphs ==
    LET V == 0 .. MaxNode
        W == 1 .. MaxNode
    IN  {h \in [nodes : {V}, edges : SUBSET (V \X W), slots : {Slots}, params : {Params},
                gen : [V -> SUBSET Slots], reads : {[v \in V |-> IF v = r THEN Slots ELSE {}] : r \in W}] :
            h.gen[0] = {} /\ \A v \in W : \E u \in V : <<u, v>> \in h.edges}
=============================================================================
