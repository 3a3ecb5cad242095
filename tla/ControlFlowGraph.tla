-------------------------- MODULE ControlFlowGraph --------------------------
(***************************************************************************)
(* The control-flow graph tc_cfg.c builds for a function body.             *)
(*                                                                         *)
(* tc_cfg_add_node numbers nodes as it meets them: entry, then for each    *)
(* statement in preorder its own node, and right after an if or while node *)
(* its MERGE or LOOP_EXIT node, the exit node last. Here statement i is    *)
(* node 2i, the node after it 2i+1, which keeps that order. Builder        *)
(* results of -1 (control does not fall out of the statement) are NoNode.  *)
(***************************************************************************)
EXTENDS StmtTree

NoNode   == -1
Entry    == 0
At(i)    == 2 * i
After(i) == 2 * i + 1
Exit(p)  == 2 * (p.n + 1)
StmtAt(v) == v \div 2

Nodes(p) == {Entry, Exit(p)} \cup {At(i) : i \in Stmts(p)}
                \cup {After(i) : i \in OfKind(p, {"if", "while"})}

(* The value tc_cfg_build_stmt returns: where control falls out.           *)
Out(p, i) ==
    CASE p.kind[i] \in {"if", "while"} -> After(i)
      [] p.kind[i] \in JumpKinds -> NoNode
      [] OTHER -> At(i)

(* The value tc_cfg_build_block returns for block b entered from node pred.*)
BlockOut(p, b, pred) ==
    IF b[1] = b[2] THEN pred
    ELSE Out(p, CHOOSE i \in b[1] .. b[2] - 1 : p.end[i] = b[2] /\ BlockOf(p, i) = b)

(* The predecessor and edge kind tc_cfg_build_stmt is handed for i.        *)
Incoming(p, i) ==
    LET b == BlockOf(p, i)
        sibling == CHOOSE j \in b[1] .. i - 1 : p.end[j] = i /\ BlockOf(p, j) = b
        owner == CHOOSE j \in OfKind(p, {"if", "while"}) :
                    b \in {ThenBlock(p, j), ElseBlock(p, j)}
    IN  IF i # b[1] THEN <<Out(p, sibling), "fallthrough">>
        ELSE IF b = BodyBlock(p) THEN <<Entry, "fallthrough">>
        ELSE <<At(owner), IF b = ThenBlock(p, owner) THEN "true" ELSE "false">>

IfEdges(p, i) ==
    {<<BlockOut(p, ThenBlock(p, i), At(i)), After(i), "fallthrough">>,
     IF p.mid[i] = p.end[i]
     THEN <<At(i), After(i), "false">>
     ELSE <<BlockOut(p, ElseBlock(p, i), At(i)), After(i), "fallthrough">>}

WhileEdges(p, i) ==
    {<<At(i), After(i), "false">>,
     <<BlockOut(p, ThenBlock(p, i), At(i)), At(i), "fallthrough">>}

(* Mutant: break goes to the head of its loop.                            *)
BreakToHead(p, i) ==
    CASE p.kind[i] \in LoopKinds -> <<At(i), At(p.jump[i]), p.kind[i]>>
      [] p.kind[i] = "goto"   -> <<At(i), At(p.jump[i]), "goto">>
      [] p.kind[i] = "return" -> <<At(i), Exit(p), "return">>

JumpEdge(p, i) ==
    CASE p.kind[i] = "break"    -> <<At(i), After(p.jump[i]), "break">>
      [] p.kind[i] = "continue" -> <<At(i), At(p.jump[i]), "continue">>
      [] p.kind[i] = "goto"     -> <<At(i), At(p.jump[i]), "goto">>
      [] p.kind[i] = "return"   -> <<At(i), Exit(p), "return">>

(* tc_cfg_add_edge drops an edge with a missing end.                       *)
Edges(p) ==
    {e \in {<<Incoming(p, i)[1], At(i), Incoming(p, i)[2]>> : i \in Stmts(p)}
           \cup (UNION {IfEdges(p, i) : i \in OfKind(p, {"if"})})
           \cup (UNION {WhileEdges(p, i) : i \in OfKind(p, {"while"})})
           \cup {JumpEdge(p, i) : i \in OfKind(p, JumpKinds)}
           \cup {<<BlockOut(p, BodyBlock(p), Entry), Exit(p), "fallthrough">>}
       : e[1] # NoNode}

(* tc_cfg_prune_constant_edges: only edges of kind true and false go.      *)
Condition(p, v) ==
    IF v \in {At(i) : i \in OfKind(p, {"if", "while"})} THEN p.cond[StmtAt(v)] ELSE "U"

Enabled(p, e) ==
    /\ ~(e[3] = "true" /\ Condition(p, e[1]) = "F")
    /\ ~(e[3] = "false" /\ Condition(p, e[1]) = "T")

-----------------------------------------------------------------------------

(* The nodes reached from S along the edges E: the queue of                *)
(* tc_cfg_mark_reachable emptied.                                          *)
Closure(S, E, bound) ==
    LET r[k \in 0 .. bound] ==
            IF k = 0 THEN S
            ELSE LET near == r[k - 1]
                 IN  near \cup {e[2] : e \in {f \in E : f[1] \in near}}
    IN  r[bound]

EnabledEdges(p) == {e \in Edges(p) : Enabled(p, e)}

Reachable(p) == Closure({Entry}, EnabledEdges(p), Cardinality(Nodes(p)))

(* The graph the definite-initialisation analysis works on.                *)
Graph(p) ==
    LET reach == Reachable(p)
        OfStmt(v, Of(_, _)) == IF v \in {At(i) : i \in Stmts(p)} THEN Of(p, StmtAt(v)) ELSE {}
    IN  [ nodes  |-> reach,
          edges  |-> {<<e[1], e[2]>> : e \in {f \in EnabledEdges(p) : f[1] \in reach}},
          reads  |-> [v \in reach |-> OfStmt(v, Reads)],
          gen    |-> [v \in reach |-> OfStmt(v, Writes)],
          params |-> {Param(p)},
          slots  |-> Slots(p) ]

(* tc_cfg_diagnose_unreachable: pruned edges count here, but for the FALSE *)
(* edge of a loop whose condition is constant true; only STATEMENT nodes   *)
(* are reported.                                                           *)
StructuralEdges(p) ==
    {e \in Edges(p) :
        ~(~Enabled(p, e) /\ e[3] = "false" /\ p.kind[StmtAt(e[1])] = "while")}

Structural(p) == Closure({Entry}, StructuralEdges(p), Cardinality(Nodes(p)))

UnreachableStmts(p) ==
    LET structural == Structural(p)
    IN  {i \in Stmts(p) : p.kind[i] \notin {"if", "while"} /\ At(i) \notin structural}

(* Mutant: only a statement node is seen to fall out of the body.         *)
MissingAfterStmt(p) ==
    /\ ~p.void
    /\ LET reach == Reachable(p)
       IN  \E e \in EnabledEdges(p) :
          e[1] \in reach \ {After(i) : i \in Stmts(p)} /\ e[2] = Exit(p) /\ e[3] = "fallthrough"

(* tc_cfg_diagnose_missing_return                                          *)
MissingReturn(p) ==
    /\ ~p.void
    /\ LET reach == Reachable(p)
       IN  \E e \in EnabledEdges(p) :
          e[1] \in reach /\ e[2] = Exit(p) /\ e[3] = "fallthrough"
=============================================================================
