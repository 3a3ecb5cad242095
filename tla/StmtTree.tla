------------------------------ MODULE StmtTree ------------------------------
(***************************************************************************)
(* One function body as the analyzer, the CFG builder and the executor see *)
(* it: statements numbered in preorder (src/vm/runtime/tc_stmt_index.h).   *)
(* The FUNC_DEF itself has index 0, so the body occupies 1..n.             *)
(*                                                                         *)
(* A body p is a record                                                    *)
(*   n      number of statements of the body, nested ones included         *)
(*   kind   the statement kind of each index                               *)
(*   end    stmt_start + tc_stmt_subtree_index_count(stmt)                 *)
(*   mid    if: else_start (the end of the then block); otherwise = end,   *)
(*          so that the "then block" of a while is its body                *)
(*   jump   goto: resolved_target_stmt_index; break, continue: the index   *)
(*          of the while whose loop_id they carry; otherwise 0             *)
(*   cond   if, while: the static three-valued condition T, F or U         *)
(*   slot   the variable a statement reads or assigns, named by the index  *)
(*          of its var definition (slots are globally unique, one per var);*)
(*          n+1 names the parameter, 0 no variable                         *)
(*   void   the function returns void                                      *)
(***************************************************************************)
EXTENDS Integers, FiniteSets

LoopKinds == {"break", "continue"}
JumpKinds == LoopKinds \cup {"goto", "return"}
Kinds     == JumpKinds \cup {"def", "use", "assign", "read", "label", "if", "while"}

Stmts(p) == 1 .. p.n
OfKind(p, K) == {i \in Stmts(p) : p.kind[i] \in K}

Param(p) == p.n + 1
Slots(p) == OfKind(p, {"def"}) \cup {Param(p)}

(* A block is its half-open range of indices: the statement list of the    *)
(* body, of each arm of an if, of each while.                              *)
BodyBlock(p)    == <<1, p.n + 1>>
ThenBlock(p, i) == <<i + 1, p.mid[i]>>
ElseBlock(p, i) == <<p.mid[i], p.end[i]>>

Blocks(p) == {BodyBlock(p)}
      \cup {ThenBlock(p, i) : i \in OfKind(p, {"if", "while"})}
      \cup {ElseBlock(p, i) : i \in OfKind(p, {"if"})}

InBlock(i, b) == b[1] <= i /\ i < b[2]

Enclosing(p, i) == {b \in Blocks(p) : InBlock(i, b)}

(* The block whose list holds statement i: the innermost one around it.    *)
BlockOf(p, i) ==
    LET around == Enclosing(p, i)
    IN  CHOOSE b \in around : \A c \in around : b[1] >= c[1] /\ b[2] <= c[2]

(* The innermost while around i, or 0 (the loop ids pass 1 stamps).        *)
LoopsAround(p, i) == {w \in OfKind(p, {"while"}) : InBlock(i, ThenBlock(p, w))}
InnermostLoop(p, i) ==
    IF LoopsAround(p, i) = {} THEN 0
    ELSE CHOOSE w \in LoopsAround(p, i) : \A v \in LoopsAround(p, i) : v <= w

(* tc_symbol_table_find_visible: a var is visible to the statements after  *)
(* its definition, in the definition's block and in the blocks inside it.  *)
Visible(p, i) ==
    LET around == Enclosing(p, i)
    IN  {d \in OfKind(p, {"def"}) : d < i /\ BlockOf(p, d) \in around}

(* Stage 6a and goto resolution: labels and gotos stand outside every loop *)
(* and a goto reaches a label of its own block or of a block around it.    *)
GotoTargets(p, i) ==
    LET around == Enclosing(p, i)
    IN  {l \in OfKind(p, {"label"}) : BlockOf(p, l) \in around}

(* What a body that passed the parser and stages 6a to 10 looks like.      *)
WellFormed(p) ==
    /\ p.n \in Nat
    /\ \A i \in Stmts(p) :
          /\ p.kind[i] \in Kinds
          /\ p.end[i] \in i + 1 .. BlockOf(p, i)[2]
          /\ p.mid[i] \in i + 1 .. p.end[i]
          /\ p.kind[i] \notin {"if", "while"} => p.end[i] = i + 1
          /\ p.kind[i] # "if" => p.mid[i] = p.end[i]
          /\ p.kind[i] \notin LoopKinds \cup {"goto"} => p.jump[i] = 0
          /\ p.slot[i] \in {0, Param(p)} \cup Visible(p, i)
          /\ p.kind[i] \in {"assign", "read"} => p.slot[i] \in Visible(p, i)
    /\ \A i \in OfKind(p, LoopKinds) :
          p.jump[i] = InnermostLoop(p, i) /\ p.jump[i] # 0
    /\ \A i \in OfKind(p, {"goto"}) :
          p.jump[i] \in GotoTargets(p, i)
    /\ \A i \in OfKind(p, {"goto", "label"}) : LoopsAround(p, i) = {}

-----------------------------------------------------------------------------

(* The slots a statement reads before it acts. An assignment reads its     *)
(* target too; the target of read() is not in the set: this is the read    *)
(* set the code records, not the one the language standard asks for.       *)
Reads(p, i) ==
    IF p.kind[i] \in {"use", "assign", "return", "if", "while"}
    THEN {p.slot[i]} \ {0} ELSE {}

(* The slots a statement initialises.                                      *)
Writes(p, i) ==
    CASE p.kind[i] = "def" -> {i}
      [] p.kind[i] \in {"assign", "read"} -> {p.slot[i]}
      [] OTHER -> {}

(* What a condition may evaluate to at run time: the folded value when it  *)
(* is constant, either one when it reads variables.                        *)
Outcomes(p, i) ==
    CASE p.cond[i] = "T" -> {TRUE}
      [] p.cond[i] = "F" -> {FALSE}
      [] OTHER -> BOOLEAN
=============================================================================
