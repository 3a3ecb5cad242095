------------------------------ MODULE Executor ------------------------------
(***************************************************************************)
(* One activation of a function body in the tree-walking executor          *)
(* (src/vm/executor/tc_executor.c). The C call stack of                    *)
(* tc_execute_block / tc_execute_if_at / tc_execute_while_at is an explicit*)
(* stack of frames; ctl is the TcExecControl a finished call hands to its  *)
(* caller, "run" while the top frame is active; next is ctx->index.next.   *)
(***************************************************************************)
EXTENDS ControlFlowGraph, Sequences, SequencesExt

VARIABLES
    prog,       \* the function body, see StmtTree
    next,       \* the statement cursor
    stack,      \* active block, if and while calls, innermost last
    ctl,        \* [kind, arg]: arg is a loop for break and continue, a label for goto
    at,         \* auxiliary: the CFG node control has reached
    written     \* auxiliary: the slots written so far

execution == <<next, stack, ctl, at, written>>

Ctl(kind, arg) == [kind |-> kind, arg |-> arg]
Run      == Ctl("run", 0)
Normal   == Ctl("normal", 0)
Internal == Ctl("error", "internal")
Fault    == Ctl("error", "runtime")

BlockFrame(b) == [fn |-> "block", lo |-> b[1], hi |-> b[2], cur |-> b[1]]
IfFrame(i, arm) == [fn |-> "if", stmt |-> i, arm |-> arm]
WhileFrame(i) == [fn |-> "while", stmt |-> i]

Top == Last(stack)
InBlockCall == stack # <<>> /\ Top.fn = "block"
Push(s, f) == Append(s, f)
Return(c) == stack' = Front(stack) /\ ctl' = c
Cursor(i) == [stack EXCEPT ![Len(stack)].cur = i]

ExecInit ==
    /\ next = BodyBlock(prog)[1]
    /\ stack = <<BlockFrame(BodyBlock(prog))>>
    /\ ctl = Run
    /\ at = Entry
    /\ written = {Param(prog)}

OutOfBlock(n) == n < Top.lo \/ n >= Top.hi

(* tc_execute_block, head of the loop                                      *)
LeaveBlock ==
    /\ InBlockCall /\ ctl = Run /\ OutOfBlock(next)
    /\ Return(Normal)
    /\ UNCHANGED <<prog, next, at, written>>

SkipStmt ==
    /\ InBlockCall /\ ctl = Run /\ ~OutOfBlock(next)
    /\ next >= prog.end[Top.cur]
    /\ stack' = Cursor(prog.end[Top.cur])
    /\ UNCHANGED <<prog, next, ctl, at, written>>

(* tc_execute_statement_at is called for statement i.                      *)
Dispatch(i) ==
    /\ InBlockCall /\ ctl = Run /\ ~OutOfBlock(next)
    /\ i = Top.cur /\ next < prog.end[i]

(* tc_execute_if_at. With the cursor on the if the condition is evaluated; *)
(* with the cursor inside it the arm around the cursor is re-entered.      *)
DoIf(i) ==
    /\ Dispatch(i) /\ prog.kind[i] = "if"
    /\ \E holds \in Outcomes(prog, i) :
         LET seeking == next # i
             arm == IF seeking THEN next < prog.mid[i] ELSE holds
             b   == IF arm THEN ThenBlock(prog, i) ELSE ElseBlock(prog, i)
         IN  /\ next' = IF seeking THEN next ELSE b[1]
             /\ IF ~arm /\ b[1] = b[2]
                THEN ctl' = Normal /\ UNCHANGED stack
                ELSE /\ stack' = Push(Push(stack, IfFrame(i, arm)), BlockFrame(b))
                     /\ UNCHANGED ctl
             /\ at' = IF seeking THEN at ELSE At(i)
    /\ UNCHANGED <<prog, written>>

(* Mutant: the end of a then arm does not jump to the end of the if.      *)
EndIfInPlace ==
    /\ stack # <<>> /\ Top.fn = "if" /\ ctl # Run
    /\ Return(ctl)
    /\ UNCHANGED <<prog, next, at, written>>

EndIf ==
    /\ stack # <<>> /\ Top.fn = "if" /\ ctl # Run
    /\ Return(ctl)
    /\ next' = IF ctl = Normal /\ Top.arm /\ next = prog.mid[Top.stmt]
               THEN prog.end[Top.stmt] ELSE next
    /\ UNCHANGED <<prog, at, written>>

(* tc_execute_while_at                                                     *)
DoWhile(i) ==
    /\ Dispatch(i) /\ prog.kind[i] = "while"
    /\ IF next # i
       THEN ctl' = Internal /\ UNCHANGED stack
       ELSE stack' = Push(stack, WhileFrame(i)) /\ UNCHANGED ctl
    /\ UNCHANGED <<prog, next, at, written>>

LoopTest ==
    /\ stack # <<>> /\ Top.fn = "while" /\ ctl = Run
    /\ \E holds \in Outcomes(prog, Top.stmt) :
         IF holds
         THEN /\ stack' = Push(stack, BlockFrame(ThenBlock(prog, Top.stmt)))
              /\ next' = Top.stmt + 1
              /\ UNCHANGED ctl
         ELSE Return(Normal) /\ next' = prog.end[Top.stmt]
    /\ at' = At(Top.stmt)
    /\ UNCHANGED <<prog, written>>

FailLoopTest ==
    /\ stack # <<>> /\ Top.fn = "while" /\ ctl = Run /\ Outcomes(prog, Top.stmt) = BOOLEAN
    /\ Return(Fault)
    /\ UNCHANGED <<prog, next, at, written>>

EndLoopBody ==
    /\ stack # <<>> /\ Top.fn = "while" /\ ctl # Run
    /\ CASE ctl = Ctl("break", Top.stmt) ->
              Return(Normal) /\ next' = prog.end[Top.stmt]
         [] ctl = Ctl("continue", Top.stmt) \/ ctl = Normal ->
              ctl' = Run /\ UNCHANGED <<stack, next>>
         [] OTHER -> Return(ctl) /\ UNCHANGED next
    /\ UNCHANGED <<prog, at, written>>

(* Mutant: a statement takes two indices.                                 *)
DoSimpleTwice(i) ==
    /\ Dispatch(i) /\ prog.kind[i] \notin {"if", "while"}
    /\ next' = next + 2
    /\ ctl' = IF prog.kind[i] \in JumpKinds THEN Ctl(prog.kind[i], prog.jump[i]) ELSE Normal
    /\ at' = At(i)
    /\ written' = written \cup Writes(prog, i)
    /\ UNCHANGED <<prog, stack>>

(* Mutant: a label returns without taking its index.                      *)
LabelStays(i) ==
    /\ Dispatch(i) /\ prog.kind[i] \notin {"if", "while"}
    /\ next' = IF prog.kind[i] = "label" THEN next ELSE next + 1
    /\ ctl' = IF prog.kind[i] \in JumpKinds THEN Ctl(prog.kind[i], prog.jump[i]) ELSE Normal
    /\ at' = At(i)
    /\ written' = written \cup Writes(prog, i)
    /\ UNCHANGED <<prog, stack>>

(* The other statements take their index and act. A goto, break, continue  *)
(* or return acts by the control it returns.                               *)
DoSimple(i) ==
    /\ Dispatch(i) /\ prog.kind[i] \notin {"if", "while"}
    /\ next' = next + 1
    /\ ctl' = IF prog.kind[i] \in JumpKinds THEN Ctl(prog.kind[i], prog.jump[i]) ELSE Normal
    /\ at' = At(i)
    /\ written' = written \cup Writes(prog, i)
    /\ UNCHANGED <<prog, stack>>

(* Evaluation fails at run time (overflow, division by zero, a bad cast):  *)
(* nothing is stored and the error unwinds every call. A condition that is *)
(* a constant does not fail, nor does a return without a value.            *)
Evaluates(i) ==
    \/ prog.kind[i] \in {"def", "use", "assign", "read"}
    \/ prog.kind[i] = "return" /\ ~prog.void
    \/ prog.kind[i] = "if" /\ next = i /\ Outcomes(prog, i) = BOOLEAN
FailStatement(i) ==
    /\ Dispatch(i) /\ Evaluates(i)
    /\ next' = next + 1
    /\ ctl' = Fault
    /\ UNCHANGED <<prog, stack, at, written>>

(* tc_execute_block after the statement has returned                       *)
ResumeBlock ==
    /\ InBlockCall /\ ctl # Run
    /\ CASE ctl.kind = "goto" /\ Top.lo <= ctl.arg /\ ctl.arg < Top.hi ->
              /\ next' = ctl.arg + 1
              /\ stack' = Cursor(Top.lo)
              /\ ctl' = Run
              /\ at' = At(ctl.arg)
         [] ctl.kind = "normal" ->
              /\ IF OutOfBlock(next) THEN Return(Normal)
                 ELSE /\ ctl' = Run
                      /\ stack' = Cursor(IF next = prog.end[Top.cur]
                                         THEN prog.end[Top.cur] ELSE Top.lo)
              /\ at' = IF prog.kind[Top.cur] \in {"if", "while"} THEN After(Top.cur) ELSE at
              /\ UNCHANGED next
         [] OTHER -> Return(ctl) /\ UNCHANGED <<next, at>>
    /\ UNCHANGED <<prog, written>>

(* tc_exec_call_function after the body, for a call that wants the value   *)
(* of a function that has one.                                             *)
EndCall ==
    /\ stack = <<>> /\ ctl.kind \notin {"done", "error"}
    /\ ctl' = IF ctl.kind = "return" \/ (ctl = Normal /\ prog.void)
              THEN Ctl("done", 0) ELSE Internal
    /\ at' = IF ctl.kind \in {"return", "normal"} THEN Exit(prog) ELSE at
    /\ UNCHANGED <<prog, next, stack, written>>

Halted == stack = <<>> /\ ctl.kind \in {"done", "error"}

Step ==
    \/ LeaveBlock \/ SkipStmt \/ EndIf \/ LoopTest \/ FailLoopTest \/ EndLoopBody \/ ResumeBlock \/ EndCall
    \/ \E i \in Stmts(prog) : DoIf(i) \/ DoWhile(i) \/ DoSimple(i) \/ FailStatement(i)

ExecNext == Step \/ (Halted /\ UNCHANGED <<prog, execution>>)

(* One activation of any body that passed the stages before the CFG.       *)
ExecSpec == WellFormed(prog) /\ ExecInit /\ [][ExecNext]_<<prog, execution>>

(* The executor is one thread of C calls: it runs until the call returns.  *)
ExecFairness == WF_<<prog, execution>>(Step)

-----------------------------------------------------------------------------

Controls ==
    {Run, Normal, Internal, Fault, Ctl("done", 0), Ctl("return", 0)}
        \cup {Ctl(k, i) : k \in {"goto"} \cup LoopKinds, i \in Stmts(prog)}

Frames ==
    {f \in {BlockFrame(b) : b \in Blocks(prog)} : TRUE}
        \cup {IfFrame(i, arm) : i \in OfKind(prog, {"if"}), arm \in BOOLEAN}
        \cup {WhileFrame(i) : i \in OfKind(prog, {"while"})}

ExecTypeOK ==
    /\ next \in 1 .. prog.n + 1
    /\ ctl \in Controls
    /\ \A k \in 1 .. Len(stack) :
          LET f == stack[k]
          IN  IF f.fn = "block" THEN [f EXCEPT !.cur = f.lo] \in Frames /\ f.cur \in f.lo .. f.hi
              ELSE f \in Frames
    /\ at \in Nodes(prog)
    /\ written \subseteq Slots(prog)

(* The variable a statement is about to read has been written.             *)
ReadsAreWritten ==
    /\ \A i \in Stmts(prog) :
          Dispatch(i) /\ next = i /\ prog.kind[i] # "while" => Reads(prog, i) \subseteq written
    /\ stack # <<>> /\ Top.fn = "while" /\ ctl = Run => Reads(prog, Top.stmt) \subseteq written

(* Of the executor's "internal error" exits only "fell through without     *)
(* return" can be taken, and only by a body the analyzer rejects for a     *)
(* missing return.                                                         *)
InternalErrorIsMissingReturn == ctl = Internal => MissingReturn(prog)

(* A statement the analyzer calls unreachable is never executed.           *)
UnreachableNeverRuns ==
    \A i \in UnreachableStmts(prog) : at # At(i)

(* An activation that does not end keeps moving from node to node or       *)
(* testing a loop: the restarts of a block after a jump never chase their  *)
(* own tail.                                                               *)
GetsOn == <>Halted \/ []<><<at' # at \/ LoopTest>>_execution
=============================================================================
