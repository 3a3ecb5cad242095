-------------------------------- MODULE Calls --------------------------------
(***************************************************************************)
(* Function calls in the executor (tc_exec_call_function and               *)
(* tc_exec_eval_funcall_args of src/vm/executor/tc_executor.c) for a       *)
(* program the recursion check has accepted. A function has one static     *)
(* slot per parameter, so its activations share them: the check is what    *)
(* makes the slots as good as a frame.                                     *)
(*                                                                         *)
(* Beyond CallGraph, a program has p.params[f], the number of parameters,  *)
(* and p.line[f], the line of the definition in its own file.              *)
(***************************************************************************)
EXTENDS CallGraph

CONSTANT ArgValues

ASSUME ParamsAssumption == \A q \in CallPrograms : q.params \in [1 .. q.n -> Nat]

VARIABLES
    slots,      \* the parameter slots
    current,    \* ctx->current_func_id, 0 outside every function
    cursor,     \* ctx->index, as function and next call statement
    frames,     \* ctx->call_frame: the functions, innermost last
    active      \* tc_exec_call_function calls, innermost last

context == <<current, cursor, frames>>
running == <<slots, context, active>>
vars == <<p, checking, running>>

(* Pass 1 registers the parameter symbols <<function, position>> in the    *)
(* order Before and gives each a slot of its own, named here by its symbol.*)
ParamSymbols == UNION {{<<f, i>> : i \in 1 .. p.params[f]} : f \in Functions}
SlotOf(f, i) == <<f, i>>

(* tc_exec_param_slot: the i-th of the parameter symbols, of whatever      *)
(* module, that are defined on the line of f.                              *)
OnLineOf(f) == {s \in ParamSymbols : p.line[s[1]] = p.line[f]}
ParamSlot(f, i) ==
    CHOOSE s \in OnLineOf(f) : Cardinality({t \in OnLineOf(f) : ~Before(s, t)}) = i

Outside == <<0, 0>>

Init ==
    /\ p \in CallPrograms
    /\ CheckInit
    /\ \E v \in ArgValues : slots = [s \in ParamSymbols |-> v]
    /\ current = 0 /\ cursor = Outside /\ frames = <<>> /\ active = <<>>

CheckRecursion == CheckStep /\ UNCHANGED running

(* A call of f begins: its arguments come next. "given" is what the callee *)
(* is entitled to find in its parameters.                                  *)
Begin(f) == [f |-> f, given |-> <<>>, entered |-> FALSE, failed |-> FALSE,
             savedFunc |-> current, savedIndex |-> cursor', at |-> 1]
Act == Last(active)
OnTop(r) == [active EXCEPT ![Len(active)] = r]

HostCall ==
    /\ verdict = "accept" /\ active = <<>>
    /\ UNCHANGED <<p, checking, slots, context>>
    /\ \E f \in Functions : active' = <<Begin(f)>>

(* The caller's statement has taken its index when the call begins.        *)
CallStmt ==
    /\ active # <<>> /\ Act.entered /\ ~Act.failed /\ cursor[2] <= Len(p.calls[current])
    /\ cursor' = <<cursor[1], cursor[2] + 1>>
    /\ active' = Append(OnTop([Act EXCEPT !.at = @ + 1]), Begin(p.calls[current][cursor[2]]))
    /\ UNCHANGED <<p, checking, slots, current, frames>>

(* The statement is in a branch not taken.                                 *)
SkipStmt ==
    /\ active # <<>> /\ Act.entered /\ ~Act.failed /\ cursor[2] <= Len(p.calls[current])
    /\ cursor' = <<cursor[1], cursor[2] + 1>>
    /\ active' = OnTop([Act EXCEPT !.at = @ + 1])
    /\ UNCHANGED <<p, checking, slots, current, frames>>

(* One argument is evaluated and stored.                                   *)
StoreArg ==
    /\ active # <<>> /\ ~Act.entered /\ ~Act.failed /\ Len(Act.given) < p.params[Act.f]
    /\ \E v \in ArgValues :
          /\ slots' = [slots EXCEPT ![ParamSlot(Act.f, Len(Act.given) + 1)] = v]
          /\ active' = OnTop([Act EXCEPT !.given = Append(@, v)])
    /\ UNCHANGED <<p, checking, context>>

EnterBody ==
    /\ active # <<>> /\ ~Act.entered /\ ~Act.failed /\ Len(Act.given) = p.params[Act.f]
    /\ frames' = Append(frames, Act.f)
    /\ current' = Act.f
    /\ cursor' = <<Act.f, 1>>
    /\ active' = OnTop([Act EXCEPT !.entered = TRUE])
    /\ UNCHANGED <<p, checking, slots>>

(* The body stores into the copy a memblock parameter holds: parameters are*)
(* read-only but for the elements of such a copy.                          *)
StoreIntoParam ==
    /\ active # <<>> /\ Act.entered /\ ~Act.failed
    /\ \E i \in 1 .. p.params[Act.f], v \in ArgValues :
          /\ slots' = [slots EXCEPT ![SlotOf(Act.f, i)] = v]
          /\ active' = OnTop([Act EXCEPT !.given[i] = v])
    /\ UNCHANGED <<p, checking, context>>

(* Evaluation fails, of an argument or in the body.                        *)
Fail ==
    /\ active # <<>> /\ ~Act.failed
    /\ active' = OnTop([Act EXCEPT !.failed = TRUE])
    /\ UNCHANGED <<p, checking, slots, context>>

(* Mutant: a call that failed leaves its context behind.                  *)
EndCallOnSuccess ==
    /\ active # <<>> /\ (Act.failed \/ Act.entered)
    /\ IF Act.entered /\ ~Act.failed
       THEN /\ frames' = Front(frames)
            /\ current' = Act.savedFunc
            /\ cursor' = Act.savedIndex
       ELSE UNCHANGED context
    /\ active' = IF Len(active) > 1 /\ Act.failed
                 THEN [Front(active) EXCEPT ![Len(active) - 1].failed = TRUE]
                 ELSE Front(active)
    /\ UNCHANGED <<p, checking, slots>>

(* The call ends; an error goes on in the caller.                          *)
EndCall ==
    /\ active # <<>> /\ (Act.failed \/ Act.entered)
    /\ IF Act.entered
       THEN /\ frames' = Front(frames)
            /\ current' = Act.savedFunc
            /\ cursor' = Act.savedIndex
       ELSE UNCHANGED context
    /\ active' = IF Len(active) > 1 /\ Act.failed
                 THEN [Front(active) EXCEPT ![Len(active) - 1].failed = TRUE]
                 ELSE Front(active)
    /\ UNCHANGED <<p, checking, slots>>

Rejected == verdict = "recursion" /\ UNCHANGED vars

Next ==
    \/ CheckRecursion \/ Rejected
    \/ HostCall \/ CallStmt \/ SkipStmt \/ StoreArg \/ EnterBody \/ StoreIntoParam \/ Fail \/ EndCall

Spec == Init /\ [][Next]_vars

-----------------------------------------------------------------------------

(* The two cases the analyzer lets through in which a function's slots are *)
(* not its own: tc_exec_param_slot finds those of another function that is *)
(* defined on the same line, and library functions are accepted although   *)
(* they call themselves.                                                   *)
SharesLine(f) == \E g \in Functions \ {f} : p.params[g] # 0 /\ p.line[g] = p.line[f]
RecursUnseen(f) == f \notin p.entry /\ f \in Leads(f)

FindsItsParams(act) == \A i \in 1 .. Len(act.given) : slots[SlotOf(act.f, i)] = act.given[i]

(* Every activation of another function finds in its parameters what its   *)
(* call passed or it has stored there since, at any depth of calls and     *)
(* after any failed call: by-value parameters behave as if each activation *)
(* had its own, whatever the excepted functions do.                        *)
ParamsArePrivate ==
    \A k \in 1 .. Len(active) :
        SharesLine(active[k].f) \/ RecursUnseen(active[k].f) \/ FindsItsParams(active[k])

(* The context is that of the innermost entered call: after a return, also *)
(* one that unwinds an error, the caller goes on at its next statement.    *)
Entered == IF active # <<>> /\ ~Act.entered THEN Front(active) ELSE active
ContextIsInnermost ==
    /\ \A k \in 1 .. Len(Entered) : Entered[k].entered
    /\ frames = [k \in 1 .. Len(Entered) |-> Entered[k].f]
    /\ current = IF Entered = <<>> THEN 0 ELSE Last(Entered).f
    /\ cursor = IF Entered = <<>> THEN Outside ELSE <<current, Last(Entered).at>>

(* "Create the callee's frame and write the parameters" (language standard,*)
(* section 8.5), said of every activation.                                 *)
ArgsReachTheirCallee == \A k \in 1 .. Len(active) : FindsItsParams(active[k])

(* "If the calls of functions contain direct or indirect recursion (also   *)
(* of a function with itself) TC_CE_RECURSION is reported" (section 8.6).  *)
(* The code does not keep it: it is violated on the programs of the run    *)
(* calls (README, section 6, 12).                                          *)
RecursionIsReported == verdict = "accept" => \A f \in Functions : f \notin Leads(f)
=============================================================================
