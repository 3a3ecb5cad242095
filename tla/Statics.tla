------------------------------- MODULE Statics -------------------------------
(***************************************************************************)
(* The static members of the #lib modules of a program: how the analyzer   *)
(* orders and evaluates the initialisers of static let                     *)
(* (src/vm/analyzer/tc_static_init.c over tc_const_eval.c), which          *)
(* diagnostic it holds back and which it reports (tc_diagnostic.c,         *)
(* tc_analyzer.c), and how the VM prepares the static var before the first *)
(* statement (src/vm/executor/tc_executor.c).                              *)
(*                                                                         *)
(* A program is the sequence of its modules in the order the analyzer      *)
(* visits them, each the sequence of its declarations; a place <<f, i>> is *)
(* declaration i of module f, and i stands for its line. An initialiser is *)
(* the sum of lhs and rhs; when it has one operand only, rhs is the        *)
(* literal 0. Names, types and accessibility are right in every program.   *)
(***************************************************************************)
EXTENDS Integers, Sequences, FiniteSets

CONSTANTS
    Programs,   \* the programs
    Limit       \* the largest value of the integer type

Kinds == {"let", "var"}
Forms == {"value", "operation", "construct", "cast"}
(* 5, Self.m, Self.s.f, M.m and M.s.f. *)
Sources == {"literal", "member", "field", "import", "import_field"}

(* The parser's output with its names resolved: Self names a member of the *)
(* module itself, a module's name a member of another.                     *)
PlacesOf(code) == UNION {{<<f, i>> : i \in DOMAIN code[f]} : f \in DOMAIN code}
OperandsIn(code) ==
    [source : {"literal"}, value : Nat] \cup [source : Sources \ {"literal"}, of : PlacesOf(code)]
Declarations(code) == [kind : Kinds, form : Forms, lhs : OperandsIn(code), rhs : OperandsIn(code)]
IsStaticsProgram(code) ==
    /\ code \in Seq(Seq(Declarations(code)))
    /\ \A p \in PlacesOf(code) : \A o \in {code[p[1]][p[2]].lhs, code[p[1]][p[2]].rhs} :
        /\ o.source \in {"member", "field"} => o.of[1] = p[1]
        /\ o.source \in {"import", "import_field"} => o.of[1] # p[1]

ASSUME LimitAssumption == Limit \in Nat
ASSUME ProgramsAssumption == \A code \in Programs : IsStaticsProgram(code)

VARIABLES
    program,
    stage,      \* "graph", "evaluate", "check", "prepare"; "rejected", "failed", "crashed", "running"
    file,       \* the module whose static lets are evaluated
    degree,     \* in_degree of its static lets
    queue,      \* the declarations to process, the next one first
    constant,   \* the static lets that have a value (has_const_value, const_value)
    failed,     \* those whose evaluation failed (ct_eval_failed)
    pending,    \* where the deferred diagnostic is (diag->deferred), a set of at most one place
    report,     \* the diagnostic: its phase and place, or None
    slot        \* the static vars that are initialised, and their values

vars == <<program, stage, file, degree, queue, constant, failed, pending, report, slot>>

None == [phase |-> "none"]
Diagnostic(phase, p) == [phase |-> phase, place |-> p]

-----------------------------------------------------------------------------
(* Declarations and operands                                               *)

Places == PlacesOf(program)
Decl(p) == program[p[1]][p[2]]
Operands(p) == {Decl(p).lhs, Decl(p).rhs}
Lets == {p \in Places : Decl(p).kind = "let"}
StaticVars == {p \in Places : Decl(p).kind = "var"}
LetsOf(f) == {p \in Lets : p[1] = f}
Before(p, q) == p[1] < q[1] \/ (p[1] = q[1] /\ p[2] < q[2])
InSourceOrder(S) ==
    CHOOSE s \in [1 .. Cardinality(S) -> S] : \A i, j \in DOMAIN s : i < j => Before(s[i], s[j])
Put(table, p, value) == [q \in DOMAIN table \cup {p} |-> IF q = p THEN value ELSE table[q]]

(* tc_collect_self_member_names: Self.m when it is the whole initialiser,  *)
(* Self.s.f anywhere.                                                      *)
Collects(p, o) == o.source = "field" \/ (o.source = "member" /\ Decl(p).form = "value")

Dependencies(p) == {o.of : o \in {u \in Operands(p) : Collects(p, u)}} \cap Lets

-----------------------------------------------------------------------------
(* The value of an initialiser at compile time                             *)

HasValue(p) == p \in DOMAIN constant

(* Mutant: has_const_value is not asked. *)
AvailableUnasked(o) == o.source # "literal" => o.of \in Lets

(* A whole imported member is read through the value its symbol had when   *)
(* the operand was resolved, 0 if it had none.                             *)
Available(o) ==
    o.source # "literal" =>
        o.of \in Lets /\ (o.source # "import" => HasValue(o.of))

ValueOf(o) ==
    CASE o.source = "literal" -> o.value
      [] o.source # "literal" /\ HasValue(o.of) -> constant[o.of]
      [] OTHER -> 0

Ready(p) == \A o \in Operands(p) : Available(o)
Result(p) == ValueOf(Decl(p).lhs) + ValueOf(Decl(p).rhs)

(* tc_const_value_withheld, of the operand the evaluation stops at. The    *)
(* flag it asks for is set when an evaluation fails, and nothing clears it *)
(* when the symbol is made: of a let that has not failed it is whatever    *)
(* the allocator left there.                                               *)
StopsAt(p) == IF Available(Decl(p).lhs) THEN Decl(p).rhs ELSE Decl(p).lhs
Withheld(o) == o.of \in failed /\ pending # {}
SeemsWithheld(o) == o.of \in Lets /\ pending # {}

(* Mutant: the first one stays. *)
DeferOnce(p) == IF pending = {} THEN {p} ELSE pending

(* tc_diagnostic_defer keeps the diagnostic of the smallest line. *)
Defer(p) == IF \A q \in pending : p[2] < q[2] THEN {p} ELSE pending

-----------------------------------------------------------------------------
(* Compile time                                                            *)

Init ==
    /\ program \in Programs
    /\ stage = "graph"
    /\ file = 1
    /\ degree = <<>>
    /\ queue = <<>>
    /\ constant = <<>>
    /\ failed = {}
    /\ pending = {}
    /\ report = None
    /\ slot = <<>>

Reject(p) ==
    /\ stage' = "rejected"
    /\ report' = Diagnostic("SEM", p)

(* A reference to the declaration itself or to a later one. *)
LooksAhead(p) == \E q \in Dependencies(p) : q[2] >= p[2]

(* tc_func_eval_static_lets up to the queue of those that wait for none. *)
BuildGraph ==
    /\ stage = "graph"
    /\ \A p \in LetsOf(file) : ~LooksAhead(p)
    /\ degree' = [p \in LetsOf(file) |-> Cardinality(Dependencies(p))]
    /\ queue' = InSourceOrder({p \in LetsOf(file) : Dependencies(p) = {}})
    /\ stage' = "evaluate"
    /\ UNCHANGED <<program, file, constant, failed, pending, report, slot>>

RejectLookAhead ==
    /\ stage = "graph"
    /\ \E p \in LetsOf(file) :
        /\ LooksAhead(p)
        /\ \A q \in LetsOf(file) : LooksAhead(q) => ~Before(q, p)
        /\ Reject(p)
    /\ UNCHANGED <<program, file, degree, queue, constant, failed, pending, slot>>

(* The edges from p are taken away, failed or not. *)
Release(p) ==
    /\ degree' = [q \in DOMAIN degree |->
                    IF p \in Dependencies(q) THEN degree[q] - 1 ELSE degree[q]]
    /\ queue' = Tail(queue) \o InSourceOrder({q \in DOMAIN degree : p \in Dependencies(q) /\ degree[q] = 1})

EvaluateLet ==
    /\ stage = "evaluate" /\ queue # <<>>
    /\ LET p == Head(queue) IN
        /\ Ready(p) /\ Result(p) <= Limit
        /\ constant' = Put(constant, p, Result(p))
        /\ Release(p)
    /\ UNCHANGED <<program, stage, file, failed, pending, report, slot>>

(* The evaluation fails: the diagnostic is held back, the rest goes on. *)
DeferLet ==
    /\ stage = "evaluate" /\ queue # <<>>
    /\ LET p == Head(queue) IN
        /\ Ready(p) /\ Result(p) > Limit
        /\ pending' = Defer(p)
        /\ failed' = failed \cup {p}
        /\ Release(p)
    /\ UNCHANGED <<program, stage, file, constant, report, slot>>

(* An operand has failed before, or its flag says so: no diagnostic of its *)
(* own.                                                                    *)
WithholdLet ==
    /\ stage = "evaluate" /\ queue # <<>>
    /\ LET p == Head(queue) IN
        /\ ~Ready(p) /\ SeemsWithheld(StopsAt(p))
        /\ failed' = failed \cup {p}
        /\ Release(p)
    /\ UNCHANGED <<program, stage, file, constant, pending, report, slot>>

RejectLet ==
    /\ stage = "evaluate" /\ queue # <<>>
    /\ ~Ready(Head(queue)) /\ ~Withheld(StopsAt(Head(queue)))
    /\ Reject(Head(queue))
    /\ UNCHANGED <<program, file, degree, queue, constant, failed, pending, slot>>

(* The queue is empty: "circular static let dependency" if a let remains,  *)
(* else tc_analyze_impl goes to the next module, and after the last to the *)
(* static vars.                                                            *)
EndModule ==
    /\ stage = "evaluate" /\ queue = <<>>
    /\ IF LetsOf(file) \subseteq DOMAIN constant \cup failed
       THEN IF file < Len(program)
            THEN /\ file' = file + 1
                 /\ stage' = "graph"
                 /\ UNCHANGED <<queue, report>>
            ELSE /\ stage' = "check"
                 /\ queue' = InSourceOrder(StaticVars)
                 /\ UNCHANGED <<file, report>>
       ELSE Reject(<<file, 1>>) /\ UNCHANGED <<file, queue>>
    /\ UNCHANGED <<program, degree, constant, failed, pending, slot>>

(* Mutant: a member may be the var itself. *)
OperandAllowedUpTo(p, o) ==
    o.source # "literal" => o.source \in {"member", "field"} /\ o.of[2] <= p[2]

(* tc_static_var_operand_valid, tc_static_var_rhs_valid: literals and what *)
(* is declared before in the same module.                                  *)
OperandAllowed(p, o) ==
    o.source # "literal" => o.source \in {"member", "field"} /\ o.of[2] < p[2]

CheckVar ==
    /\ stage = "check" /\ queue # <<>>
    /\ \A o \in Operands(Head(queue)) : OperandAllowed(Head(queue), o)
    /\ queue' = Tail(queue)
    /\ UNCHANGED <<program, stage, file, degree, constant, failed, pending, report, slot>>

RejectVar ==
    /\ stage = "check" /\ queue # <<>>
    /\ \E o \in Operands(Head(queue)) : ~OperandAllowed(Head(queue), o)
    /\ Reject(Head(queue))
    /\ UNCHANGED <<program, file, degree, queue, constant, failed, pending, slot>>

(* tc_diagnostic_flush_deferred at the end of the analysis. *)
Flush ==
    /\ stage = "check" /\ queue = <<>>
    /\ \E p \in pending : report' = Diagnostic("CT", p)
    /\ stage' = "rejected"
    /\ pending' = {}
    /\ UNCHANGED <<program, file, degree, queue, constant, failed, slot>>

Accept ==
    /\ stage = "check" /\ queue = <<>> /\ pending = {}
    /\ stage' = "prepare"
    /\ queue' = InSourceOrder(StaticVars)
    /\ UNCHANGED <<program, file, degree, constant, failed, pending, report, slot>>

-----------------------------------------------------------------------------
(* Run time: tc_exec_init_all_static_vars, module by module                *)

(* A var of a static initialiser is read from its slot, whatever is there. *)
Loaded(o) ==
    CASE o.source = "literal" -> o.value
      [] o.source # "literal" /\ HasValue(o.of) -> constant[o.of]
      [] o.source # "literal" /\ o.of \in DOMAIN slot -> slot[o.of]
      [] OTHER -> 0

InitialValue(p) == Loaded(Decl(p).lhs) + Loaded(Decl(p).rhs)

(* The initialiser of a static var is not type-checked, which is what sets *)
(* the source type of a cast: tc_eval_rhs reads through a null pointer.    *)
Crashes(p) == Decl(p).form = "cast"

InitStaticVar ==
    /\ stage = "prepare" /\ queue # <<>>
    /\ LET p == Head(queue) IN
        /\ ~Crashes(p) /\ InitialValue(p) <= Limit
        /\ slot' = Put(slot, p, InitialValue(p))
        /\ queue' = Tail(queue)
    /\ UNCHANGED <<program, stage, file, degree, constant, failed, pending, report>>

FailStaticVar ==
    /\ stage = "prepare" /\ queue # <<>>
    /\ ~Crashes(Head(queue)) /\ InitialValue(Head(queue)) > Limit
    /\ stage' = "failed"
    /\ report' = Diagnostic("RT", Head(queue))
    /\ UNCHANGED <<program, file, degree, queue, constant, failed, pending, slot>>

CrashStaticVar ==
    /\ stage = "prepare" /\ queue # <<>>
    /\ Crashes(Head(queue))
    /\ stage' = "crashed"
    /\ UNCHANGED <<program, file, degree, queue, constant, failed, pending, report, slot>>

Start ==
    /\ stage = "prepare" /\ queue = <<>>
    /\ stage' = "running"
    /\ UNCHANGED <<program, file, degree, queue, constant, failed, pending, report, slot>>

Next ==
    \/ BuildGraph \/ RejectLookAhead
    \/ EvaluateLet \/ DeferLet \/ WithholdLet \/ RejectLet \/ EndModule
    \/ CheckVar \/ RejectVar \/ Flush \/ Accept
    \/ InitStaticVar \/ FailStaticVar \/ CrashStaticVar \/ Start

Spec == Init /\ [][Next]_vars

-----------------------------------------------------------------------------
(* Properties                                                              *)

Accepted == stage \in {"prepare", "failed", "crashed", "running"}

(* What an operand means: the one value of the member it names. *)
Holds(o) == o.source = "literal" \/ o.of \in DOMAIN constant \cup DOMAIN slot
Meaning(o) ==
    CASE o.source = "literal" -> o.value
      [] o.source # "literal" /\ o.of \in DOMAIN constant -> constant[o.of]
      [] OTHER -> slot[o.of]
Means(p, value) ==
    /\ Holds(Decl(p).lhs) /\ Holds(Decl(p).rhs)
    /\ value = Meaning(Decl(p).lhs) + Meaning(Decl(p).rhs)

(* Known exception: a module that is visited after the one that imports it *)
(* has no values yet.                                                      *)
ImportsLate(p) ==
    \E o \in Operands(p) : o.source \in {"import", "import_field"} /\ o.of[1] > p[1]

(* In an accepted program every static let has a value, and each static    *)
(* let and each prepared static var is what its initialiser says of the    *)
(* final values of the members it names: whatever the order of the queue,  *)
(* no value was read before it was there.                                  *)
StaticsAreRight ==
    Accepted =>
        /\ Lets = DOMAIN constant
        /\ \A p \in Lets : ImportsLate(p) \/ Means(p, constant[p])
        /\ \A p \in DOMAIN slot : Means(p, slot[p])

(* The rule of the language: literals, what is declared before in the      *)
(* module (no static var for a static let), and imported static members.   *)
LegalOperand(p, o) ==
    \/ o.source = "literal"
    \/ /\ o.source \in {"member", "field"}
       /\ Before(o.of, p)
       /\ Decl(p).kind = "let" => o.of \in Lets
    \/ /\ o.source \in {"import", "import_field"}
       /\ Decl(p).kind = "let" => o.of \in Lets
Legal(p) == \A o \in Operands(p) : LegalOperand(p, o)

(* Known exceptions: an operand Self.m is no edge of the graph, so m may   *)
(* still be in the queue, or be out of it already, though it is declared   *)
(* later, when the let itself waits for another; a static var may not name *)
(* imported members, nor a static let fields of a late import.             *)
Unseen(p, o) ==
    /\ Decl(p).kind = "let" /\ Dependencies(p) # {}
    /\ o.source = "member" /\ Decl(p).form # "value" /\ o.of \in Lets
Overtakes(p) ==
    ImportsLate(p) \/ \E o \in Operands(p) :
        \/ o.source = "member" /\ Decl(p).form # "value" /\ o.of \in Lets /\ Dependencies(o.of) # {}
        \/ o.source \in {"import", "import_field"} /\ Decl(p).kind = "var"

(* The verdict is the rule's, both ways, but for the exceptions. The graph *)
(* of the lets, the check of the vars and the evaluation together find     *)
(* every other forward reference, every self-reference and every static    *)
(* let that reads a static var. A program is only rejected for a rule it   *)
(* breaks: a derived failure is never a semantic error, and no legal order *)
(* of declarations is refused.                                             *)
LegalityVerdict ==
    /\ Accepted => \A p \in Places : \A o \in Operands(p) :
            LegalOperand(p, o) \/ (Unseen(p, o) /\ o.of # p)
    /\ report # None /\ report.phase = "SEM" =>
            ~Legal(report.place) \/ Overtakes(report.place)

(* The failure of a constant that is reported is the first in source order *)
(* of those that are legal and not derived from another, though the queue  *)
(* meets them in another order.                                            *)
FailsAlone(p) == p \in failed /\ Ready(p)
EarliestFailure ==
    report # None /\ report.phase = "CT" =>
        /\ FailsAlone(report.place)
        /\ \A p \in Lets : FailsAlone(p) /\ Legal(p) /\ ~Overtakes(p) => report.place[2] <= p[2]

(* What the language asks without the exceptions. The code does not keep   *)
(* it: each of the following is violated on the programs of the run        *)
(* statics (README, section 6, 3, 29 and 30).                              *)

(* A static let may use what it imports.                                   *)
ImportsAreMeant == Accepted => \A p \in Lets : Means(p, constant[p])

(* A static let names static lets that are declared before it.             *)
NamesEarlierMembers ==
    Accepted => \A p \in Lets : \A o \in Operands(p) :
        o.source \in {"member", "field"} => Before(o.of, p)

(* Only what is derived from a failed constant is withheld.                *)
WithheldIsDerived == \A p \in failed : Ready(p) \/ StopsAt(p).of \in failed
=============================================================================
