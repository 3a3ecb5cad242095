---------------------------- MODULE AcceptedRun ----------------------------
(***************************************************************************)
(* From the CFG stage to execution: a function body is analysed            *)
(* (tc_analyze_definite_init_all) and, when no diagnostic stops it, run by *)
(* the executor. The composition is what the two sides promise each other: *)
(* the executor has no check of its own for unset slots or bad jumps.      *)
(***************************************************************************)
EXTENDS Executor

CONSTANT Programs       \* function bodies that passed stages 1 to 10

ASSUME ProgramsAssumption == \A p \in Programs : WellFormed(p)

VARIABLES
    g, in, out, todo, changed, verdict, culprit,    \* as in DefiniteInit
    stage       \* "analysis", "run", or the error that ended the compilation

ProgramGraphs == {Graph(p) : p \in Programs}
Analysis == INSTANCE FlowWalk WITH Graphs <- ProgramGraphs

analysis == <<g, in, out, todo, changed, verdict, culprit>>
vars == <<prog, execution, analysis, stage>>

Init ==
    /\ prog \in Programs
    /\ g = Graph(prog)
    /\ Analysis!AnalysisInit
    /\ ExecInit
    /\ stage = "analysis"

AnalyseInit ==
    /\ stage = "analysis"
    /\ Analysis!Analyse
    /\ UNCHANGED <<prog, execution, stage>>

(* The order of the checks in tc_analyze_definite_init_all.                *)
Diagnose ==
    /\ stage = "analysis" /\ verdict # "none"
    /\ stage' = IF verdict # "accept" THEN verdict
                ELSE IF UnreachableStmts(prog) # {} THEN "unreachable"
                ELSE IF MissingReturn(prog) THEN "missing return"
                ELSE "run"
    /\ UNCHANGED <<prog, execution, analysis>>

Execute ==
    /\ stage = "run"
    /\ Step
    /\ UNCHANGED <<analysis, stage>>

Finished ==
    /\ stage \notin {"analysis", "run"} \/ Halted
    /\ UNCHANGED vars

Next == AnalyseInit \/ Diagnose \/ Execute \/ Finished

Spec == Init /\ [][Next]_vars

-----------------------------------------------------------------------------

TypeOK ==
    /\ ExecTypeOK
    /\ g = Graph(prog) /\ Analysis!AnalysisTypeOK
    /\ stage \in {"analysis", "run", "uninitialized", "unreachable", "missing return"}

(* Executing an accepted body is a walk along the enabled edges of its CFG *)
(* with every read covered: the tree walk with its unwinding, restarts and *)
(* cursor jumps does what the graph the analyzer judged says it does.      *)
FollowsTheGraph == Analysis!WalkSpec

(* The standard clears a variable's initialised state on leaving its scope *)
(* (language standard, section 9.2); the CFG keeps one bit per slot for the*)
(* whole body. The two reach the same verdict: a path that comes back into *)
(* the scope and skips the definition implies one that enters it fresh.    *)
(* Unset lasts until a statement initialises d, read() among them as in    *)
(* the analysis (the standard would have read() find its target set).      *)
UnsetInScope(d) ==
    Closure({Entry} \cup {v \in Reachable(prog) : ~InBlock(StmtAt(v), BlockOf(prog, d))},
            {e \in EnabledEdges(prog) :
                \A i \in Stmts(prog) : d \in Writes(prog, i) => e[1] # At(i)},
            Cardinality(Nodes(prog)))

LifetimesAgree ==
    (stage \notin {"analysis", "uninitialized"}) =>
        \A d \in OfKind(prog, {"def"}) : \A i \in Stmts(prog) :
            d \in Reads(prog, i) /\ At(i) \in Reachable(prog) => At(i) \notin UnsetInScope(d)
=============================================================================
