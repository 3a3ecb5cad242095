---------------------------- MODULE ModuleLoader ----------------------------
(***************************************************************************)
(* Import resolution (src/vm/analyzer/tc_module.c): the depth-first        *)
(* collection of the imported #lib modules into out->deps, the three-colour*)
(* cycle check over them, and the order in which their structs are         *)
(* registered. The C recursion is an explicit stack.                       *)
(*                                                                         *)
(* A world w is what the loader finds on disk: imports[m], the import      *)
(* statements of module m in order; libs, the names that lead to a #lib    *)
(* file; declares[m], the top-level names of m.                            *)
(***************************************************************************)
EXTENDS Integers, Sequences, SequencesExt, FiniteSets

CONSTANTS
    Entry,      \* the module name of the entry program
    Worlds,
    FirstCap    \* dep_capacity after the first push (4 in tc_typed_push_dep)

(* Every name an import statement may use has a list of imports, the empty *)
(* one if nothing is found under that name.                                *)
IsWorld(x) ==
    /\ Entry \in DOMAIN x.imports
    /\ x.imports \in [DOMAIN x.imports -> Seq(DOMAIN x.imports)]
    /\ x.libs \subseteq DOMAIN x.imports

ASSUME LoaderAssumption == FirstCap \in Nat \ {0} /\ \A x \in Worlds : IsWorld(x)

VARIABLES
    w,
    deps,       \* out->deps: the names of the loaded modules
    cap,        \* dep_capacity
    block,      \* which allocation out->deps points to
    calls,      \* tc_collect_imports_recursive: [ptr, i], innermost last
    colour,     \* the colour of each dependency
    dfs,        \* tc_dag_dfs: [idx, i], innermost last
    order,      \* out_order of tc_module_topological_dep_order
    stage       \* "collect", "dag", "order", "ok" or the diagnostic

vars == <<w, deps, cap, block, calls, colour, dfs, order, stage>>

White == 0
Grey  == 1
Black == 2

(* current: the entry program, or element k of the deps array of a block.  *)
EntryPtr == [block |-> 0, k |-> 0]
ModuleOf(ptr) == IF ptr = EntryPtr THEN Entry ELSE deps[ptr.k]

Init ==
    /\ w \in Worlds
    /\ deps = <<>> /\ cap = 0 /\ block = 0
    /\ calls = <<[ptr |-> EntryPtr, i |-> 1]>>
    /\ colour = <<>> /\ dfs = <<>> /\ order = <<>>
    /\ stage = "collect"

Halt(why) ==
    /\ stage' = why
    /\ UNCHANGED <<w, deps, cap, block, calls, colour, dfs, order>>

Current == Last(calls).ptr
Stale   == Current # EntryPtr /\ Current.block # block
Imports == w.imports[ModuleOf(Current)]
Cursor  == Last(calls).i
Advanced == [calls EXCEPT ![Len(calls)].i = Cursor + 1]

(* The guards before a module is loaded, in the order they are tried.      *)
Duplicate == \E j \in 1 .. Cursor - 1 : Imports[j] = Imports[Cursor]
Conflict  == Imports[Cursor] \in w.declares[ModuleOf(Current)]
SelfImport == Imports[Cursor] = ModuleOf(Current)
Loaded(m) == m \in ToSet(deps)

(* tc_typed_push_dep: a full array is reallocated, in place or elsewhere.  *)
PushDep(m) ==
    /\ deps' = Append(deps, m)
    /\ IF Len(deps) = cap
       THEN /\ cap' = IF cap = 0 THEN FirstCap ELSE 2 * cap
            /\ block' \in {block, block + 1}
       ELSE UNCHANGED <<cap, block>>

(* Mutant: the imports of a loaded module are not collected.              *)
LoadFlat(m) == PushDep(m) /\ calls' = Advanced

(* The new module's imports are collected before the importer's next one.  *)
Load(m) ==
    /\ PushDep(m)
    /\ calls' = Append(Advanced, [ptr |-> [block |-> block', k |-> Len(deps')], i |-> 1])

(* One import statement of the module current points to.                   *)
Import ==
    /\ stage = "collect" /\ calls # <<>> /\ Cursor <= Len(Imports)
    /\ IF Duplicate THEN Halt("duplicate import")
       ELSE IF Conflict THEN Halt("name conflict")
       ELSE IF SelfImport THEN Halt("circular import")
       ELSE IF Loaded(Imports[Cursor])
       THEN calls' = Advanced /\ UNCHANGED <<w, deps, cap, block, colour, dfs, order, stage>>
       ELSE IF Imports[Cursor] \notin w.libs THEN Halt("not a library")
       ELSE /\ Load(Imports[Cursor])
            /\ UNCHANGED <<w, colour, dfs, order, stage>>

(* current points into a freed array: reading through it may still find the*)
(* old bytes (the Import step above), or not.                              *)
ReadFreed ==
    /\ stage = "collect" /\ calls # <<>> /\ Stale
    /\ Halt("crashed")

EndModule ==
    /\ stage = "collect" /\ calls # <<>> /\ Cursor > Len(Imports)
    /\ calls' = Front(calls)
    /\ stage' = IF Len(calls) > 1 THEN "collect" ELSE "dag"
    /\ colour' = [k \in 1 .. Len(deps) |-> White]
    /\ UNCHANGED <<w, deps, cap, block, dfs, order>>

(* tc_build_and_check_dag: the edges of node k are its imports.            *)
Node(k) == [idx |-> k, i |-> 1]
IndexOf(m) == CHOOSE k \in 1 .. Len(deps) : deps[k] = m
Top == Last(dfs)
TopEdges == w.imports[deps[Top.idx]]
(* Mutant: a module met a second time counts as a cycle.                  *)
Met(k) == colour[k] # White

OnPath(k) == colour[k] = Grey

DagRoot ==
    /\ stage = "dag" /\ dfs = <<>>
    /\ IF \E k \in 1 .. Len(deps) : colour[k] = White
       THEN \E k \in 1 .. Len(deps) :
              /\ colour[k] = White /\ \A j \in 1 .. k - 1 : colour[j] # White
              /\ dfs' = <<Node(k)>>
              /\ colour' = [colour EXCEPT ![k] = Grey]
              /\ UNCHANGED stage
       ELSE stage' = "order" /\ UNCHANGED <<dfs, colour>>
    /\ UNCHANGED <<w, deps, cap, block, calls, order>>

DagEdge ==
    /\ stage = "dag" /\ dfs # <<>> /\ Top.i <= Len(TopEdges)
    /\ LET dep == IndexOf(TopEdges[Top.i])
           passed == [dfs EXCEPT ![Len(dfs)].i = Top.i + 1]
       IN  IF OnPath(dep) THEN Halt("circular import")
           ELSE /\ IF colour[dep] = White
                   THEN dfs' = Append(passed, Node(dep)) /\ colour' = [colour EXCEPT ![dep] = Grey]
                   ELSE dfs' = passed /\ UNCHANGED colour
                /\ UNCHANGED <<w, deps, cap, block, calls, order, stage>>

(* Mutant: a module left is white again.                                  *)
DagLeaveWhite ==
    /\ stage = "dag" /\ dfs # <<>> /\ Top.i > Len(TopEdges)
    /\ dfs' = Front(dfs)
    /\ colour' = [colour EXCEPT ![Top.idx] = White]
    /\ UNCHANGED <<w, deps, cap, block, calls, order, stage>>

DagLeave ==
    /\ stage = "dag" /\ dfs # <<>> /\ Top.i > Len(TopEdges)
    /\ dfs' = Front(dfs)
    /\ colour' = [colour EXCEPT ![Top.idx] = Black]
    /\ UNCHANGED <<w, deps, cap, block, calls, order, stage>>

(* One scan of tc_module_topological_dep_order places the first module     *)
(* whose imports are all placed.                                           *)
Placed == ToSet(order)
(* Mutant: a module is ready whatever it imports.                         *)
ReadyNow(k) == k \notin Placed

Ready(k) ==
    /\ k \notin Placed
    /\ \A i \in 1 .. Len(w.imports[deps[k]]) : IndexOf(w.imports[deps[k]][i]) \in Placed

Place ==
    /\ stage = "order"
    /\ IF Len(order) = Len(deps) THEN Halt("ok")
       ELSE IF \A k \in 1 .. Len(deps) : ~Ready(k) THEN Halt("circular import")
       ELSE /\ \E k \in 1 .. Len(deps) :
                  /\ Ready(k) /\ \A j \in 1 .. k - 1 : ~Ready(j)
                  /\ order' = Append(order, k)
            /\ UNCHANGED <<w, deps, cap, block, calls, colour, dfs, stage>>

Ended == stage \notin {"collect", "dag", "order"}

Step == Import \/ ReadFreed \/ EndModule \/ DagRoot \/ DagEdge \/ DagLeave \/ Place
Next == Step \/ (Ended /\ UNCHANGED vars)

(* The loader is one C call: it runs until it returns.                     *)
Spec == Init /\ [][Next]_vars /\ WF_vars(Step)

-----------------------------------------------------------------------------

(* The modules import statements lead to from a set of modules: the least  *)
(* set that has them and the imports of every library in it.               *)
ImportsOf(S) == UNION {ToSet(w.imports[m]) : m \in S}
Carries(S, T) == S \subseteq T /\ ImportsOf(T \cap w.libs) \subseteq T
ReachedFrom(S) ==
    {m \in DOMAIN w.imports : \A T \in SUBSET DOMAIN w.imports : Carries(S, T) => m \in T}
Needed == ReachedFrom(ToSet(w.imports[Entry]))
OnCycle(m) == m \in ReachedFrom(ToSet(w.imports[m]))

(* Every module is loaded once, however many import it and whatever is on  *)
(* the C stack when it is met again (tc_find_dep_index before a load); and *)
(* when the collection ends without a diagnostic, exactly the modules the  *)
(* entry needs are in deps: the later stages treat a missing one as no     *)
(* edge at all (dep_idx < 0: continue).                                    *)
CollectsTheNeeded ==
    /\ \A j, k \in 1 .. Len(deps) : deps[j] = deps[k] => j = k
    /\ stage \in {"dag", "order", "ok"} => ToSet(deps) = Needed

(* An import cycle is reported if and only if there is one, also one that  *)
(* leads back to the entry, which is no node of the graph; after the DAG   *)
(* check the ordering loop never runs out of modules it may place.         *)
CycleVerdict ==
    /\ stage = "circular import" => \E m \in Needed \cup {Entry} : OnCycle(m)
    /\ stage \in {"order", "ok"} => \A m \in Needed \cup {Entry} : ~OnCycle(m)

(* Structs are registered importees first, each module once ("importee     *)
(* before importer", tc_analyzer.c): a module finds the structs it names.  *)
ImporteesFirst ==
    stage = "ok" =>
        /\ {order[k] : k \in 1 .. Len(order)} = 1 .. Len(deps)
        /\ \A k \in 1 .. Len(order) : \A m \in ToSet(w.imports[deps[order[k]]]) :
              \E j \in 1 .. k - 1 : deps[order[j]] = m

(* Import resolution ends, cycles and shared modules included.             *)
Resolves == <>Ended
=============================================================================
