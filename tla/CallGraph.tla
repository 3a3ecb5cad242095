------------------------------ MODULE CallGraph ------------------------------
(***************************************************************************)
(* The recursion check (src/vm/analyzer/tc_callgraph.c): the call edges the*)
(* entry module's functions contribute, Tarjan's strongly connected        *)
(* components over them with the C recursion as an explicit stack, and the *)
(* choice of the call a recursion is reported at.                          *)
(*                                                                         *)
(* A program p has functions 1..p.n in signature order, the libraries'     *)
(* before the entry's; p.entry, those of the entry module; p.calls[f], the *)
(* functions the body of f calls, in source order.                         *)
(***************************************************************************)
EXTENDS Integers, Sequences, SequencesExt, FiniteSets

CONSTANT CallPrograms

(* The entry module is no library, so no library calls its functions.      *)
IsCallProgram(q) ==
    /\ q.n \in Nat /\ q.entry \subseteq 1 .. q.n
    /\ q.calls \in [1 .. q.n -> Seq(1 .. q.n)]
    /\ \A f \in (1 .. q.n) \ q.entry : ToSet(q.calls[f]) \cap q.entry = {}

ASSUME CallProgramsAssumption == \A q \in CallPrograms : IsCallProgram(q)

VARIABLES
    p,
    index, low, scc,    \* per function; 0 before it has one
    stack,              \* the Tarjan stack
    visits,             \* tc_callgraph_tarjan_strongconnect: [v, i], innermost last
    verdict,            \* "none", "accept" or "recursion"
    site                \* the call reported, <<caller, position>>

checking == <<index, low, scc, stack, visits, verdict, site>>

Functions == 1 .. p.n

(* tc_callgraph_collect_edges and _build_adjacency                         *)
Adj(f) == IF f \in p.entry THEN p.calls[f] ELSE <<>>
Sites  == UNION {{<<f, k>> : k \in 1 .. Len(Adj(f))} : f \in Functions}
Callee(s) == p.calls[s[1]][s[2]]

(* Source order of the call statements of one module.                      *)
Before(s, t) == s[1] < t[1] \/ (s[1] = t[1] /\ s[2] < t[2])

CheckInit ==
    /\ index = [f \in Functions |-> 0]
    /\ low = index /\ scc = index
    /\ stack = <<>> /\ visits = <<>>
    /\ verdict = "none" /\ site = <<>>

NextIndex == Cardinality({f \in Functions : index[f] # 0}) + 1

Enter(v, outer) ==
    /\ index' = [index EXCEPT ![v] = NextIndex]
    /\ low'   = [low EXCEPT ![v] = NextIndex]
    /\ stack' = Append(stack, v)
    /\ visits' = Append(outer, [v |-> v, i |-> 1])
    /\ UNCHANGED <<p, scc, verdict, site>>

Root ==
    /\ verdict = "none" /\ visits = <<>>
    /\ \E v \in Functions :
          index[v] = 0 /\ (\A u \in 1 .. v - 1 : index[u] # 0) /\ Enter(v, <<>>)

Visit == Last(visits)
Lowered(v, x) == [low EXCEPT ![v] = IF x < @ THEN x ELSE @]
Passed == [visits EXCEPT ![Len(visits)].i = @ + 1]

(* One neighbour of the vertex on top.                                     *)
Neighbour ==
    /\ visits # <<>> /\ Visit.i <= Len(Adj(Visit.v))
    /\ LET w == Adj(Visit.v)[Visit.i]
       IN  IF index[w] = 0 THEN Enter(w, Passed)
           ELSE /\ low' = IF w \in ToSet(stack) THEN Lowered(Visit.v, index[w]) ELSE low
                /\ visits' = Passed
                /\ UNCHANGED <<p, index, scc, stack, verdict, site>>

(* The vertex on top is done: a root of a component pops it; the caller    *)
(* takes over its lowlink.                                                 *)
Leave ==
    /\ visits # <<>> /\ Visit.i > Len(Adj(Visit.v))
    /\ LET v == Visit.v
           pos == CHOOSE k \in 1 .. Len(stack) : stack[k] = v
           component == {stack[k] : k \in pos .. Len(stack)}
       IN  IF low[v] = index[v]
           THEN /\ stack' = SubSeq(stack, 1, pos - 1)
                /\ scc' = [f \in Functions |-> IF f \in component THEN v ELSE scc[f]]
           ELSE UNCHANGED <<stack, scc>>
    /\ visits' = Front(visits)
    /\ low' = IF Len(visits) = 1 THEN low
              ELSE Lowered(visits[Len(visits) - 1].v, low[Visit.v])
    /\ UNCHANGED <<p, index, verdict, site>>

(* tc_callgraph_pick_recursive_scc: of the recursive components the one    *)
(* with the function defined first; tc_callgraph_pick_report_edge: of the  *)
(* calls inside it the one that comes first.                               *)
Component(f) == {h \in Functions : scc[h] = scc[f]}
(* Mutant: a function that calls itself is no component.                  *)
MutuallyRecursive(f) == Component(f) # {f}

Recursive(f) == Component(f) # {f} \/ f \in ToSet(Adj(f))
InsideOf(f) == {s \in Sites : s[1] \in Component(f) /\ Callee(s) \in Component(f)}

Decide ==
    /\ verdict = "none" /\ visits = <<>> /\ \A f \in Functions : index[f] # 0
    /\ IF \E f \in Functions : Recursive(f)
       THEN /\ verdict' = "recursion"
            /\ \E f \in Functions :
                 /\ Recursive(f) /\ \A h \in 1 .. f - 1 : ~Recursive(h)
                 /\ site' \in {s \in InsideOf(f) : \A t \in InsideOf(f) : ~Before(t, s)}
       ELSE verdict' = "accept" /\ UNCHANGED site
    /\ UNCHANGED <<p, index, low, scc, stack, visits>>

CheckStep == Root \/ Neighbour \/ Leave \/ Decide

-----------------------------------------------------------------------------

(* The functions a call of f may lead to, calls from libraries included:   *)
(* the least set with those f calls and those the members call.            *)
LeadsIn(q, f) ==
    {h \in 1 .. q.n : \A T \in SUBSET (1 .. q.n) :
        (ToSet(q.calls[f]) \subseteq T /\ \A g \in T : ToSet(q.calls[g]) \subseteq T) => h \in T}
Leads(f) == LeadsIn(p, f)

(* A recursion of the entry module is found, nothing else is called one,   *)
(* and the call reported really lies on a cycle of the component whose     *)
(* first function is the first of the module that can reach itself.        *)
RecursionVerdict ==
    LET looping == {f \in p.entry : f \in Leads(f)}
    IN  /\ verdict = "accept" => looping = {}
        /\ verdict = "recursion" =>
              /\ site[1] \in Leads(Callee(site))
              /\ \E f \in looping : (\A h \in looping : f <= h) /\ (site[1] = f \/ site[1] \in Leads(f))
=============================================================================
