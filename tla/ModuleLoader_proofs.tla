------------------------- MODULE ModuleLoader_proofs -------------------------
(***************************************************************************)
(* Theorems about import resolution, for every world: what the collection  *)
(* loads, when a cycle is reported, and the order of the modules.          *)
(***************************************************************************)
EXTENDS ModuleLoader, FiniteSetTheorems, TLAPS

Known == DOMAIN w.imports
Deps  == 1 .. Len(deps)

(* The module of a pointer: the entry, or the k-th dependency.             *)
Mod(d, k) == IF k = 0 THEN Entry ELSE d[k]
ImportSet(m) == ToSet(w.imports[m])
Edge(x, d, k, i) == CHOOSE j \in 1 .. Len(d) : d[j] = x.imports[d[k]][i]

(* ReachedFrom and OnCycle as functions of the world.                      *)
Reach(x, S) ==
    {m \in DOMAIN x.imports :
        \A T \in SUBSET DOMAIN x.imports :
            S \subseteq T /\ (\A n \in T \cap x.libs : ToSet(x.imports[n]) \subseteq T) => m \in T}
Cyclic(x, m) == m \in Reach(x, ToSet(x.imports[m]))

Stages == {"collect", "dag", "order", "ok", "duplicate import", "name conflict",
           "circular import", "not a library", "crashed"}

Frame == [ptr : [block : Nat, k : Nat], i : Nat \ {0}]

(* The C recursion of the collection points into what has been loaded.     *)
LoaderTypeOK ==
    /\ w \in Worlds
    /\ deps \in Seq(Known)
    /\ cap \in Nat /\ block \in Nat
    /\ calls \in Seq(Frame)
    /\ \A j \in 1 .. Len(calls) :
          calls[j].ptr.k \in 0 .. Len(deps) /\ (calls[j].ptr.k = 0 <=> calls[j].ptr = EntryPtr)
    /\ dfs \in Seq([idx : Deps, i : Nat \ {0}])
    /\ order \in Seq(Deps)
    /\ stage \in Stages
    /\ stage \in {"dag", "order", "ok"} => calls = <<>> /\ colour \in [Deps -> {White, Grey, Black}]
    /\ stage = "collect" => dfs = <<>> /\ order = <<>>
    /\ stage = "dag" => order = <<>>

(* A module is loaded once, is a library, and is needed; the imports the   *)
(* cursors have passed are loaded, and a module that is not on the C stack *)
(* any more has none left.                                                 *)
CollectInv ==
    /\ \A j, k \in Deps : deps[j] = deps[k] => j = k
    /\ \A k \in Deps : deps[k] \in w.libs /\ deps[k] \in Needed
    /\ \A j \in 1 .. Len(calls) : \A i \in 1 .. calls[j].i - 1 :
          w.imports[Mod(deps, calls[j].ptr.k)][i] \in ToSet(deps)
    /\ \A k \in 0 .. Len(deps) :
          \/ \E j \in 1 .. Len(calls) : calls[j].ptr.k = k
          \/ ImportSet(Mod(deps, k)) \subseteq ToSet(deps)

(* The grey modules are those on the stack of the depth-first search, each *)
(* reached from those below it; the edges passed lead to black modules.    *)
SearchInv == stage = "dag" =>
    /\ \A k \in Deps : colour[k] = Grey <=> \E j \in 1 .. Len(dfs) : dfs[j].idx = k
    /\ \A j, k \in 1 .. Len(dfs) : dfs[j].idx = dfs[k].idx => j = k
    /\ \A j \in 1 .. Len(dfs) : \A i \in 1 .. dfs[j].i - 1 :
          i <= Len(w.imports[deps[dfs[j].idx]]) =>
              \/ colour[Edge(w, deps, dfs[j].idx, i)] = Black
              \/ j < Len(dfs) /\ Edge(w, deps, dfs[j].idx, i) = dfs[j + 1].idx
    /\ \A j, k \in 1 .. Len(dfs) : j < k =>
          deps[dfs[k].idx] \in Reach(w, ToSet(w.imports[deps[dfs[j].idx]]))

(* No black module imports one that is not black, lies on a cycle, or is   *)
(* part of a set of black modules that all import one another.             *)
Blacks == {k \in Deps : colour[k] = Black}
Uses(x, d, k, U) == \E i \in 1 .. Len(x.imports[d[k]]) : Edge(x, d, k, i) \in U
BlackInv == stage \in {"dag", "order", "ok"} =>
    /\ \A k \in Blacks : \A i \in 1 .. Len(w.imports[deps[k]]) : Edge(w, deps, k, i) \in Blacks
    /\ \A k \in Blacks : ~Cyclic(w, deps[k])
    /\ \A U \in SUBSET Blacks : U # {} => \E k \in U : ~Uses(w, deps, k, U)
    /\ stage # "dag" => Blacks = Deps

(* A module is placed once and after the modules it imports.               *)
OrderInv == stage \in {"order", "ok"} =>
    /\ \A j, k \in 1 .. Len(order) : order[j] = order[k] => j = k
    /\ \A k \in 1 .. Len(order) : \A m \in ImportSet(deps[order[k]]) :
          \E j \in 1 .. k - 1 : deps[order[j]] = m
    /\ stage = "ok" => Len(order) = Len(deps)

(* A cycle is reported only if a needed module or the entry is on one.     *)
CycleInv == stage = "circular import" =>
    \E m \in Reach(w, ToSet(w.imports[Entry])) \cup {Entry} : Cyclic(w, m)

LoaderInv == LoaderTypeOK /\ CollectInv /\ SearchInv /\ BlackInv /\ OrderInv /\ CycleInv

-----------------------------------------------------------------------------

(* A stack without its top.                                                *)
LEMMA FrontFacts ==
    ASSUME NEW S, NEW s \in Seq(S), s # <<>>
    PROVE  /\ Len(s) \in Nat \ {0}
           /\ Front(s) \in Seq(S) /\ Len(Front(s)) = Len(s) - 1
           /\ \A j \in 1 .. Len(s) - 1 : Front(s)[j] = s[j]
  <1>1. Len(s) \in Nat \ {0} /\ DOMAIN s = 1 .. Len(s)
    OBVIOUS
  <1>2. \A j \in 1 .. Len(s) - 1 : s[j] \in S
    BY <1>1
  <1>3. Len(SubSeq(s, 1, Len(s) - 1)) = Len(s) - 1
    BY <1>1
  <1>4. \A j \in 1 .. Len(s) - 1 : SubSeq(s, 1, Len(s) - 1)[j] = s[j]
    BY <1>1
  <1>5. SubSeq(s, 1, Len(s) - 1) \in Seq(S)
    BY <1>1, <1>2
  <1> QED
    BY <1>1, <1>3, <1>4, <1>5 DEF Front

(* What the assumption says of the world being loaded.                     *)
LEMMA WorldFacts ==
    ASSUME w \in Worlds
    PROVE  /\ Entry \in Known
           /\ \A m \in Known : w.imports[m] \in Seq(Known) /\ ImportSet(m) \subseteq Known
           /\ w.libs \subseteq Known
  BY LoaderAssumption DEF IsWorld, Known, ImportSet, ToSet

(* A set that has S and the imports of its libraries carries S.            *)
LEMMA CarriesWhen ==
    ASSUME NEW S, NEW T, S \subseteq T, \A m \in T \cap w.libs : ImportSet(m) \subseteq T
    PROVE  Carries(S, T)
  BY DEF Carries, ImportsOf, ImportSet

(* What is reached is in every set that carries S ...                      *)
LEMMA ReachedIsLeast ==
    ASSUME NEW S, NEW T \in SUBSET Known, Carries(S, T)
    PROVE  ReachedFrom(S) \subseteq T
  BY DEF ReachedFrom, Known

(* ... and is such a set itself.                                           *)
LEMMA ReachedCarries ==
    ASSUME w \in Worlds, NEW S \in SUBSET Known
    PROVE  /\ ReachedFrom(S) \subseteq Known
           /\ S \subseteq ReachedFrom(S)
           /\ \A m \in ReachedFrom(S) : m \in w.libs => ImportSet(m) \subseteq ReachedFrom(S)
  <1>1. ReachedFrom(S) \subseteq Known
    BY DEF ReachedFrom, Known
  <1>2. S \subseteq ReachedFrom(S)
    BY DEF ReachedFrom, Known, Carries
  <1>3. ASSUME NEW m \in ReachedFrom(S), m \in w.libs, NEW x \in ImportSet(m)
        PROVE  x \in ReachedFrom(S)
    <2>1. x \in Known
      BY <1>1, <1>3, WorldFacts
    <2>2. ASSUME NEW T \in SUBSET Known, Carries(S, T) PROVE x \in T
      <3>1. m \in T \cap w.libs
        BY <1>3, <2>2, ReachedIsLeast
      <3>2. ImportSet(m) \subseteq ImportsOf(T \cap w.libs)
        BY <3>1 DEF ImportsOf, ImportSet
      <3> QED
        BY <1>3, <2>2, <3>2 DEF Carries
    <2> QED
      BY <2>1, <2>2 DEF ReachedFrom, Known
  <1> QED
    BY <1>1, <1>2, <1>3

(* The members of deps, by index.                                          *)
LEMMA DepsSet == ToSet(deps) = {deps[k] : k \in DOMAIN deps}
  BY DEF ToSet

LEMMA DepsFacts ==
    ASSUME LoaderTypeOK
    PROVE  /\ DOMAIN deps = Deps /\ Len(deps) \in Nat
           /\ \A k \in Deps : deps[k] \in Known /\ deps[k] \in ToSet(deps)
           /\ \A m : m \in ToSet(deps) <=> \E k \in Deps : deps[k] = m
           /\ \A k \in 0 .. Len(deps) : Mod(deps, k) \in Known
  BY WorldFacts DEF LoaderTypeOK, ToSet, Deps, Mod

(* IndexOf (tc_find_dep_index) finds a loaded module.                      *)
LEMMA IndexFacts ==
    ASSUME LoaderTypeOK, NEW m \in ToSet(deps)
    PROVE  IndexOf(m) \in Deps /\ deps[IndexOf(m)] = m
  <1>1. \E k \in 1 .. Len(deps) : deps[k] = m
    BY DepsFacts DEF Deps
  <1> QED
    BY <1>1 DEF IndexOf, Deps

-----------------------------------------------------------------------------

(* The innermost collection.                                               *)
LEMMA CurrentFacts ==
    ASSUME LoaderTypeOK, calls # <<>>
    PROVE  /\ Len(calls) \in Nat \ {0} /\ calls[Len(calls)] \in Frame
           /\ Current = calls[Len(calls)].ptr /\ Cursor = calls[Len(calls)].i
           /\ Cursor \in Nat \ {0}
           /\ Current.k \in 0 .. Len(deps)
           /\ ModuleOf(Current) = Mod(deps, Current.k)
           /\ Mod(deps, Current.k) \in Known
           /\ Imports = w.imports[Mod(deps, Current.k)] /\ Imports \in Seq(Known)
  <1>1. Len(calls) \in Nat \ {0} /\ calls[Len(calls)] \in Frame
    BY DEF LoaderTypeOK
  <1>2. Current = calls[Len(calls)].ptr /\ Cursor = calls[Len(calls)].i
    BY DEF Current, Cursor, Last
  <1>3. Cursor \in Nat \ {0} /\ Current.k \in 0 .. Len(deps)
    BY <1>1, <1>2 DEF LoaderTypeOK, Frame
  <1>4. ModuleOf(Current) = Mod(deps, Current.k)
    BY <1>1, <1>2 DEF ModuleOf, Mod, LoaderTypeOK
  <1>5. Mod(deps, Current.k) \in Known
    BY <1>3, DepsFacts
  <1>6. Imports = w.imports[Mod(deps, Current.k)] /\ Imports \in Seq(Known)
    BY <1>4, <1>5, WorldFacts DEF Imports, LoaderTypeOK
  <1> QED
    BY <1>1, <1>2, <1>3, <1>4, <1>5, <1>6

LEMMA AdvancedFacts ==
    ASSUME LoaderTypeOK, calls # <<>>
    PROVE  /\ Advanced \in Seq(Frame) /\ Len(Advanced) = Len(calls)
           /\ \A j \in 1 .. Len(calls) : Advanced[j].ptr = calls[j].ptr
           /\ \A j \in 1 .. Len(calls) : j # Len(calls) => Advanced[j] = calls[j]
           /\ Advanced[Len(calls)].i = Cursor + 1
  <1>1. calls \in Seq(Frame) /\ Len(calls) \in Nat \ {0} /\ calls[Len(calls)] \in Frame /\ Cursor + 1 \in Nat \ {0}
    BY CurrentFacts DEF LoaderTypeOK
  <1> DEFINE top == [calls[Len(calls)] EXCEPT !.i = Cursor + 1]
  <1>2. top \in Frame /\ top.ptr = calls[Len(calls)].ptr /\ top.i = Cursor + 1
    BY <1>1 DEF Frame
  <1>3. Advanced = [calls EXCEPT ![Len(calls)] = top]
    BY DEF Advanced
  <1> HIDE DEF top
  <1> QED
    BY <1>1, <1>2, <1>3

-----------------------------------------------------------------------------

(* An import statement is refused, names a loaded module, or loads one.    *)
Refused == \E why \in Stages \ {"collect", "dag", "order", "ok"} :
    Halt(why) /\ (why = "circular import" => SelfImport)
Passes == /\ Imports[Cursor] \in ToSet(deps)
          /\ calls' = Advanced
          /\ UNCHANGED <<w, deps, cap, block, colour, dfs, order, stage>>
Loads == /\ Imports[Cursor] \notin ToSet(deps) /\ Imports[Cursor] \in w.libs
         /\ Load(Imports[Cursor])
         /\ UNCHANGED <<w, colour, dfs, order, stage>>

LEMMA ImportCases == Import => Refused \/ Passes \/ Loads
  <1> SUFFICES ASSUME Import PROVE Refused \/ Passes \/ Loads
    OBVIOUS
  <1>1. CASE Duplicate
    BY <1>1 DEF Import, Refused, Stages, Halt
  <1>2. CASE ~Duplicate /\ Conflict
    BY <1>2 DEF Import, Refused, Stages, Halt
  <1>3. CASE ~Duplicate /\ ~Conflict /\ SelfImport
    BY <1>3 DEF Import, Refused, Stages, Halt
  <1>4. CASE ~Duplicate /\ ~Conflict /\ ~SelfImport /\ Loaded(Imports[Cursor])
    BY <1>4 DEF Import, Passes, Loaded
  <1>5. CASE /\ ~Duplicate /\ ~Conflict /\ ~SelfImport /\ ~Loaded(Imports[Cursor])
             /\ Imports[Cursor] \notin w.libs
    BY <1>5 DEF Import, Refused, Stages, Halt
  <1>6. CASE /\ ~Duplicate /\ ~Conflict /\ ~SelfImport /\ ~Loaded(Imports[Cursor])
             /\ Imports[Cursor] \in w.libs
    BY <1>6 DEF Import, Loads, Loaded
  <1> QED
    BY <1>1, <1>2, <1>3, <1>4, <1>5, <1>6

(* A diagnostic ends the loader and changes nothing else.                  *)
LEMMA HaltTypes ==
    ASSUME LoaderTypeOK, NEW why \in Stages \ {"collect", "dag", "order", "ok"}, Halt(why)
    PROVE  LoaderTypeOK'
  BY DEF LoaderTypeOK, Halt, Known, Deps, EntryPtr, Stages

LEMMA InitLoaderTypes == Init => LoaderTypeOK
  <1> SUFFICES ASSUME Init PROVE LoaderTypeOK
    OBVIOUS
  <1>1. [ptr |-> EntryPtr, i |-> 1] \in Frame
    BY DEF Frame, EntryPtr
  <1>2. calls \in Seq(Frame) /\ Len(calls) = 1 /\ calls[1].ptr = EntryPtr /\ EntryPtr.k = 0
    BY <1>1 DEF Init, EntryPtr
  <1> QED
    BY <1>2 DEF Init, LoaderTypeOK, Stages, Known, Deps

(* A loaded module is collected next, through a pointer into the array.    *)
LEMMA LoadTypes ==
    ASSUME LoaderTypeOK, stage = "collect", calls # <<>>, Cursor <= Len(Imports), Loads
    PROVE  LoaderTypeOK'
  <1> DEFINE m == Imports[Cursor]
             new == [ptr |-> [block |-> block', k |-> Len(deps')], i |-> 1]
  <1>1. m \in Known
    BY CurrentFacts
  <1>2. deps' = Append(deps, m) /\ calls' = Append(Advanced, new)
    BY DEF Loads, Load, PushDep
  <1>3. deps' \in Seq(Known) /\ Len(deps') = Len(deps) + 1 /\ Len(deps) \in Nat
    BY <1>1, <1>2 DEF LoaderTypeOK
  <1>4. cap' \in Nat /\ block' \in Nat
    BY LoaderAssumption DEF Loads, Load, PushDep, LoaderTypeOK
  <1>5. new \in Frame /\ new.ptr.k = Len(deps') /\ new.ptr # EntryPtr
    BY <1>3, <1>4 DEF Frame, EntryPtr
  <1> HIDE DEF new, m
  <1>6. calls' \in Seq(Frame) /\ Len(calls') = Len(calls) + 1
    BY <1>2, <1>5, AdvancedFacts
  <1>7. \A j \in 1 .. Len(calls') : calls'[j] = IF j = Len(calls') THEN new ELSE Advanced[j]
    BY <1>2, <1>5, <1>6, AdvancedFacts, CurrentFacts
  <1>8. ASSUME NEW j \in 1 .. Len(calls')
        PROVE  calls'[j].ptr.k \in 0 .. Len(deps') /\ (calls'[j].ptr.k = 0 <=> calls'[j].ptr = EntryPtr)
    <2>1. CASE j = Len(calls')
      BY <1>3, <1>5, <1>7, <2>1
    <2>2. CASE j # Len(calls')
      <3>1. j \in 1 .. Len(calls) /\ calls'[j].ptr = calls[j].ptr
        BY <1>6, <1>7, <2>2, AdvancedFacts, CurrentFacts
      <3> QED
        BY <1>3, <3>1 DEF LoaderTypeOK
    <2> QED
      BY <2>1, <2>2
  <1> QED
    BY <1>3, <1>4, <1>6, <1>8 DEF Loads, LoaderTypeOK, Known, Deps, EntryPtr

(* tc_collect_imports_recursive keeps its pointers and cursors in range.   *)
LEMMA ImportTypes == ASSUME LoaderTypeOK, Import PROVE LoaderTypeOK'
  <1>0. stage = "collect" /\ calls # <<>> /\ Cursor <= Len(Imports)
    BY DEF Import
  <1>1. CASE Refused
    BY <1>1, HaltTypes DEF Refused
  <1>2. CASE Passes
    <2>1. calls' \in Seq(Frame) /\ Len(calls') = Len(calls)
             /\ \A j \in 1 .. Len(calls) : calls'[j].ptr = calls[j].ptr
      BY <1>0, <1>2, AdvancedFacts DEF Passes
    <2> QED
      BY <1>0, <1>2, <2>1 DEF Passes, LoaderTypeOK, Known, Deps, EntryPtr
  <1>3. CASE Loads
    BY <1>0, <1>3, LoadTypes
  <1> QED
    BY <1>1, <1>2, <1>3, ImportCases

LEMMA EndModuleTypes == ASSUME LoaderTypeOK, EndModule PROVE LoaderTypeOK'
  <1>1. calls # <<>> /\ calls' = Front(calls) /\ stage = "collect"
    BY DEF EndModule
  <1>2. calls' \in Seq(Frame) /\ Len(calls') = Len(calls) - 1 /\ Len(calls) \in Nat \ {0}
           /\ \A j \in 1 .. Len(calls') : calls'[j] = calls[j]
    <2>1. calls \in Seq(Frame)
      BY DEF LoaderTypeOK
    <2>2. Len(calls) \in Nat \ {0} /\ Front(calls) \in Seq(Frame) /\ Len(Front(calls)) = Len(calls) - 1
             /\ \A j \in 1 .. Len(calls) - 1 : Front(calls)[j] = calls[j]
      BY <1>1, <2>1, FrontFacts
    <2> QED
      BY <1>1, <2>2
  <1>3. \A j \in 1 .. Len(calls') :
            calls'[j].ptr.k \in 0 .. Len(deps) /\ (calls'[j].ptr.k = 0 <=> calls'[j].ptr = EntryPtr)
    BY <1>2 DEF LoaderTypeOK
  <1>4. Len(calls) <= 1 => calls' = <<>>
    BY <1>2
  <1>5. colour' \in [Deps -> {White, Grey, Black}]
    BY DEF EndModule, Deps
  <1>6. stage' \in {"collect", "dag"} /\ (stage' = "dag" => calls' = <<>>)
    BY <1>2, <1>4 DEF EndModule
  <1>7. UNCHANGED <<w, deps, cap, block, dfs, order>>
    BY DEF EndModule
  <1>8. Deps' = Deps /\ Known' = Known /\ EntryPtr' = EntryPtr /\ Stages' = Stages
    BY <1>7 DEF Deps, Known, EntryPtr, Stages
  <1> QED
    BY <1>1, <1>2, <1>3, <1>5, <1>6, <1>7, <1>8 DEF LoaderTypeOK, Stages, White, Grey, Black

-----------------------------------------------------------------------------

(* The edges of a dependency, once all imports are loaded.                 *)
AllLoaded == \A k \in 0 .. Len(deps) : ImportSet(Mod(deps, k)) \subseteq ToSet(deps)

LEMMA CollectedAll == ASSUME LoaderTypeOK, CollectInv, calls = <<>> PROVE AllLoaded
  <1>1. \A k \in 0 .. Len(deps) : ImportSet(Mod(deps, k)) \subseteq ToSet(deps)
    BY DEF CollectInv
  <1> QED
    BY <1>1 DEF AllLoaded

LEMMA EdgeFacts ==
    ASSUME LoaderTypeOK, AllLoaded, NEW k \in Deps
    PROVE  /\ w.imports[deps[k]] \in Seq(Known)
           /\ \A i \in 1 .. Len(w.imports[deps[k]]) :
                  /\ Edge(w, deps, k, i) \in Deps
                  /\ deps[Edge(w, deps, k, i)] = w.imports[deps[k]][i]
                  /\ deps[Edge(w, deps, k, i)] \in ImportSet(deps[k])
  <1>1. deps[k] \in Known /\ w \in Worlds
    BY DepsFacts DEF LoaderTypeOK
  <1>2. w.imports[deps[k]] \in Seq(Known)
    BY <1>1, WorldFacts
  <1>3. Mod(deps, k) = deps[k] /\ k \in 0 .. Len(deps)
    BY DepsFacts DEF Mod, Deps
  <1>4. ImportSet(deps[k]) \subseteq ToSet(deps)
    BY <1>3 DEF AllLoaded
  <1>5. ASSUME NEW i \in 1 .. Len(w.imports[deps[k]])
        PROVE  /\ Edge(w, deps, k, i) \in Deps
               /\ deps[Edge(w, deps, k, i)] = w.imports[deps[k]][i]
               /\ deps[Edge(w, deps, k, i)] \in ImportSet(deps[k])
    <2>1. w.imports[deps[k]][i] \in ImportSet(deps[k])
      BY <1>2 DEF ImportSet, ToSet
    <2> QED
      BY <2>1, <1>4, IndexFacts DEF Edge, IndexOf
  <1> QED
    BY <1>2, <1>5

(* The innermost node of the depth-first search.                           *)
LEMMA TopFacts ==
    ASSUME LoaderTypeOK, dfs # <<>>
    PROVE  /\ Len(dfs) \in Nat \ {0} /\ Top = dfs[Len(dfs)]
           /\ Top.idx \in Deps /\ Top.i \in Nat \ {0}
           /\ \A j \in 1 .. Len(dfs) : dfs[j].idx \in Deps /\ dfs[j].i \in Nat \ {0}
  <1>1. dfs \in Seq([idx : Deps, i : Nat \ {0}])
    BY DEF LoaderTypeOK
  <1>2. Len(dfs) \in Nat \ {0}
    BY <1>1
  <1> DEFINE R == [idx : Deps, i : Nat \ {0}]
  <1>3. \A j \in 1 .. Len(dfs) : dfs[j] \in R
    <2>1. dfs \in Seq(R)
      BY <1>1
    <2> HIDE DEF R
    <2> QED
      BY <2>1
  <1>4. \A j \in 1 .. Len(dfs) : dfs[j].idx \in Deps /\ dfs[j].i \in Nat \ {0}
    BY <1>3
  <1> QED
    BY <1>2, <1>4 DEF Top, Last

DfsFrame == [idx : Deps, i : Nat \ {0}]
Stepped == [dfs EXCEPT ![Len(dfs)].i = Top.i + 1]

LEMMA SteppedFacts ==
    ASSUME LoaderTypeOK, dfs # <<>>
    PROVE  /\ Stepped \in Seq(DfsFrame) /\ Len(Stepped) = Len(dfs)
           /\ \A j \in 1 .. Len(dfs) : Stepped[j].idx = dfs[j].idx
           /\ \A j \in 1 .. Len(dfs) : j # Len(dfs) => Stepped[j] = dfs[j]
           /\ Stepped[Len(dfs)].i = Top.i + 1
  <1>1. dfs \in Seq(DfsFrame) /\ Len(dfs) \in Nat \ {0} /\ dfs[Len(dfs)] \in DfsFrame /\ Top.i + 1 \in Nat \ {0}
    <2>1. dfs \in Seq(DfsFrame)
      BY DEF LoaderTypeOK, DfsFrame
    <2> QED
      BY <2>1, TopFacts
  <1> DEFINE top == [dfs[Len(dfs)] EXCEPT !.i = Top.i + 1]
  <1>2. top \in DfsFrame /\ top.idx = dfs[Len(dfs)].idx /\ top.i = Top.i + 1
    BY <1>1 DEF DfsFrame
  <1>3. Stepped = [dfs EXCEPT ![Len(dfs)] = top]
    BY DEF Stepped
  <1> HIDE DEF top
  <1> QED
    BY <1>1, <1>2, <1>3

(* The three outcomes of an edge: a cycle, a new node, or nothing.         *)
ClosesCycle == OnPath(Edge(w, deps, Top.idx, Top.i)) /\ Halt("circular import")
Descends ==
    /\ colour[Edge(w, deps, Top.idx, Top.i)] = White
    /\ dfs' = Append(Stepped, Node(Edge(w, deps, Top.idx, Top.i)))
    /\ colour' = [colour EXCEPT ![Edge(w, deps, Top.idx, Top.i)] = Grey]
    /\ UNCHANGED <<w, deps, cap, block, calls, order, stage>>
PassesEdge ==
    /\ colour[Edge(w, deps, Top.idx, Top.i)] \notin {White, Grey}
    /\ dfs' = Stepped
    /\ UNCHANGED <<w, deps, cap, block, calls, colour, order, stage>>

LEMMA DagEdgeCases == DagEdge => ClosesCycle \/ Descends \/ PassesEdge
  <1> SUFFICES ASSUME DagEdge PROVE ClosesCycle \/ Descends \/ PassesEdge
    OBVIOUS
  <1>1. Edge(w, deps, Top.idx, Top.i) = IndexOf(TopEdges[Top.i])
    BY DEF Edge, TopEdges, IndexOf
  <1> QED
    BY <1>1 DEF DagEdge, OnPath, ClosesCycle, Descends, PassesEdge, Stepped

(* The cycle check keeps its stack within the dependencies.                *)
LEMMA DagTypes ==
    ASSUME LoaderTypeOK, AllLoaded, DagRoot \/ DagEdge \/ DagLeave
    PROVE  LoaderTypeOK'
  <1>0. stage = "dag" /\ calls = <<>> /\ order = <<>>
    BY DEF DagRoot, DagEdge, DagLeave, LoaderTypeOK
  <1>1. CASE DagRoot
    <2>1. UNCHANGED <<w, deps, cap, block, calls, order>>
      BY <1>1 DEF DagRoot
    <2>2. dfs' \in Seq([idx : Deps, i : Nat \ {0}]) /\ colour' \in [Deps -> {White, Grey, Black}]
             /\ stage' \in {"dag", "order"}
      <3>1. CASE stage' = "order" /\ UNCHANGED <<dfs, colour>>
        BY <1>0, <3>1 DEF LoaderTypeOK
      <3>2. CASE \E k \in Deps : /\ dfs' = <<Node(k)>>
                                 /\ colour' = [colour EXCEPT ![k] = Grey]
                                 /\ UNCHANGED stage
        BY <1>0, <3>2 DEF LoaderTypeOK, Node
      <3> QED
        BY <1>1, <3>1, <3>2 DEF DagRoot, Deps
    <2> QED
      BY <1>0, <2>1, <2>2 DEF LoaderTypeOK, Known, Deps, EntryPtr, Stages
  <1>2. CASE DagEdge
    <2>1. dfs # <<>> /\ Top.i <= Len(TopEdges)
      BY <1>2 DEF DagEdge
    <2>2. Top.i \in 1 .. Len(w.imports[deps[Top.idx]]) /\ Top.idx \in Deps
      BY <2>1, TopFacts DEF TopEdges
    <2>3. Edge(w, deps, Top.idx, Top.i) \in Deps
      BY <2>2, EdgeFacts
    <2>4. CASE ClosesCycle
      BY <2>4, HaltTypes DEF ClosesCycle, Stages
    <2>5. CASE Descends
      <3>1. Node(Edge(w, deps, Top.idx, Top.i)) \in DfsFrame
        BY <2>3 DEF Node, DfsFrame
      <3>2. dfs' \in Seq(DfsFrame)
        BY <2>1, <2>5, <3>1, SteppedFacts DEF Descends
      <3>3. colour' \in [Deps -> {White, Grey, Black}]
        BY <1>0, <2>3, <2>5 DEF Descends, LoaderTypeOK
      <3> QED
        BY <1>0, <2>5, <3>2, <3>3 DEF Descends, LoaderTypeOK, Known, Deps, EntryPtr, DfsFrame
    <2>6. CASE PassesEdge
      <3>2. dfs' \in Seq(DfsFrame)
        BY <2>1, <2>6, SteppedFacts DEF PassesEdge
      <3> QED
        BY <1>0, <2>6, <3>2 DEF PassesEdge, LoaderTypeOK, Known, Deps, EntryPtr, DfsFrame
    <2> QED
      BY <1>2, <2>4, <2>5, <2>6, DagEdgeCases
  <1>3. CASE DagLeave
    <2>1. dfs' \in Seq(DfsFrame)
      BY <1>3, FrontFacts DEF DagLeave, LoaderTypeOK, DfsFrame
    <2>2. colour' \in [Deps -> {White, Grey, Black}]
      BY <1>0, <1>3, TopFacts DEF DagLeave, LoaderTypeOK
    <2> QED
      BY <1>0, <1>3, <2>1, <2>2 DEF DagLeave, LoaderTypeOK, Known, Deps, EntryPtr, DfsFrame
  <1> QED
    BY <1>1, <1>2, <1>3

LEMMA PlaceTypes == ASSUME LoaderTypeOK, Place PROVE LoaderTypeOK'
  <1>1. CASE Len(order) = Len(deps)
    BY <1>1 DEF Place, Halt, LoaderTypeOK, Known, Deps, EntryPtr, Stages
  <1>2. CASE Halt("circular import")
    BY <1>2, HaltTypes DEF Stages
  <1>3. CASE \E k \in 1 .. Len(deps) :
               order' = Append(order, k) /\ UNCHANGED <<w, deps, cap, block, calls, colour, dfs, stage>>
    <2>1. order' \in Seq(Deps) /\ UNCHANGED <<w, deps, cap, block, calls, colour, dfs, stage>>
      BY <1>3 DEF LoaderTypeOK, Deps
    <2>2. stage = "order"
      BY DEF Place
    <2> QED
      BY <2>1, <2>2 DEF LoaderTypeOK, Known, Deps, EntryPtr, Stages
  <1> QED
    BY <1>1, <1>2, <1>3 DEF Place

(* Every step of the loader keeps the types.                               *)
LEMMA StepLoaderTypes == LoaderTypeOK /\ CollectInv /\ [Next]_vars => LoaderTypeOK'
  <1> SUFFICES ASSUME LoaderTypeOK, CollectInv, [Next]_vars PROVE LoaderTypeOK'
    OBVIOUS
  <1>1. CASE Import
    BY <1>1, ImportTypes
  <1>2. CASE ReadFreed
    BY <1>2, HaltTypes DEF ReadFreed, Stages
  <1>3. CASE EndModule
    BY <1>3, EndModuleTypes
  <1>4. CASE DagRoot \/ DagEdge \/ DagLeave
    <2>1. calls = <<>>
      BY <1>4 DEF DagRoot, DagEdge, DagLeave, LoaderTypeOK
    <2> QED
      BY <1>4, <2>1, DagTypes, CollectedAll
  <1>5. CASE Place
    BY <1>5, PlaceTypes
  <1>6. CASE UNCHANGED vars
    BY <1>6 DEF vars, LoaderTypeOK, Known, Deps, EntryPtr, Stages
  <1> QED
    BY <1>1, <1>2, <1>3, <1>4, <1>5, <1>6 DEF Next, Step

-----------------------------------------------------------------------------

(* Nothing the collection has found changes in a step that keeps the world,*)
(* the dependencies and the C stack.                                       *)
LEMMA CollectKept ==
    ASSUME CollectInv, UNCHANGED <<w, deps, calls>>
    PROVE  CollectInv'
  <1>1. w' = w /\ deps' = deps /\ calls' = calls
    OBVIOUS
  <1>2. Deps' = Deps /\ Needed' = Needed
    BY <1>1 DEF Deps, Needed, ReachedFrom, Carries, ImportsOf
  <1>3. /\ \A j, k \in Deps' : deps'[j] = deps'[k] => j = k
        /\ \A k \in Deps' : deps'[k] \in w'.libs /\ deps'[k] \in Needed'
    BY <1>1, <1>2 DEF CollectInv
  <1>4. \A j \in 1 .. Len(calls') : \A i \in 1 .. calls'[j].i - 1 :
          w'.imports[Mod(deps', calls'[j].ptr.k)][i] \in ToSet(deps')
    BY <1>1 DEF CollectInv
  <1>5. \A k \in 0 .. Len(deps') :
          \/ \E j \in 1 .. Len(calls') : calls'[j].ptr.k = k
          \/ ToSet(w'.imports[Mod(deps', k)]) \subseteq ToSet(deps')
    BY <1>1 DEF CollectInv, ImportSet
  <1> QED
    BY <1>3, <1>4, <1>5 DEF CollectInv, ImportSet

(* The import statement under the cursor names a needed module.            *)
LEMMA ImportIsNeeded ==
    ASSUME LoaderTypeOK, CollectInv, calls # <<>>, Cursor <= Len(Imports)
    PROVE  /\ Imports[Cursor] \in ImportSet(Mod(deps, Current.k)) /\ Imports[Cursor] \in Known
           /\ Imports[Cursor] \in Needed
  <1>1. Imports[Cursor] \in ImportSet(Mod(deps, Current.k)) /\ Imports[Cursor] \in Known
    BY CurrentFacts DEF ImportSet, ToSet
  <1>2. ImportSet(Entry) \in SUBSET Known /\ w \in Worlds /\ Needed = ReachedFrom(ImportSet(Entry))
    BY WorldFacts DEF LoaderTypeOK, Needed, ImportSet
  <1>3. CASE Current.k = 0
    BY <1>1, <1>2, <1>3, ReachedCarries DEF Mod
  <1>4. CASE Current.k # 0
    <2>1. Current.k \in Deps /\ Mod(deps, Current.k) = deps[Current.k]
      BY <1>4, CurrentFacts DEF Deps, Mod
    <2>2. deps[Current.k] \in w.libs /\ deps[Current.k] \in Needed
      BY <2>1 DEF CollectInv
    <2> QED
      BY <1>1, <1>2, <2>1, <2>2, ReachedCarries
  <1> QED
    BY <1>1, <1>3, <1>4

(* An import of a loaded module moves the cursor past it.                  *)
LEMMA PassesCollect ==
    ASSUME LoaderTypeOK, CollectInv, calls # <<>>, Passes
    PROVE  CollectInv'
  <1>1. UNCHANGED <<w, deps>> /\ calls' = Advanced /\ Imports[Cursor] \in ToSet(deps)
    BY DEF Passes
  <1>2. ASSUME NEW j \in 1 .. Len(calls'), NEW i \in 1 .. calls'[j].i - 1
        PROVE  w.imports[Mod(deps, calls'[j].ptr.k)][i] \in ToSet(deps)
    <2>1. j \in 1 .. Len(calls) /\ calls'[j].ptr = calls[j].ptr
      BY <1>1, AdvancedFacts
    <2>2. CASE j # Len(calls)
      <3>1. i \in 1 .. calls[j].i - 1
        BY <1>1, <2>1, <2>2, AdvancedFacts
      <3> QED
        BY <2>1, <3>1 DEF CollectInv
    <2>3. CASE j = Len(calls)
      <3>1. calls'[j].i = Cursor + 1 /\ Cursor = calls[j].i /\ Cursor \in Nat
        BY <1>1, <2>3, AdvancedFacts, CurrentFacts
      <3>2. CASE i = Cursor
        BY <1>1, <2>1, <2>3, <3>2, CurrentFacts
      <3>3. CASE i # Cursor
        <4>1. i \in 1 .. calls[j].i - 1
          BY <3>1, <3>3
        <4> QED
          BY <2>1, <4>1 DEF CollectInv
      <3> QED
        BY <3>2, <3>3
    <2> QED
      BY <2>2, <2>3
  <1>3. ASSUME NEW k \in 0 .. Len(deps)
        PROVE  \/ \E j \in 1 .. Len(calls') : calls'[j].ptr.k = k
               \/ ImportSet(Mod(deps, k)) \subseteq ToSet(deps)
    <2>1. \A j \in 1 .. Len(calls) : j \in 1 .. Len(calls') /\ calls'[j].ptr = calls[j].ptr
      BY <1>1, AdvancedFacts
    <2> QED
      BY <2>1 DEF CollectInv
  <1>4. Needed' = Needed /\ Deps' = Deps /\ \A m : ImportSet(m)' = ImportSet(m)
    BY <1>1 DEF Needed, ReachedFrom, Carries, ImportsOf, Deps, Mod, ImportSet
  <1>5. /\ \A j, k \in Deps' : deps'[j] = deps'[k] => j = k
        /\ \A k \in Deps' : deps'[k] \in w'.libs /\ deps'[k] \in Needed'
    BY <1>1, <1>4 DEF CollectInv
  <1>6. \A j \in 1 .. Len(calls') : \A i \in 1 .. calls'[j].i - 1 :
           w'.imports[Mod(deps', calls'[j].ptr.k)][i] \in ToSet(deps')
    BY <1>1, <1>2, <1>4
  <1>7. \A k \in 0 .. Len(deps') :
          \/ \E j \in 1 .. Len(calls') : calls'[j].ptr.k = k
          \/ ToSet(w'.imports[Mod(deps', k)]) \subseteq ToSet(deps')
    BY <1>1, <1>3, <1>4 DEF ImportSet
  <1> QED
    BY <1>5, <1>6, <1>7 DEF CollectInv, ImportSet

(* Loading a module adds a new, needed library, whose collection begins.   *)
LEMMA LoadsCollect ==
    ASSUME LoaderTypeOK, CollectInv, calls # <<>>, Cursor <= Len(Imports), Loads
    PROVE  CollectInv'
  <1> DEFINE m == Imports[Cursor]
             new == [ptr |-> [block |-> block', k |-> Len(deps')], i |-> 1]
  <1>1. deps' = Append(deps, m) /\ calls' = Append(Advanced, new) /\ w' = w
    BY DEF Loads, Load, PushDep
  <1>2. m \in Known /\ m \in Needed /\ m \in w.libs /\ m \notin ToSet(deps)
    BY ImportIsNeeded DEF Loads
  <1>3. new.ptr.k = Len(deps') /\ new.i = 1
    OBVIOUS
  <1>c. m = w.imports[Mod(deps, Current.k)][Cursor]
    BY CurrentFacts
  <1> HIDE DEF m, new
  <1>4. Len(deps') = Len(deps) + 1 /\ Len(deps) \in Nat /\ deps' \in Seq(Known)
           /\ deps'[Len(deps')] = m /\ \A k \in Deps : deps'[k] = deps[k]
    BY <1>1, <1>2 DEF LoaderTypeOK, Deps
  <1>5. ToSet(deps') = ToSet(deps) \cup {m}
    <2>1. DOMAIN deps = Deps /\ DOMAIN deps' = Deps \cup {Len(deps')}
      BY <1>4, DepsFacts DEF Deps
    <2>2. \A x : x \in ToSet(deps') <=> \E k \in Deps \cup {Len(deps')} : deps'[k] = x
      BY <2>1 DEF ToSet
    <2>3. \A x : x \in ToSet(deps) <=> \E k \in Deps : deps[k] = x
      BY <2>1 DEF ToSet
    <2> QED
      BY <1>4, <2>2, <2>3
  <1>6. Deps' = Deps \cup {Len(deps')} /\ Len(deps') \notin Deps
    BY <1>4 DEF Deps
  <1>7. Needed' = Needed /\ \A x : ImportSet(x)' = ImportSet(x)
    BY <1>1 DEF Needed, ReachedFrom, Carries, ImportsOf, ImportSet
  <1>8. \A k \in 0 .. Len(deps) : Mod(deps', k) = Mod(deps, k)
    BY <1>4 DEF Mod, Deps
  <1>9. Len(calls') = Len(calls) + 1 /\ Len(calls) \in Nat \ {0} /\ calls'[Len(calls')] = new
            /\ \A j \in 1 .. Len(calls) : calls'[j] = Advanced[j]
    BY <1>1, AdvancedFacts, CurrentFacts
  <1>10. \A j, k \in Deps' : deps'[j] = deps'[k] => j = k
    <2>1. \A k \in Deps : deps[k] # m
      BY <1>2, DepsFacts
    <2> QED
      BY <1>4, <1>6, <2>1 DEF CollectInv
  <1>11. \A k \in Deps' : deps'[k] \in w'.libs /\ deps'[k] \in Needed'
    BY <1>1, <1>2, <1>4, <1>6, <1>7 DEF CollectInv
  <1>12. ASSUME NEW j \in 1 .. Len(calls'), NEW i \in 1 .. calls'[j].i - 1
         PROVE  w.imports[Mod(deps', calls'[j].ptr.k)][i] \in ToSet(deps) \cup {m}
    <2>0. j \in 1 .. Len(calls)
      BY <1>3, <1>9
    <2>1. calls'[j].ptr = calls[j].ptr /\ calls[j].ptr.k \in 0 .. Len(deps)
      BY <1>9, <2>0, AdvancedFacts DEF LoaderTypeOK
    <2>2. Mod(deps', calls'[j].ptr.k) = Mod(deps, calls[j].ptr.k)
      BY <1>8, <2>1
    <2>3. CASE j # Len(calls)
      <3>1. i \in 1 .. calls[j].i - 1
        BY <1>9, <2>0, <2>3, AdvancedFacts
      <3> QED
        BY <2>0, <2>2, <3>1 DEF CollectInv
    <2>4. CASE j = Len(calls)
      <3>1. calls'[j].i = Cursor + 1 /\ Cursor = calls[j].i /\ Cursor \in Nat /\ calls[j].ptr = Current
        BY <1>9, <2>0, <2>4, AdvancedFacts, CurrentFacts
      <3>2. CASE i = Cursor
        BY <1>c, <2>2, <3>1, <3>2
      <3>3. CASE i # Cursor
        <4>1. i \in 1 .. calls[j].i - 1
          BY <3>1, <3>3
        <4> QED
          BY <2>0, <2>2, <4>1 DEF CollectInv
      <3> QED
        BY <3>2, <3>3
    <2> QED
      BY <2>3, <2>4
  <1>13. ASSUME NEW k \in 0 .. Len(deps')
         PROVE  \/ \E j \in 1 .. Len(calls') : calls'[j].ptr.k = k
                \/ ImportSet(Mod(deps', k)) \subseteq ToSet(deps')
    <2>1. CASE k = Len(deps')
      BY <1>3, <1>9, <2>1
    <2>2. CASE k # Len(deps')
      <3>1. k \in 0 .. Len(deps) /\ Mod(deps', k) = Mod(deps, k)
        BY <1>4, <1>8, <2>2
      <3>2. CASE \E j \in 1 .. Len(calls) : calls[j].ptr.k = k
        <4>1. PICK j \in 1 .. Len(calls) : calls[j].ptr.k = k
          BY <3>2
        <4>2. j \in 1 .. Len(calls') /\ calls'[j].ptr = calls[j].ptr
          BY <1>9, <4>1, AdvancedFacts
        <4> QED
          BY <4>1, <4>2
      <3>3. CASE ImportSet(Mod(deps, k)) \subseteq ToSet(deps)
        BY <1>5, <3>1, <3>3
      <3> QED
        BY <3>1, <3>2, <3>3 DEF CollectInv
    <2> QED
      BY <2>1, <2>2
  <1>14. \A j \in 1 .. Len(calls') : \A i \in 1 .. calls'[j].i - 1 :
            w'.imports[Mod(deps', calls'[j].ptr.k)][i] \in ToSet(deps')
    BY <1>1, <1>5, <1>12
  <1>15. \A k \in 0 .. Len(deps') :
          \/ \E j \in 1 .. Len(calls') : calls'[j].ptr.k = k
          \/ ToSet(w'.imports[Mod(deps', k)]) \subseteq ToSet(deps')
    BY <1>1, <1>13 DEF ImportSet
  <1> QED
    BY <1>10, <1>11, <1>14, <1>15 DEF CollectInv, ImportSet

(* A module whose cursor is past its last import has all of them loaded.   *)
LEMMA EndCollect ==
    ASSUME LoaderTypeOK, CollectInv, EndModule
    PROVE  CollectInv'
  <1>1. UNCHANGED <<w, deps>> /\ calls' = Front(calls) /\ calls # <<>> /\ Cursor > Len(Imports)
    BY DEF EndModule
  <1>2. Len(calls') = Len(calls) - 1 /\ Len(calls) \in Nat \ {0}
            /\ \A j \in 1 .. Len(calls') : calls'[j] = calls[j]
    BY <1>1, FrontFacts DEF LoaderTypeOK
  <1>3. ImportSet(Mod(deps, Current.k)) \subseteq ToSet(deps)
    <2>1. \A i \in 1 .. Cursor - 1 : Imports[i] \in ToSet(deps)
      BY <1>1, CurrentFacts DEF CollectInv
    <2>2. Len(Imports) \in Nat /\ \A i \in 1 .. Len(Imports) : i \in 1 .. Cursor - 1
      BY <1>1, CurrentFacts
    <2>3. DOMAIN Imports = 1 .. Len(Imports) /\ ImportSet(Mod(deps, Current.k)) = ToSet(Imports)
      BY <1>1, CurrentFacts DEF ImportSet
    <2> QED
      BY <2>1, <2>2, <2>3 DEF ToSet
  <1>4. ASSUME NEW k \in 0 .. Len(deps)
        PROVE  \/ \E j \in 1 .. Len(calls') : calls'[j].ptr.k = k
               \/ ImportSet(Mod(deps, k)) \subseteq ToSet(deps)
    <2>1. CASE \E j \in 1 .. Len(calls) : calls[j].ptr.k = k
      <3>1. PICK j \in 1 .. Len(calls) : calls[j].ptr.k = k
        BY <2>1
      <3>2. CASE j = Len(calls)
        BY <1>1, <1>3, <3>1, <3>2, CurrentFacts
      <3>3. CASE j # Len(calls)
        BY <1>2, <3>1, <3>3
      <3> QED
        BY <3>2, <3>3
    <2> QED
      BY <2>1 DEF CollectInv
  <1>5. Needed' = Needed /\ Deps' = Deps /\ \A m : ImportSet(m)' = ImportSet(m)
    BY <1>1 DEF Needed, ReachedFrom, Carries, ImportsOf, Deps, Mod, ImportSet
  <1>6. /\ \A j, k \in Deps' : deps'[j] = deps'[k] => j = k
        /\ \A k \in Deps' : deps'[k] \in w'.libs /\ deps'[k] \in Needed'
    BY <1>1, <1>5 DEF CollectInv
  <1>7. \A j \in 1 .. Len(calls') : \A i \in 1 .. calls'[j].i - 1 :
           w'.imports[Mod(deps', calls'[j].ptr.k)][i] \in ToSet(deps')
    BY <1>1, <1>2, <1>5 DEF CollectInv
  <1>8. \A k \in 0 .. Len(deps') :
          \/ \E j \in 1 .. Len(calls') : calls'[j].ptr.k = k
          \/ ToSet(w'.imports[Mod(deps', k)]) \subseteq ToSet(deps')
    BY <1>1, <1>4, <1>5 DEF ImportSet
  <1> QED
    BY <1>6, <1>7, <1>8 DEF CollectInv, ImportSet

LEMMA StepCollect == LoaderTypeOK /\ CollectInv /\ [Next]_vars => CollectInv'
  <1> SUFFICES ASSUME LoaderTypeOK, CollectInv, [Next]_vars PROVE CollectInv'
    OBVIOUS
  <1>1. CASE Import
    <2>1. calls # <<>> /\ Cursor <= Len(Imports)
      BY <1>1 DEF Import
    <2>2. CASE Refused
      BY <2>2, CollectKept DEF Refused, Halt
    <2> QED
      BY <1>1, <2>1, <2>2, ImportCases, PassesCollect, LoadsCollect
  <1>2. CASE EndModule
    BY <1>2, EndCollect
  <1>3. CASE UNCHANGED <<w, deps, calls>>
    BY <1>3, CollectKept
  <1>4. Import \/ EndModule \/ UNCHANGED <<w, deps, calls>>
    BY DEF Next, Step, ReadFreed, DagRoot, DagEdge, DagLeave, Place, Halt, vars
  <1> QED
    BY <1>1, <1>2, <1>3, <1>4

-----------------------------------------------------------------------------

LEMMA ReachIs ==
    /\ \A S : ReachedFrom(S) = Reach(w, S)
    /\ \A m : OnCycle(m) <=> Cyclic(w, m)
  <1>1. ASSUME NEW S PROVE ReachedFrom(S) = Reach(w, S)
    <2>1. \A T : Carries(S, T) <=> S \subseteq T /\ \A n \in T \cap w.libs : ToSet(w.imports[n]) \subseteq T
      BY DEF Carries, ImportsOf
    <2> QED
      BY <2>1 DEF ReachedFrom, Reach
  <1> QED
    BY <1>1 DEF OnCycle, Cyclic

(* During the check of the graph every edge is one to a dependency.        *)
LEMMA DagContext ==
    ASSUME LoaderTypeOK, CollectInv, stage \in {"dag", "order", "ok"}
    PROVE  calls = <<>> /\ AllLoaded /\ colour \in [Deps -> {White, Grey, Black}] /\ Blacks \subseteq Deps
  BY CollectedAll DEF LoaderTypeOK, Blacks

(* The imports of a dependency are the ends of its edges.                  *)
LEMMA ImportIsEdge ==
    ASSUME LoaderTypeOK, AllLoaded, NEW k \in Deps, NEW x \in ToSet(w.imports[deps[k]])
    PROVE  \E i \in 1 .. Len(w.imports[deps[k]]) : x = deps[Edge(w, deps, k, i)]
  <1>1. \E i \in 1 .. Len(w.imports[deps[k]]) : x = w.imports[deps[k]][i]
    BY EdgeFacts DEF ToSet
  <1> QED
    BY <1>1, EdgeFacts

(* A set of dependencies closed under edges holds all that is reached from *)
(* its members' imports.                                                   *)
LEMMA ReachedInside ==
    ASSUME LoaderTypeOK, AllLoaded, NEW U \in SUBSET Deps, NEW S,
           S \subseteq {deps[k] : k \in U},
           \A k \in U : \A i \in 1 .. Len(w.imports[deps[k]]) : Edge(w, deps, k, i) \in U
    PROVE  Reach(w, S) \subseteq {deps[k] : k \in U}
  <1> DEFINE T == {deps[k] : k \in U}
  <1>1. T \in SUBSET DOMAIN w.imports
    BY DepsFacts DEF Known
  <1>2. ASSUME NEW n \in T PROVE ToSet(w.imports[n]) \subseteq T
    <2>1. PICK k \in U : n = deps[k]
      OBVIOUS
    <2> QED
      BY <2>1, ImportIsEdge
  <1> QED
    BY <1>1, <1>2 DEF Reach

(* What is reached from a module's imports has its own imports reached.    *)
LEMMA ReachedOn ==
    ASSUME LoaderTypeOK, CollectInv, AllLoaded, NEW k \in Deps, NEW j \in Deps,
           deps[k] = deps[j] \/ deps[k] \in Reach(w, ToSet(w.imports[deps[j]])),
           NEW i \in 1 .. Len(w.imports[deps[k]])
    PROVE  deps[Edge(w, deps, k, i)] \in Reach(w, ToSet(w.imports[deps[j]]))
  <1> DEFINE S == ToSet(w.imports[deps[j]])
  <1>1. w \in Worlds /\ deps[j] \in Known /\ S \in SUBSET Known
    BY DepsFacts, WorldFacts DEF LoaderTypeOK, ImportSet
  <1>2. deps[Edge(w, deps, k, i)] \in ImportSet(deps[k])
    BY EdgeFacts
  <1>3. deps[k] \in w.libs
    BY DEF CollectInv
  <1>4. S \subseteq ReachedFrom(S) /\ \A m \in ReachedFrom(S) : m \in w.libs => ImportSet(m) \subseteq ReachedFrom(S)
    BY <1>1, ReachedCarries
  <1>5. ReachedFrom(S) = Reach(w, S)
    BY ReachIs
  <1> QED
    BY <1>2, <1>3, <1>4, <1>5 DEF ImportSet

-----------------------------------------------------------------------------

(* Only the module met next gets a colour of its own when the search       *)
(* descends into it; the edge it was met on is the last one passed.        *)
LEMMA DescendSearch ==
    ASSUME LoaderTypeOK, CollectInv, SearchInv, stage = "dag", dfs # <<>>,
           Top.i <= Len(TopEdges), Descends
    PROVE  SearchInv'
  <1> DEFINE e == Edge(w, deps, Top.idx, Top.i)
             n == Len(dfs)
  <1>1. /\ AllLoaded /\ colour \in [Deps -> {White, Grey, Black}]
        /\ n \in Nat \ {0} /\ Top = dfs[n] /\ Top.idx \in Deps /\ Top.i \in 1 .. Len(w.imports[deps[Top.idx]])
        /\ \A j \in 1 .. n : dfs[j].idx \in Deps /\ dfs[j].i \in Nat \ {0}
    BY DagContext, TopFacts DEF TopEdges
  <1>2. e \in Deps /\ colour[e] = White
    BY <1>1, EdgeFacts DEF Descends
  <1>3. UNCHANGED <<w, deps, stage>> /\ colour' = [colour EXCEPT ![e] = Grey]
           /\ dfs' = Append(Stepped, Node(e))
    BY DEF Descends
  <1>4. /\ Len(dfs') = n + 1 /\ dfs'[n + 1].idx = e /\ dfs'[n + 1].i = 1
        /\ \A j \in 1 .. n : dfs'[j].idx = dfs[j].idx
        /\ \A j \in 1 .. n : j # n => dfs'[j].i = dfs[j].i
        /\ dfs'[n].i = Top.i + 1
    BY <1>1, <1>3, SteppedFacts DEF Node
  <1>g. \A k \in Deps : colour[k] = Grey <=> \E j \in 1 .. n : dfs[j].idx = k
    BY DEF SearchInv
  <1>d. \A j, k \in 1 .. n : dfs[j].idx = dfs[k].idx => j = k
    BY DEF SearchInv
  <1>p. \A j \in 1 .. n : \A i \in 1 .. dfs[j].i - 1 :
          i <= Len(w.imports[deps[dfs[j].idx]]) =>
              \/ colour[Edge(w, deps, dfs[j].idx, i)] = Black
              \/ j < n /\ Edge(w, deps, dfs[j].idx, i) = dfs[j + 1].idx
    BY DEF SearchInv
  <1>r. \A j, k \in 1 .. n : j < k => deps[dfs[k].idx] \in Reach(w, ToSet(w.imports[deps[dfs[j].idx]]))
    BY DEF SearchInv
  <1>5. \A j \in 1 .. n : dfs[j].idx # e
    BY <1>2, <1>g DEF White, Grey
  <1> HIDE DEF e, n
  <1>6. \A k \in Deps : colour'[k] = Grey <=> \E j \in 1 .. n + 1 : dfs'[j].idx = k
    <2> SUFFICES ASSUME NEW k \in Deps
                 PROVE  colour'[k] = Grey <=> \E j \in 1 .. n + 1 : dfs'[j].idx = k
      OBVIOUS
    <2>1. CASE k = e
      <3>1. n + 1 \in 1 .. n + 1
        BY <1>1
      <3> QED
        BY <1>1, <1>2, <1>3, <1>4, <2>1, <3>1
    <2>2. CASE k # e
      <3>1. colour'[k] = colour[k]
        BY <1>1, <1>3, <2>2
      <3>2. (\E j \in 1 .. n + 1 : dfs'[j].idx = k) <=> \E j \in 1 .. n : dfs[j].idx = k
        <4>1. \A j \in 1 .. n : j \in 1 .. n + 1 /\ (dfs'[j].idx = k <=> dfs[j].idx = k)
          BY <1>1, <1>4
        <4>2. \A j \in 1 .. n + 1 : dfs'[j].idx = k => j \in 1 .. n
          BY <1>1, <1>4, <2>2
        <4> QED
          BY <4>1, <4>2
      <3> QED
        BY <3>1, <3>2, <1>g
    <2> QED
      BY <2>1, <2>2
  <1>7. \A j, k \in 1 .. n + 1 : dfs'[j].idx = dfs'[k].idx => j = k
    BY <1>1, <1>4, <1>5, <1>d
  <1>8. ASSUME NEW j \in 1 .. n + 1, NEW i \in 1 .. dfs'[j].i - 1,
               i <= Len(w.imports[deps[dfs'[j].idx]])
        PROVE  \/ colour'[Edge(w, deps, dfs'[j].idx, i)] = Black
               \/ j < n + 1 /\ Edge(w, deps, dfs'[j].idx, i) = dfs'[j + 1].idx
    <2>0. \A k \in Deps : colour[k] = Black => colour'[k] = Black
      BY <1>1, <1>2, <1>3 DEF White, Black
    <2>1. CASE j = n + 1
      BY <1>4, <2>1
    <2>2. CASE j < n
      <3>0. j \in 1 .. n /\ j # n /\ dfs'[j].idx = dfs[j].idx /\ dfs'[j].i = dfs[j].i
        BY <1>1, <1>4, <2>2
      <3>1. i \in 1 .. dfs[j].i - 1 /\ i <= Len(w.imports[deps[dfs[j].idx]]) /\ j \in 1 .. n
        BY <1>8, <3>0
      <3>2. Edge(w, deps, dfs[j].idx, i) \in Deps /\ dfs'[j].idx = dfs[j].idx /\ dfs'[j + 1].idx = dfs[j + 1].idx
        BY <1>1, <1>4, <2>2, <3>1, EdgeFacts
      <3> QED
        BY <1>1, <1>p, <2>0, <2>2, <3>1, <3>2
    <2>3. CASE j = n
      <3>0. dfs'[n].idx = dfs[n].idx /\ n \in 1 .. n /\ n < n + 1
        BY <1>1, <1>4
      <3>1. CASE i = Top.i
        BY <1>1, <1>4, <2>3, <3>0, <3>1 DEF e
      <3>2. CASE i # Top.i
        <4>1. i \in 1 .. dfs[n].i - 1 /\ i <= Len(w.imports[deps[dfs[n].idx]])
          BY <1>1, <1>4, <1>8, <2>3, <3>0, <3>2
        <4>2. colour[Edge(w, deps, dfs[n].idx, i)] = Black /\ Edge(w, deps, dfs[n].idx, i) \in Deps
          BY <1>1, <1>p, <3>0, <4>1, EdgeFacts
        <4> QED
          BY <2>0, <2>3, <3>0, <4>2
      <3> QED
        BY <3>1, <3>2
    <2> QED
      BY <1>1, <2>1, <2>2, <2>3
  <1>9. ASSUME NEW j \in 1 .. n + 1, NEW k \in 1 .. n + 1, j < k
        PROVE  deps[dfs'[k].idx] \in Reach(w, ToSet(w.imports[deps[dfs'[j].idx]]))
    <2>1. j \in 1 .. n /\ dfs'[j].idx = dfs[j].idx
      BY <1>1, <1>4, <1>9
    <2>2. CASE k # n + 1
      BY <1>1, <1>4, <1>9, <1>r, <2>1, <2>2
    <2>3. CASE k = n + 1
      <3>1. deps[Top.idx] = deps[dfs[j].idx] \/ deps[Top.idx] \in Reach(w, ToSet(w.imports[deps[dfs[j].idx]]))
        BY <1>1, <1>r, <2>1
      <3> QED
        BY <1>1, <1>4, <2>1, <2>3, <3>1, ReachedOn DEF e
    <2> QED
      BY <2>2, <2>3
  <1>10. Deps' = Deps
    BY <1>3 DEF Deps
  <1> DEFINE m == n + 1
  <1>11. /\ \A k \in Deps : colour'[k] = Grey <=> \E j \in 1 .. m : dfs'[j].idx = k
         /\ \A j, k \in 1 .. m : dfs'[j].idx = dfs'[k].idx => j = k
         /\ \A j \in 1 .. m : \A i \in 1 .. dfs'[j].i - 1 :
               i <= Len(w.imports[deps[dfs'[j].idx]]) =>
                   \/ colour'[Edge(w, deps, dfs'[j].idx, i)] = Black
                   \/ j < m /\ Edge(w, deps, dfs'[j].idx, i) = dfs'[j + 1].idx
         /\ \A j, k \in 1 .. m : j < k =>
               deps[dfs'[k].idx] \in Reach(w, ToSet(w.imports[deps[dfs'[j].idx]]))
    BY <1>6, <1>7, <1>8, <1>9
  <1>12. Len(dfs') = m
    BY <1>4
  <1> HIDE DEF m
  <1>13. /\ \A k \in Deps' : colour'[k] = Grey <=> \E j \in 1 .. Len(dfs') : dfs'[j].idx = k
         /\ \A j, k \in 1 .. Len(dfs') : dfs'[j].idx = dfs'[k].idx => j = k
    BY <1>10, <1>11, <1>12
  <1>14. \A j \in 1 .. Len(dfs') : \A i \in 1 .. dfs'[j].i - 1 :
             i <= Len(w'.imports[deps'[dfs'[j].idx]]) =>
                 \/ colour'[Edge(w', deps', dfs'[j].idx, i)] = Black
                 \/ j < Len(dfs') /\ Edge(w', deps', dfs'[j].idx, i) = dfs'[j + 1].idx
    BY <1>3, <1>11, <1>12
  <1>15. \A j, k \in 1 .. Len(dfs') : j < k =>
             deps'[dfs'[k].idx] \in Reach(w', ToSet(w'.imports[deps'[dfs'[j].idx]]))
    BY <1>3, <1>11, <1>12
  <1> QED
    BY <1>13, <1>14, <1>15 DEF SearchInv

(* An edge to a black module is passed.                                    *)
LEMMA PassSearch ==
    ASSUME LoaderTypeOK, CollectInv, SearchInv, stage = "dag", dfs # <<>>,
           Top.i <= Len(TopEdges), PassesEdge
    PROVE  SearchInv'
  <1> DEFINE e == Edge(w, deps, Top.idx, Top.i)
             n == Len(dfs)
  <1>1. /\ AllLoaded /\ colour \in [Deps -> {White, Grey, Black}]
        /\ n \in Nat \ {0} /\ Top = dfs[n] /\ Top.idx \in Deps /\ Top.i \in 1 .. Len(w.imports[deps[Top.idx]])
        /\ \A j \in 1 .. n : dfs[j].idx \in Deps /\ dfs[j].i \in Nat \ {0}
    BY DagContext, TopFacts DEF TopEdges
  <1>2. e \in Deps /\ colour[e] = Black
    BY <1>1, EdgeFacts DEF PassesEdge
  <1>3. UNCHANGED <<w, deps, colour, stage>> /\ dfs' = Stepped
    BY DEF PassesEdge
  <1>4. /\ Len(dfs') = n
        /\ \A j \in 1 .. n : dfs'[j].idx = dfs[j].idx
        /\ \A j \in 1 .. n : j # n => dfs'[j].i = dfs[j].i
        /\ dfs'[n].i = Top.i + 1
    BY <1>1, <1>3, SteppedFacts
  <1>p. \A j \in 1 .. n : \A i \in 1 .. dfs[j].i - 1 :
          i <= Len(w.imports[deps[dfs[j].idx]]) =>
              \/ colour[Edge(w, deps, dfs[j].idx, i)] = Black
              \/ j < n /\ Edge(w, deps, dfs[j].idx, i) = dfs[j + 1].idx
    BY DEF SearchInv
  <1>6. /\ \A k \in Deps : colour[k] = Grey <=> \E j \in 1 .. n : dfs[j].idx = k
        /\ \A j, k \in 1 .. n : dfs[j].idx = dfs[k].idx => j = k
        /\ \A j, k \in 1 .. n : j < k => deps[dfs[k].idx] \in Reach(w, ToSet(w.imports[deps[dfs[j].idx]]))
    BY DEF SearchInv
  <1> HIDE DEF e, n
  <1>5. /\ \A k \in Deps : colour[k] = Grey <=> \E j \in 1 .. n : dfs'[j].idx = k
        /\ \A j, k \in 1 .. n : dfs'[j].idx = dfs'[k].idx => j = k
        /\ \A j, k \in 1 .. n : j < k => deps[dfs'[k].idx] \in Reach(w, ToSet(w.imports[deps[dfs'[j].idx]]))
    <2>1. \A k \in Deps : colour[k] = Grey <=> \E j \in 1 .. n : dfs'[j].idx = k
      BY <1>4, <1>6
    <2>2. \A j, k \in 1 .. n : dfs'[j].idx = dfs'[k].idx => j = k
      BY <1>4, <1>6
    <2>3. \A j, k \in 1 .. n : j < k => deps[dfs'[k].idx] \in Reach(w, ToSet(w.imports[deps[dfs'[j].idx]]))
      BY <1>4, <1>6
    <2> QED
      BY <2>1, <2>2, <2>3
  <1>8. ASSUME NEW j \in 1 .. n, NEW i \in 1 .. dfs'[j].i - 1,
               i <= Len(w.imports[deps[dfs'[j].idx]])
        PROVE  \/ colour[Edge(w, deps, dfs'[j].idx, i)] = Black
               \/ j < n /\ Edge(w, deps, dfs'[j].idx, i) = dfs'[j + 1].idx
    <2>2. CASE j < n
      <3>0. j # n /\ j + 1 \in 1 .. n
        BY <1>1, <2>2
      <3>1. i \in 1 .. dfs[j].i - 1 /\ dfs'[j].idx = dfs[j].idx /\ dfs'[j + 1].idx = dfs[j + 1].idx
        BY <1>4, <3>0
      <3> QED
        BY <1>1, <1>p, <1>8, <2>2, <3>1
    <2>3. CASE j = n
      <3>0. dfs'[n].idx = dfs[n].idx /\ n \in 1 .. n
        BY <1>1, <1>4
      <3>1. CASE i = Top.i
        BY <1>1, <1>2, <2>3, <3>0, <3>1 DEF e
      <3>2. CASE i # Top.i
        <4>1. i \in 1 .. dfs[n].i - 1 /\ i <= Len(w.imports[deps[dfs[n].idx]])
          BY <1>1, <1>4, <1>8, <2>3, <3>0, <3>2
        <4> QED
          BY <1>1, <1>p, <2>3, <3>0, <4>1
      <3> QED
        BY <3>1, <3>2
    <2> QED
      BY <1>1, <2>2, <2>3
  <1>10. Deps' = Deps
    BY <1>3 DEF Deps
  <1> QED
    BY <1>3, <1>4, <1>5, <1>8, <1>10 DEF SearchInv

(* A module is left when all its edges have been passed.                   *)
LEMMA LeaveSearch ==
    ASSUME LoaderTypeOK, CollectInv, SearchInv, DagLeave
    PROVE  /\ SearchInv'
           /\ \A i \in 1 .. Len(w.imports[deps[Top.idx]]) : Edge(w, deps, Top.idx, i) \in Blacks
           /\ Top.idx \in Deps \ Blacks
  <1> DEFINE n == Len(dfs)
             v == Top.idx
  <1>0. stage = "dag" /\ dfs # <<>> /\ Top.i > Len(TopEdges)
    BY DEF DagLeave
  <1>1. /\ AllLoaded /\ colour \in [Deps -> {White, Grey, Black}]
        /\ n \in Nat \ {0} /\ Top = dfs[n] /\ v \in Deps /\ Top.i \in Nat
        /\ w.imports[deps[v]] \in Seq(Known)
        /\ Top.i > Len(w.imports[deps[v]])
        /\ \A j \in 1 .. n : dfs[j].idx \in Deps /\ dfs[j].i \in Nat \ {0}
    BY <1>0, DagContext, TopFacts, EdgeFacts DEF TopEdges
  <1>2. UNCHANGED <<w, deps, stage>> /\ colour' = [colour EXCEPT ![v] = Black] /\ dfs' = Front(dfs)
    BY DEF DagLeave
  <1>3. /\ Len(dfs') = n - 1 /\ \A j \in 1 .. n - 1 : dfs'[j] = dfs[j]
    BY <1>0, <1>2, FrontFacts DEF LoaderTypeOK
  <1>g. \A k \in Deps : colour[k] = Grey <=> \E j \in 1 .. n : dfs[j].idx = k
    BY <1>0 DEF SearchInv
  <1>d. \A j, k \in 1 .. n : dfs[j].idx = dfs[k].idx => j = k
    BY <1>0 DEF SearchInv
  <1>p. \A j \in 1 .. n : \A i \in 1 .. dfs[j].i - 1 :
          i <= Len(w.imports[deps[dfs[j].idx]]) =>
              \/ colour[Edge(w, deps, dfs[j].idx, i)] = Black
              \/ j < n /\ Edge(w, deps, dfs[j].idx, i) = dfs[j + 1].idx
    BY <1>0 DEF SearchInv
  <1>r. \A j, k \in 1 .. n : j < k => deps[dfs[k].idx] \in Reach(w, ToSet(w.imports[deps[dfs[j].idx]]))
    BY <1>0 DEF SearchInv
  <1> HIDE DEF n, v
  <1>4. colour[v] = Grey /\ dfs[n].idx = v /\ n \in 1 .. n
    BY <1>1, <1>g DEF v
  <1>5. ASSUME NEW i \in 1 .. Len(w.imports[deps[v]]) PROVE Edge(w, deps, v, i) \in Blacks
    <2>0. Len(w.imports[deps[v]]) \in Nat
      BY <1>1
    <2>1. i \in 1 .. dfs[n].i - 1 /\ i <= Len(w.imports[deps[v]])
      BY <1>1, <2>0
    <2>2. colour[Edge(w, deps, v, i)] = Black
      BY <1>1, <1>4, <1>p, <2>1
    <2>3. Edge(w, deps, v, i) \in Deps
      BY <1>1, EdgeFacts
    <2> QED
      BY <2>2, <2>3 DEF Blacks
  <1>6. v \in Deps \ Blacks
    BY <1>1, <1>4 DEF Blacks, Grey, Black
  <1>7. \A k \in Deps : colour'[k] = Grey <=> \E j \in 1 .. n - 1 : dfs'[j].idx = k
    <2> SUFFICES ASSUME NEW k \in Deps
                 PROVE  colour'[k] = Grey <=> \E j \in 1 .. n - 1 : dfs'[j].idx = k
      OBVIOUS
    <2>1. CASE k = v
      <3>1. colour'[k] # Grey
        BY <1>1, <1>2, <2>1 DEF Grey, Black
      <3>2. \A j \in 1 .. n - 1 : dfs[j].idx # v
        BY <1>1, <1>4, <1>d
      <3> QED
        BY <1>3, <2>1, <3>1, <3>2
    <2>2. CASE k # v
      <3>1. colour'[k] = colour[k]
        BY <1>1, <1>2, <2>2
      <3>2. (\E j \in 1 .. n - 1 : dfs'[j].idx = k) <=> \E j \in 1 .. n : dfs[j].idx = k
        <4>1. \A j \in 1 .. n - 1 : j \in 1 .. n /\ (dfs'[j].idx = k <=> dfs[j].idx = k)
          BY <1>1, <1>3
        <4>2. \A j \in 1 .. n : dfs[j].idx = k => j \in 1 .. n - 1
          BY <1>1, <1>4, <2>2
        <4> QED
          BY <4>1, <4>2
      <3> QED
        BY <3>1, <3>2, <1>g
    <2> QED
      BY <2>1, <2>2
  <1>8. \A j, k \in 1 .. n - 1 : dfs'[j].idx = dfs'[k].idx => j = k
    BY <1>1, <1>3, <1>d
  <1>9. ASSUME NEW j \in 1 .. n - 1, NEW i \in 1 .. dfs'[j].i - 1,
               i <= Len(w.imports[deps[dfs'[j].idx]])
        PROVE  \/ colour'[Edge(w, deps, dfs'[j].idx, i)] = Black
               \/ j < n - 1 /\ Edge(w, deps, dfs'[j].idx, i) = dfs'[j + 1].idx
    <2>1. j \in 1 .. n /\ dfs'[j] = dfs[j] /\ w.imports[deps[dfs[j].idx]] \in Seq(Known)
      BY <1>1, <1>3, EdgeFacts
    <2>2. i \in 1 .. dfs[j].i - 1 /\ i <= Len(w.imports[deps[dfs[j].idx]])
      BY <1>9, <2>1
    <2>3. i \in 1 .. Len(w.imports[deps[dfs[j].idx]])
      BY <2>1, <2>2
    <2>4. Edge(w, deps, dfs[j].idx, i) \in Deps
      BY <1>1, <2>1, <2>3, EdgeFacts
    <2>5. CASE colour[Edge(w, deps, dfs[j].idx, i)] = Black
      BY <1>1, <1>2, <2>1, <2>4, <2>5
    <2>6. CASE j < n /\ Edge(w, deps, dfs[j].idx, i) = dfs[j + 1].idx
      <3>1. CASE j + 1 = n
        BY <1>1, <1>2, <1>4, <2>1, <2>4, <2>6, <3>1
      <3>2. CASE j + 1 # n
        BY <1>1, <1>3, <2>1, <2>6, <3>2
      <3> QED
        BY <3>1, <3>2
    <2> QED
      BY <1>p, <2>1, <2>2, <2>5, <2>6
  <1>10. \A j, k \in 1 .. n - 1 : j < k =>
            deps[dfs'[k].idx] \in Reach(w, ToSet(w.imports[deps[dfs'[j].idx]]))
    BY <1>1, <1>3, <1>r
  <1>11. Deps' = Deps
    BY <1>2 DEF Deps
  <1>12. SearchInv'
    BY <1>2, <1>3, <1>7, <1>8, <1>9, <1>10, <1>11 DEF SearchInv
  <1> QED
    BY <1>5, <1>6, <1>12 DEF v

(* Steps before the search and after it.                                   *)
LEMMA StepSearch == LoaderTypeOK /\ CollectInv /\ SearchInv /\ [Next]_vars => SearchInv'
  <1> SUFFICES ASSUME LoaderTypeOK, CollectInv, SearchInv, [Next]_vars PROVE SearchInv'
    OBVIOUS
  <1>1. CASE stage' # "dag"
    BY <1>1 DEF SearchInv
  <1>2. CASE EndModule
    <2>1. dfs' = <<>> /\ colour' = [k \in Deps' |-> White]
      BY <1>2 DEF EndModule, LoaderTypeOK, Deps
    <2>2. Len(dfs') = 0 /\ \A k \in Deps' : colour'[k] # Grey
      BY <2>1 DEF White, Grey
    <2> QED
      BY <2>2 DEF SearchInv
  <1>3. CASE DagRoot /\ stage' = "dag"
    <2>1. PICK k \in Deps : /\ colour[k] = White
                            /\ dfs' = <<Node(k)>>
                            /\ colour' = [colour EXCEPT ![k] = Grey]
      BY <1>3 DEF DagRoot, Deps
    <2>2. stage = "dag" /\ Len(dfs) = 0 /\ Deps' = Deps
      BY <1>3 DEF DagRoot, Deps
    <2>3. Len(dfs') = 1 /\ dfs'[1].idx = k /\ dfs'[1].i = 1
      BY <2>1 DEF Node
    <2>4. \A x \in Deps : colour[x] # Grey
      BY <2>2 DEF SearchInv
    <2>5. \A x \in Deps : colour'[x] = Grey <=> x = k
      BY <2>1, <2>2, <2>4 DEF LoaderTypeOK
    <2>6. \A x \in Deps' : colour'[x] = Grey <=> \E j \in 1 .. Len(dfs') : dfs'[j].idx = x
      BY <2>2, <2>3, <2>5
    <2> QED
      BY <2>3, <2>6 DEF SearchInv
  <1>4. CASE DagEdge
    BY <1>1, <1>4, DagEdgeCases, DescendSearch, PassSearch DEF DagEdge, ClosesCycle, Halt
  <1>5. CASE DagLeave
    BY <1>5, LeaveSearch
  <1>6. CASE UNCHANGED vars
    BY <1>6 DEF vars, SearchInv, Deps
  <1>7. CASE Import \/ ReadFreed \/ Place
    <2>1. stage' # "dag"
      BY <1>7 DEF Import, ReadFreed, Place, Halt, Loads
    <2> QED
      BY <1>1, <2>1
  <1> QED
    BY <1>1, <1>2, <1>3, <1>4, <1>5, <1>6, <1>7 DEF Next, Step

-----------------------------------------------------------------------------

(* Nothing turns black or changes in a step that keeps the colours.        *)
LEMMA BlackKept ==
    ASSUME BlackInv, stage \in {"dag", "order", "ok"}, UNCHANGED <<w, deps>>, Blacks' = Blacks,
           stage' \notin {"order", "ok"} \/ Blacks = Deps
    PROVE  BlackInv'
  <1>1. Deps' = Deps
    BY DEF Deps
  <1> QED
    BY <1>1 DEF BlackInv

(* A module all of whose imports are black cannot be reached from them, so *)
(* it joins the black ones without closing a cycle.                        *)
LEMMA LeaveBlack ==
    ASSUME LoaderTypeOK, CollectInv, SearchInv, BlackInv, DagLeave
    PROVE  BlackInv'
  <1> DEFINE v == Top.idx
             B == Blacks
             E(k) == {Edge(w, deps, k, i) : i \in 1 .. Len(w.imports[deps[k]])}
  <1>0. stage = "dag" /\ dfs # <<>> /\ UNCHANGED <<w, deps, stage>> /\ colour' = [colour EXCEPT ![v] = Black]
    BY DEF DagLeave
  <1>1. AllLoaded /\ colour \in [Deps -> {White, Grey, Black}] /\ B \subseteq Deps
    BY <1>0, DagContext
  <1>2. v \in Deps \ B /\ \A i \in 1 .. Len(w.imports[deps[v]]) : Edge(w, deps, v, i) \in B
    BY LeaveSearch
  <1>3. Deps' = Deps /\ Blacks' = B \cup {v}
    BY <1>0, <1>1, <1>2 DEF Blacks, Deps
  <1>b. /\ \A k \in B : \A i \in 1 .. Len(w.imports[deps[k]]) : Edge(w, deps, k, i) \in B
        /\ \A k \in B : ~Cyclic(w, deps[k])
        /\ \A U \in SUBSET B : U # {} => \E k \in U : ~Uses(w, deps, k, U)
    BY <1>0 DEF BlackInv
  <1> HIDE DEF v, B
  <1>4. \A k \in B \cup {v} : \A i \in 1 .. Len(w.imports[deps[k]]) : Edge(w, deps, k, i) \in B \cup {v}
    BY <1>2, <1>b
  <1>5. ~Cyclic(w, deps[v])
    <2>1. ToSet(w.imports[deps[v]]) \subseteq {deps[k] : k \in B}
      BY <1>1, <1>2, ImportIsEdge
    <2>2. Reach(w, ToSet(w.imports[deps[v]])) \subseteq {deps[k] : k \in B}
      BY <1>1, <1>b, <2>1, ReachedInside
    <2>3. deps[v] \notin {deps[k] : k \in B}
      BY <1>1, <1>2 DEF CollectInv
    <2> QED
      BY <2>2, <2>3 DEF Cyclic
  <1>6. ASSUME NEW U \in SUBSET (B \cup {v}), U # {}
        PROVE  \E k \in U : ~Uses(w, deps, k, U)
    <2>1. CASE U \cap B = {}
      <3>1. U = {v}
        BY <1>6, <2>1
      <3> QED
        BY <1>2, <3>1 DEF Uses
    <2>2. CASE U \cap B # {}
      <3>1. PICK k \in U \cap B : ~Uses(w, deps, k, U \cap B)
        BY <1>b, <2>2
      <3>2. ~Uses(w, deps, k, U)
        BY <1>b, <3>1 DEF Uses
      <3> QED
        BY <3>1, <3>2
    <2> QED
      BY <2>1, <2>2
  <1>7. /\ \A k \in Blacks' : \A i \in 1 .. Len(w'.imports[deps'[k]]) : Edge(w', deps', k, i) \in Blacks'
        /\ \A k \in Blacks' : ~Cyclic(w', deps'[k])
    BY <1>0, <1>3, <1>4, <1>5, <1>b
  <1>8. \A U \in SUBSET Blacks' : U # {} => \E k \in U : ~Uses(w', deps', k, U)
    BY <1>0, <1>3, <1>6
  <1> QED
    BY <1>0, <1>7, <1>8 DEF BlackInv

LEMMA StepBlack == LoaderTypeOK /\ CollectInv /\ SearchInv /\ BlackInv /\ [Next]_vars => BlackInv'
  <1> SUFFICES ASSUME LoaderTypeOK, CollectInv, SearchInv, BlackInv, [Next]_vars PROVE BlackInv'
    OBVIOUS
  <1>1. CASE stage' \notin {"dag", "order", "ok"}
    BY <1>1 DEF BlackInv
  <1>2. CASE EndModule
    <2>1. Blacks' = {}
      BY <1>2 DEF EndModule, Blacks, Deps, White, Black
    <2>2. stage' \in {"collect", "dag"}
      BY <1>2 DEF EndModule
    <2> QED
      BY <2>1, <2>2 DEF BlackInv
  <1>3. CASE DagRoot
    <2>0. stage = "dag" /\ dfs = <<>> /\ UNCHANGED <<w, deps>> /\ Deps' = Deps
      BY <1>3 DEF DagRoot, Deps
    <2>1. CASE \E k \in Deps : /\ colour[k] = White
                               /\ colour' = [colour EXCEPT ![k] = Grey]
                               /\ UNCHANGED stage
      <3>1. Blacks' = Blacks
        BY <2>0, <2>1 DEF Blacks, LoaderTypeOK, White, Grey, Black
      <3> QED
        BY <2>0, <2>1, <3>1, BlackKept
    <2>2. CASE /\ \A k \in Deps : colour[k] # White
               /\ stage' = "order" /\ UNCHANGED colour
      <3>1. \A k \in Deps : colour[k] # Grey
        BY <2>0 DEF SearchInv
      <3>2. Blacks = Deps /\ Blacks' = Blacks
        BY <2>0, <2>2, <3>1 DEF LoaderTypeOK, Blacks
      <3> QED
        BY <2>0, <3>2, BlackKept
    <2> QED
      BY <1>3, <2>1, <2>2 DEF DagRoot, Deps
  <1>4. CASE DagEdge
    <2>0. stage = "dag" /\ dfs # <<>> /\ Top.i <= Len(TopEdges)
      BY <1>4 DEF DagEdge
    <2>1. CASE ClosesCycle
      BY <1>1, <2>1 DEF ClosesCycle, Halt
    <2>2. CASE Descends
      <3>1. /\ stage' = stage /\ UNCHANGED <<w, deps>>
            /\ colour[Edge(w, deps, Top.idx, Top.i)] = White
            /\ colour' = [colour EXCEPT ![Edge(w, deps, Top.idx, Top.i)] = Grey]
        BY <2>2 DEF Descends
      <3>2. Blacks' = Blacks
        BY <2>0, <3>1 DEF Blacks, Deps, LoaderTypeOK, White, Grey, Black
      <3> QED
        BY <2>0, <3>1, <3>2, BlackKept
    <2>3. CASE PassesEdge
      <3>1. stage' = stage /\ UNCHANGED <<w, deps, colour>>
        BY <2>3 DEF PassesEdge
      <3>2. Blacks' = Blacks
        BY <3>1 DEF Blacks, Deps
      <3> QED
        BY <2>0, <3>1, <3>2, BlackKept
    <2> QED
      BY <1>4, <2>1, <2>2, <2>3, DagEdgeCases
  <1>5. CASE DagLeave
    BY <1>5, LeaveBlack
  <1>6. CASE Place \/ UNCHANGED vars
    <2>1. UNCHANGED <<w, deps, colour>> /\ (stage' = stage \/ stage = "order")
      BY <1>6 DEF Place, Halt, vars
    <2>2. Blacks' = Blacks
      BY <2>1 DEF Blacks, Deps
    <2> QED
      BY <1>1, <2>1, <2>2, BlackKept DEF BlackInv
  <1>7. CASE Import \/ ReadFreed
    <2>1. stage' \notin {"dag", "order", "ok"}
      BY <1>7, ImportCases DEF Import, ReadFreed, Halt, Refused, Passes, Loads
    <2> QED
      BY <1>1, <2>1
  <1> QED
    BY <1>1, <1>2, <1>3, <1>4, <1>5, <1>6, <1>7 DEF Next, Step

-----------------------------------------------------------------------------

(* As no module is placed twice, all are placed exactly when the order is  *)
(* as long as the dependencies.                                            *)
LEMMA OrderCount ==
    ASSUME LoaderTypeOK, \A j, k \in 1 .. Len(order) : order[j] = order[k] => j = k
    PROVE  Len(order) = Len(deps) <=> Deps \subseteq Placed
  <1> DEFINE S == 1 .. Len(order)
  <1>1. Len(order) \in Nat /\ Len(deps) \in Nat /\ DOMAIN order = S /\ order \in [S -> Deps]
    BY DEF LoaderTypeOK
  <1>2. order \in Injection(S, Deps)
    BY <1>1 DEF Injection, IsInjective
  <1>3. IsFiniteSet(Deps) /\ Cardinality(Deps) = Len(deps) /\ Cardinality(S) = Len(order)
    <2>1. \A n \in Nat : IsFiniteSet(1 .. n) /\ Cardinality(1 .. n) = n
      <3>1. ASSUME NEW n \in Nat PROVE IsFiniteSet(1 .. n) /\ Cardinality(1 .. n) = IF 1 > n THEN 0 ELSE n - 1 + 1
        BY FS_Interval
      <3> QED
        BY <3>1
    <2> QED
      BY <1>1, <2>1 DEF Deps
  <1>4. Cardinality(S) = Cardinality(Deps) <=> order \in Surjection(S, Deps)
    BY <1>2, <1>3, FS_Injection
  <1>5. order \in Surjection(S, Deps) <=> \A k \in Deps : \E j \in S : order[j] = k
    BY <1>1 DEF Surjection
  <1>6. \A k : k \in Placed <=> \E j \in S : order[j] = k
    BY <1>1 DEF Placed, ToSet
  <1> HIDE DEF S
  <1> QED
    BY <1>3, <1>4, <1>5, <1>6

(* While a module is missing, one of the missing has no missing import.    *)
LEMMA SomeReady ==
    ASSUME LoaderTypeOK, CollectInv, BlackInv, OrderInv, stage = "order", Len(order) # Len(deps)
    PROVE  \E k \in Deps : Ready(k)
  <1> DEFINE U == Deps \ Placed
  <1>1. AllLoaded /\ Blacks = Deps
    BY DagContext DEF BlackInv
  <1>2. \A V \in SUBSET Deps : V # {} => \E k \in V : ~Uses(w, deps, k, V)
    BY <1>1 DEF BlackInv
  <1>3. U # {}
    BY OrderCount DEF OrderInv
  <1>4. PICK k \in U : ~Uses(w, deps, k, U)
    BY <1>2, <1>3
  <1>5. ASSUME NEW i \in 1 .. Len(w.imports[deps[k]]) PROVE IndexOf(w.imports[deps[k]][i]) \in Placed
    <2>1. Edge(w, deps, k, i) \in Deps /\ Edge(w, deps, k, i) \notin U
      BY <1>1, <1>4, EdgeFacts DEF Uses
    <2> QED
      BY <2>1 DEF Edge, IndexOf
  <1> QED
    BY <1>4, <1>5 DEF Ready

(* One module is placed, after what it imports.                            *)
LEMMA PlaceOrder ==
    ASSUME LoaderTypeOK, CollectInv, OrderInv, stage = "order", NEW k \in Deps, Ready(k),
           order' = Append(order, k), UNCHANGED <<w, deps, stage>>
    PROVE  OrderInv'
  <1> DEFINE n == Len(order)
  <1>1. /\ AllLoaded /\ n \in Nat /\ order \in Seq(Deps) /\ DOMAIN order = 1 .. n
        /\ \A j \in 1 .. n : order[j] \in Deps
    BY DagContext DEF LoaderTypeOK
  <1>2. Len(order') = n + 1 /\ order'[n + 1] = k /\ \A j \in 1 .. n : order'[j] = order[j]
    BY <1>1
  <1>3. \A x : x \in Placed <=> \E j \in 1 .. n : order[j] = x
    BY <1>1 DEF Placed, ToSet
  <1>4. /\ \A i, j \in 1 .. n : order[i] = order[j] => i = j
        /\ \A i \in 1 .. n : \A m \in ToSet(w.imports[deps[order[i]]]) :
              \E j \in 1 .. i - 1 : deps[order[j]] = m
    BY DEF OrderInv, ImportSet
  <1> HIDE DEF n
  <1>5. \A i, j \in 1 .. n + 1 : order'[i] = order'[j] => i = j
    <2>1. \A j \in 1 .. n : order[j] # k
      BY <1>3 DEF Ready
    <2> QED
      BY <1>1, <1>2, <1>4, <2>1
  <1>6. ASSUME NEW i \in 1 .. n + 1, NEW m \in ToSet(w.imports[deps[order'[i]]])
        PROVE  \E j \in 1 .. i - 1 : deps[order'[j]] = m
    <2>1. CASE i # n + 1
      <3>1. i \in 1 .. n /\ order'[i] = order[i]
        BY <1>1, <1>2, <2>1
      <3>2. PICK j \in 1 .. i - 1 : deps[order[j]] = m
        BY <1>4, <1>6, <3>1
      <3>3. j \in 1 .. n
        BY <1>1, <3>1
      <3> QED
        BY <1>2, <3>2, <3>3
    <2>2. CASE i = n + 1
      <3>1. m \in ToSet(w.imports[deps[k]])
        BY <1>2, <1>6, <2>2
      <3>2. PICK x \in 1 .. Len(w.imports[deps[k]]) : m = deps[Edge(w, deps, k, x)]
        BY <1>1, <3>1, ImportIsEdge
      <3>3. Edge(w, deps, k, x) \in Placed
        BY DEF Ready, Edge, IndexOf
      <3>4. PICK j \in 1 .. n : order[j] = Edge(w, deps, k, x)
        BY <1>3, <3>3
      <3>5. j \in 1 .. i - 1 /\ order'[j] = order[j]
        BY <1>1, <1>2, <2>2
      <3> QED
        BY <3>2, <3>4, <3>5
    <2> QED
      BY <2>1, <2>2
  <1>7. /\ \A i, j \in 1 .. Len(order') : order'[i] = order'[j] => i = j
        /\ \A i \in 1 .. Len(order') : \A m \in ToSet(w'.imports[deps'[order'[i]]]) :
              \E j \in 1 .. i - 1 : deps'[order'[j]] = m
    <2>1. Len(order') = n + 1 /\ w' = w /\ deps' = deps
      BY <1>2
    <2>2. \A i, j \in 1 .. Len(order') : order'[i] = order'[j] => i = j
      BY <1>5, <2>1
    <2>3. ASSUME NEW i \in 1 .. Len(order'), NEW m \in ToSet(w'.imports[deps'[order'[i]]])
          PROVE  \E j \in 1 .. i - 1 : deps'[order'[j]] = m
      <3>1. i \in 1 .. n + 1 /\ m \in ToSet(w.imports[deps[order'[i]]])
        BY <2>1, <2>3
      <3>2. \E j \in 1 .. i - 1 : deps[order'[j]] = m
        BY <1>6, <3>1
      <3> QED
        BY <2>1, <3>2
    <2> QED
      BY <2>2, <2>3
  <1> QED
    BY <1>7 DEF OrderInv, ImportSet

LEMMA StepOrder ==
    LoaderTypeOK /\ CollectInv /\ BlackInv /\ OrderInv /\ [Next]_vars => OrderInv'
  <1> SUFFICES ASSUME LoaderTypeOK, CollectInv, BlackInv, OrderInv, [Next]_vars,
                      stage' \in {"order", "ok"}
               PROVE  OrderInv'
    BY DEF OrderInv
  <1>1. CASE DagRoot
    <2>1. order' = <<>> /\ stage' # "ok"
      BY <1>1 DEF DagRoot, LoaderTypeOK
    <2>2. Len(order') = 0
      BY <2>1
    <2> QED
      BY <2>1, <2>2 DEF OrderInv
  <1>2. CASE Place
    <2>1. stage = "order"
      BY <1>2 DEF Place
    <2>2. CASE Len(order) = Len(deps)
      BY <1>2, <2>1, <2>2 DEF Place, Halt, OrderInv, ImportSet
    <2>3. CASE Len(order) # Len(deps)
      <3>1. PICK k \in Deps : Ready(k)
        BY <2>1, <2>3, SomeReady
      <3>2. \E x \in Deps : Ready(x) /\ order' = Append(order, x) /\ UNCHANGED <<w, deps, stage>>
        BY <1>2, <2>3, <3>1 DEF Place, Deps
      <3> QED
        BY <2>1, <3>2, PlaceOrder
    <2> QED
      BY <2>2, <2>3
  <1>3. CASE UNCHANGED vars
    <2>1. w' = w /\ deps' = deps /\ order' = order /\ stage' = stage
      BY <1>3 DEF vars
    <2> QED
      BY <2>1 DEF OrderInv, ImportSet
  <1>4. CASE Import \/ ReadFreed \/ EndModule \/ DagEdge \/ DagLeave
    <2>1. stage' \notin {"order", "ok"}
      BY <1>4, ImportCases, DagEdgeCases
         DEF Import, ReadFreed, EndModule, DagEdge, DagLeave, Halt, Refused, Passes, Loads,
             ClosesCycle, Descends, PassesEdge
    <2> QED
      BY <2>1
  <1> QED
    BY <1>1, <1>2, <1>3, <1>4 DEF Next, Step

-----------------------------------------------------------------------------

(* An index that is not the last lies below it; one up to n is in range.   *)
LEMMA Ranges ==
    /\ \A n \in Nat \ {0} : \A j \in 1 .. n : n \in 1 .. n /\ (j # n => j < n)
    /\ \A n \in Nat : \A i \in Nat \ {0} : i <= n => i \in 1 .. n
    /\ \A S : \A s \in Seq(S) : Len(s) \in Nat
  OBVIOUS

(* A diagnostic about a cycle comes from an import of the module itself or *)
(* from an edge back to the path that led to it: both close a cycle.       *)
LEMMA StepCycle == LoaderInv /\ [Next]_vars => CycleInv'
  <1> SUFFICES ASSUME LoaderTypeOK, CollectInv, SearchInv, BlackInv, OrderInv, CycleInv,
                      [Next]_vars, stage' = "circular import"
               PROVE  CycleInv'
    BY DEF CycleInv, LoaderInv
  <1>0. ASSUME UNCHANGED <<w>>, \E m \in Needed \cup {Entry} : Cyclic(w, m)
        PROVE  CycleInv'
    <2>1. Needed = Reach(w, ToSet(w.imports[Entry]))
      BY ReachIs DEF Needed
    <2> QED
      BY <1>0, <2>1 DEF CycleInv
  <1>1. CASE Import
    <2>1. calls # <<>> /\ stage = "collect" /\ SelfImport /\ UNCHANGED <<w>> /\ Cursor <= Len(Imports)
      BY <1>1, ImportCases DEF Import, Refused, Passes, Loads, Halt
    <2>2. Imports[Cursor] = Mod(deps, Current.k) /\ Imports[Cursor] \in ImportSet(Mod(deps, Current.k))
             /\ Mod(deps, Current.k) \in Known /\ w \in Worlds
      BY <2>1, CurrentFacts, ImportIsNeeded DEF SelfImport, LoaderTypeOK
    <2>3. ImportSet(Mod(deps, Current.k)) \in SUBSET Known
      BY <2>2, WorldFacts
    <2>4. OnCycle(Mod(deps, Current.k))
      BY <2>2, <2>3, ReachedCarries DEF OnCycle, ImportSet
    <2>5. Mod(deps, Current.k) \in Needed
      BY <2>1, <2>2, ImportIsNeeded
    <2> QED
      BY <1>0, <2>1, <2>4, <2>5, ReachIs
  <1>2. CASE DagEdge
    <2>1. stage = "dag" /\ dfs # <<>> /\ Top.i <= Len(TopEdges)
      BY <1>2 DEF DagEdge
    <2>2. CASE ClosesCycle
      <3> DEFINE e == Edge(w, deps, Top.idx, Top.i)
      <3>a. AllLoaded
        BY <2>1, DagContext
      <3>b. Top.idx \in Deps /\ Len(dfs) \in Nat \ {0} /\ Top = dfs[Len(dfs)] /\ Top.i \in Nat \ {0}
        BY <2>1, TopFacts
      <3>c. Top.i <= Len(w.imports[deps[Top.idx]])
        BY <2>1 DEF TopEdges
      <3>d. Top.i \in 1 .. Len(w.imports[deps[Top.idx]])
        <4> HIDE DEF Top
        <4>1. Len(w.imports[deps[Top.idx]]) \in Nat
          <5>1. w.imports[deps[Top.idx]] \in Seq(Known)
            BY <3>a, <3>b, EdgeFacts, Zenon
          <5> QED
            BY <5>1, Ranges, Zenon
        <4> QED
          BY <3>b, <3>c, <4>1, Ranges, Zenon
      <3>1. AllLoaded /\ Top.idx \in Deps /\ Top.i \in 1 .. Len(w.imports[deps[Top.idx]])
                /\ Len(dfs) \in Nat \ {0} /\ Top = dfs[Len(dfs)]
        BY <3>a, <3>b, <3>d
      <3>2. e \in Deps /\ colour[e] = Grey /\ UNCHANGED <<w>>
        BY <2>2, <3>1, EdgeFacts DEF ClosesCycle, OnPath, Halt
      <3>3. PICK j \in 1 .. Len(dfs) : dfs[j].idx = e
        BY <2>1, <3>2 DEF SearchInv
      <3>4. deps[Top.idx] = deps[e] \/ deps[Top.idx] \in Reach(w, ToSet(w.imports[deps[e]]))
        <4>1. CASE j = Len(dfs)
          BY <3>1, <3>3, <4>1
        <4>2. CASE j # Len(dfs)
          <5>1. j < Len(dfs) /\ Len(dfs) \in 1 .. Len(dfs)
            BY <3>b, <3>3, <4>2, Ranges, Zenon
          <5> QED
            BY <2>1, <3>1, <3>3, <5>1 DEF SearchInv
        <4> QED
          BY <4>1, <4>2
      <3>5. Cyclic(w, deps[e])
        BY <3>1, <3>2, <3>4, ReachedOn DEF Cyclic
      <3>6. deps[e] \in Needed
        BY <3>2 DEF CollectInv
      <3> QED
        BY <1>0, <3>2, <3>5, <3>6
    <2> QED
      BY <1>2, <2>1, <2>2, DagEdgeCases DEF Descends, PassesEdge
  <1>3. CASE Place
    <2>1. stage = "order" /\ Len(order) # Len(deps)
      BY <1>3 DEF Place, Halt
    <2>2. PICK k \in Deps : Ready(k)
      BY <2>1, SomeReady
    <2>3. UNCHANGED stage
      BY <1>3, <2>1, <2>2 DEF Place, Deps
    <2> QED
      BY <2>1, <2>3
  <1>4. CASE UNCHANGED vars
    BY <1>4 DEF vars, CycleInv
  <1>5. CASE ReadFreed \/ EndModule \/ DagRoot \/ DagLeave
    BY <1>5 DEF ReadFreed, EndModule, DagRoot, DagLeave, Halt
  <1> QED
    BY <1>1, <1>2, <1>3, <1>4, <1>5 DEF Next, Step

-----------------------------------------------------------------------------

(* The loader starts with nothing loaded and the entry on the C stack.     *)
LEMMA InitLoader == Init => LoaderInv
  <1> SUFFICES ASSUME Init PROVE LoaderInv
    OBVIOUS
  <1>1. LoaderTypeOK
    BY InitLoaderTypes
  <1>2. calls = <<[ptr |-> EntryPtr, i |-> 1]>> /\ deps = <<>> /\ stage = "collect"
    BY DEF Init
  <1>3. Len(calls) = 1 /\ calls[1].ptr.k = 0 /\ calls[1].i = 1 /\ Len(deps) = 0
    BY <1>2 DEF EntryPtr
  <1>4. CollectInv
    <2>1. Deps = {} /\ 1 .. calls[1].i - 1 = {} /\ 0 .. Len(deps) = {0} /\ 1 .. Len(calls) = {1}
      BY <1>3 DEF Deps
    <2> QED
      BY <1>3, <2>1 DEF CollectInv
  <1> QED
    BY <1>1, <1>2, <1>4 DEF LoaderInv, SearchInv, BlackInv, OrderInv, CycleInv

LEMMA StepLoader == LoaderInv /\ [Next]_vars => LoaderInv'
  BY StepLoaderTypes, StepCollect, StepSearch, StepBlack, StepOrder, StepCycle DEF LoaderInv

LEMMA LoaderInvariant == Spec => []LoaderInv
  BY InitLoader, StepLoader, PTL DEF Spec

(* When the C recursion is over, no needed module is missing.              *)
LEMMA AllNeeded ==
    ASSUME LoaderTypeOK, CollectInv, stage \in {"dag", "order", "ok"}
    PROVE  ToSet(deps) = Needed
  <1>1. AllLoaded /\ w \in Worlds
    BY DagContext DEF LoaderTypeOK
  <1>2. ToSet(deps) \in SUBSET Known
    BY DepsFacts
  <1>3. ImportSet(Entry) \subseteq ToSet(deps)
    BY <1>1, DepsFacts DEF AllLoaded, Mod
  <1>4. \A m \in ToSet(deps) : ImportSet(m) \subseteq ToSet(deps)
    <2> SUFFICES ASSUME NEW k \in Deps PROVE ImportSet(deps[k]) \subseteq ToSet(deps)
      BY DepsFacts
    <2>1. k \in 0 .. Len(deps) /\ Mod(deps, k) = deps[k]
      BY DepsFacts DEF Deps, Mod
    <2> QED
      BY <1>1, <2>1 DEF AllLoaded
  <1>5. Carries(ImportSet(Entry), ToSet(deps))
    BY <1>3, <1>4, CarriesWhen
  <1>6. Needed \subseteq ToSet(deps)
    BY <1>2, <1>5, ReachedIsLeast DEF Needed, ImportSet
  <1>7. ToSet(deps) \subseteq Needed
    BY DepsFacts DEF CollectInv
  <1> QED
    BY <1>6, <1>7

(* The pointers, cursors, colours and positions of the loader stay in      *)
(* range in every world: whatever the imports are, a cursor of the C       *)
(* recursion points to a loaded module, and the array, the stacks and the  *)
(* order hold what the later stages index them with.                       *)
THEOREM LoaderTypeCorrect == Spec => []LoaderTypeOK
  BY LoaderInvariant, PTL DEF LoaderInv

(* tc_collect_imports_recursive loads every module once, and when it ends  *)
(* without a diagnostic it has loaded exactly the modules the entry needs. *)
THEOREM LoadsTheNeeded == Spec => []CollectsTheNeeded
  <1>1. LoaderInv => CollectsTheNeeded
    BY AllNeeded DEF LoaderInv, CollectInv, CollectsTheNeeded, Deps
  <1> QED
    BY <1>1, LoaderInvariant, PTL

(* A circular import is reported exactly when a needed module or the entry *)
(* imports itself, by the self-import guard or the three-colour search;    *)
(* the ordering loop never reports one.                                    *)
THEOREM ReportsTheCycles == Spec => []CycleVerdict
  <1>1. ASSUME LoaderInv, stage = "circular import"
        PROVE  \E m \in Needed \cup {Entry} : OnCycle(m)
    BY <1>1, ReachIs DEF LoaderInv, CycleInv, Needed
  <1>2. ASSUME LoaderInv, stage \in {"order", "ok"}
        PROVE  \A m \in Needed \cup {Entry} : ~OnCycle(m)
    <2>1. \A m \in Needed : ~OnCycle(m)
      <3>1. \A m \in Needed : \E k \in Deps : deps[k] = m
        BY <1>2, AllNeeded, DepsFacts DEF LoaderInv
      <3>2. \A k \in Deps : ~Cyclic(w, deps[k])
        BY <1>2 DEF LoaderInv, BlackInv
      <3> QED
        BY <3>1, <3>2, ReachIs
    <2>2. OnCycle(Entry) => Entry \in Needed
      BY DEF OnCycle, Needed
    <2> QED
      BY <2>1, <2>2
  <1>3. LoaderInv => CycleVerdict
    BY <1>1, <1>2 DEF CycleVerdict
  <1> QED
    BY <1>3, LoaderInvariant, PTL

(* When import resolution succeeds, tc_module_topological_dep_order has    *)
(* listed every dependency once, after all the modules it imports.         *)
THEOREM OrdersImporteesFirst == Spec => []ImporteesFirst
  <1>1. ASSUME LoaderInv, stage = "ok" PROVE {order[k] : k \in 1 .. Len(order)} = 1 .. Len(deps)
    <2>1. DOMAIN order = 1 .. Len(order) /\ \A k \in 1 .. Len(order) : order[k] \in Deps
      BY <1>1 DEF LoaderInv, LoaderTypeOK
    <2>2. Placed = {order[k] : k \in 1 .. Len(order)}
      BY <2>1 DEF Placed, ToSet
    <2>3. Deps \subseteq Placed
      BY <1>1, OrderCount DEF LoaderInv, OrderInv
    <2> QED
      BY <2>1, <2>2, <2>3 DEF Deps
  <1>2. LoaderInv => ImporteesFirst
    BY <1>1 DEF ImporteesFirst, LoaderInv, OrderInv, ImportSet
  <1> QED
    BY <1>2, LoaderInvariant, PTL
=============================================================================
