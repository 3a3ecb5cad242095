---------------------------- MODULE Calls_proofs ----------------------------
(***************************************************************************)
(* Theorems about the recursion check and the calls it lets through, for   *)
(* every program: Tarjan's components are the mutually recursive functions,*)
(* and static parameter slots are then as good as frames.                  *)
(***************************************************************************)
EXTENDS Calls, FiniteSetTheorems, TLAPS

(* The call edges the check sees, as functions of the program.             *)
Arcs(q, x) == IF x \in q.entry THEN q.calls[x] ELSE <<>>
Out(q, x)  == ToSet(Arcs(q, x))
Reach(q, x) ==
    {h \in 1 .. q.n : \A T \in SUBSET (1 .. q.n) :
        (Out(q, x) \subseteq T /\ \A g \in T : Out(q, g) \subseteq T) => h \in T}
Joins(q, x, y) == x = y \/ y \in Reach(q, x)

VisitRecord == [v : Functions, i : Nat \ {0}]

CheckTypeOK ==
    /\ p \in CallPrograms
    /\ index \in [Functions -> Nat] /\ low \in [Functions -> Nat] /\ scc \in [Functions -> Nat]
    /\ stack \in Seq(Functions) /\ visits \in Seq(VisitRecord)
    /\ verdict \in {"none", "accept", "recursion"}
    /\ visits # <<>> => verdict = "none"

(* Functions get their numbers one after the other.                        *)
NumberInv ==
    /\ \A x \in Functions : index[x] < NextIndex /\ (index[x] = 0 => scc[x] = 0)
    /\ \A x, y \in Functions : index[x] = index[y] /\ index[x] # 0 => x = y

(* The Tarjan stack has the numbered functions without a component, by     *)
(* number.                                                                 *)
StackInv ==
    /\ \A x \in Functions : x \in ToSet(stack) <=> index[x] # 0 /\ scc[x] = 0
    /\ \A j, k \in 1 .. Len(stack) : j < k => index[stack[j]] < index[stack[k]]

(* The functions the C recursion is at lead to all on the stack above them,*)
(* and each on the stack leads back to one of them that is not above it.   *)
PathInv ==
    /\ \A j \in 1 .. Len(visits) : visits[j].v \in ToSet(stack)
    /\ \A j, k \in 1 .. Len(visits) : j < k => index[visits[j].v] < index[visits[k].v]
    /\ \A x \in ToSet(stack) : \E j \in 1 .. Len(visits) :
          index[visits[j].v] <= index[x] /\ Joins(p, x, visits[j].v)
    /\ \A x \in ToSet(stack) : \A j \in 1 .. Len(visits) :
          index[visits[j].v] <= index[x] => Joins(p, visits[j].v, x)

(* A lowlink is the number of a function on the stack that is reached.     *)
LowInv == \A j \in 1 .. Len(visits) :
    /\ low[visits[j].v] <= index[visits[j].v]
    /\ \E y \in ToSet(stack) : index[y] = low[visits[j].v] /\ Joins(p, visits[j].v, y)

(* An edge that has been looked at leads to a numbered function; if that is*)
(* on the stack, the lowlinks of the path account for it.                  *)
Seen(vs, x, i) == \A j \in 1 .. Len(vs) : vs[j].v = x => i < vs[j].i
ArcInv == \A x \in ToSet(stack) : \A i \in 1 .. Len(Arcs(p, x)) : Seen(visits, x, i) =>
    /\ index[Arcs(p, x)[i]] # 0
    /\ Arcs(p, x)[i] \in ToSet(stack) =>
          \A j \in 1 .. Len(visits) : index[visits[j].v] <= index[x] =>
              \E k \in j .. Len(visits) : low[visits[k].v] <= index[Arcs(p, x)[i]]

(* A component is named after one of its functions, is closed under calls  *)
(* together with those before it, and is the functions that reach each     *)
(* other.                                                                  *)
DoneInv ==
    /\ \A x \in Functions : scc[x] # 0 =>
          /\ scc[x] \in Functions /\ scc[scc[x]] = scc[x]
          /\ \A y \in Out(p, x) : scc[y] # 0
    /\ \A x, y \in Functions : scc[x] # 0 /\ scc[x] = scc[y] => Joins(p, x, y)
    /\ \A x, y \in Functions : scc[x] # 0 /\ Joins(p, x, y) /\ Joins(p, y, x) => scc[y] = scc[x]

TarjanInv == CheckTypeOK /\ NumberInv /\ StackInv /\ PathInv /\ LowInv /\ ArcInv /\ DoneInv

-----------------------------------------------------------------------------

(* Sequences: members, an appended element, a prefix.                      *)
LEMMA SeqMembers ==
    ASSUME NEW S, NEW s \in Seq(S)
    PROVE  /\ Len(s) \in Nat
           /\ \A k \in 1 .. Len(s) : s[k] \in S /\ s[k] \in ToSet(s)
           /\ \A x : x \in ToSet(s) <=> \E k \in 1 .. Len(s) : s[k] = x
           /\ ToSet(s) \subseteq S
           /\ s # <<>> => Len(s) # 0
           /\ s = <<>> => Len(s) = 0
  BY DEF ToSet

LEMMA SeqAppend ==
    ASSUME NEW S, NEW s \in Seq(S), NEW x \in S
    PROVE  /\ Append(s, x) \in Seq(S) /\ Len(Append(s, x)) = Len(s) + 1
           /\ Append(s, x)[Len(s) + 1] = x
           /\ \A k \in 1 .. Len(s) : Append(s, x)[k] = s[k]
           /\ ToSet(Append(s, x)) = ToSet(s) \cup {x}
  <1>1. Append(s, x) \in Seq(S) /\ Len(Append(s, x)) = Len(s) + 1 /\ Len(s) \in Nat
    OBVIOUS
  <1>2. Append(s, x)[Len(s) + 1] = x /\ \A k \in 1 .. Len(s) : Append(s, x)[k] = s[k]
    OBVIOUS
  <1>3. ASSUME NEW y PROVE y \in ToSet(Append(s, x)) <=> y \in ToSet(s) \cup {x}
    <2>1. y \in ToSet(Append(s, x)) <=> \E k \in 1 .. Len(s) + 1 : Append(s, x)[k] = y
      BY <1>1, SeqMembers
    <2>2. y \in ToSet(s) <=> \E k \in 1 .. Len(s) : s[k] = y
      BY SeqMembers
    <2>3. \A k \in 1 .. Len(s) + 1 : k \in 1 .. Len(s) \/ k = Len(s) + 1
      BY <1>1
    <2>4. Len(s) + 1 \in 1 .. Len(s) + 1 /\ \A k \in 1 .. Len(s) : k \in 1 .. Len(s) + 1
      BY <1>1
    <2> QED
      BY <1>2, <2>1, <2>2, <2>3, <2>4
  <1> QED
    BY <1>1, <1>2, <1>3

LEMMA SeqChange ==
    ASSUME NEW S, NEW s \in Seq(S), NEW m \in 1 .. Len(s), NEW x \in S
    PROVE  [s EXCEPT ![m] = x] \in Seq(S) /\ Len([s EXCEPT ![m] = x]) = Len(s)
  OBVIOUS

LEMMA SeqPrefix ==
    ASSUME NEW S, NEW s \in Seq(S), NEW m \in 0 .. Len(s)
    PROVE  /\ SubSeq(s, 1, m) \in Seq(S) /\ Len(SubSeq(s, 1, m)) = m
           /\ \A k \in 1 .. m : SubSeq(s, 1, m)[k] = s[k]
           /\ \A x : x \in ToSet(SubSeq(s, 1, m)) <=> \E k \in 1 .. m : s[k] = x
  <1>0. Len(s) \in Nat /\ m \in Nat /\ \A k \in 1 .. Len(s) : s[k] \in S
    OBVIOUS
  <1>1. Len(SubSeq(s, 1, m)) = m /\ \A k \in 1 .. m : SubSeq(s, 1, m)[k] = s[k]
    BY <1>0
  <1>2. SubSeq(s, 1, m) \in Seq(S)
    BY <1>0
  <1>3. \A x : x \in ToSet(SubSeq(s, 1, m)) <=> \E k \in 1 .. m : SubSeq(s, 1, m)[k] = x
    <2> DEFINE t == SubSeq(s, 1, m)
    <2>1. t \in Seq(S) /\ Len(t) = m
      BY <1>1, <1>2
    <2> HIDE DEF t
    <2>2. \A x : x \in ToSet(t) <=> \E k \in 1 .. m : t[k] = x
      BY <2>1, SeqMembers
    <2> QED
      BY <2>2 DEF t
  <1> QED
    BY <1>1, <1>2, <1>3

LEMMA SeqFront ==
    ASSUME NEW S, NEW s \in Seq(S), s # <<>>
    PROVE  /\ Len(s) \in Nat \ {0} /\ Last(s) = s[Len(s)] /\ Last(s) \in S
           /\ Front(s) \in Seq(S) /\ Len(Front(s)) = Len(s) - 1
           /\ \A j \in 1 .. Len(s) - 1 : Front(s)[j] = s[j]
  <1>1. Len(s) \in Nat \ {0} /\ Last(s) = s[Len(s)] /\ Last(s) \in S
    BY DEF Last
  <1>2. Len(s) - 1 \in 0 .. Len(s)
    BY <1>1
  <1> DEFINE m == Len(s) - 1
  <1>3. Front(s) = SubSeq(s, 1, m)
    BY DEF Front
  <1>4. /\ SubSeq(s, 1, m) \in Seq(S) /\ Len(SubSeq(s, 1, m)) = m
        /\ \A k \in 1 .. m : SubSeq(s, 1, m)[k] = s[k]
    <2>1. m \in 0 .. Len(s)
      BY <1>2
    <2> HIDE DEF m
    <2> QED
      BY <2>1, SeqPrefix
  <1> QED
    BY <1>1, <1>3, <1>4

-----------------------------------------------------------------------------

(* What the assumption says of the program.                                *)
LEMMA ProgramFacts ==
    ASSUME p \in CallPrograms
    PROVE  /\ p.n \in Nat /\ p.entry \subseteq Functions
           /\ \A x \in Functions : p.calls[x] \in Seq(Functions) /\ ToSet(p.calls[x]) \subseteq Functions
           /\ \A x \in Functions : Adj(x) = Arcs(p, x) /\ Arcs(p, x) \in Seq(Functions)
           /\ \A x \in Functions : Len(Arcs(p, x)) \in Nat /\ Out(p, x) \subseteq Functions
           /\ \A x \in Functions : \A i \in 1 .. Len(Arcs(p, x)) : Arcs(p, x)[i] \in Out(p, x)
           /\ \A x \in Functions : \A y \in Out(p, x) : \E i \in 1 .. Len(Arcs(p, x)) : y = Arcs(p, x)[i]
  <1>1. IsCallProgram(p)
    BY CallProgramsAssumption
  <1>2. /\ p.n \in Nat /\ p.entry \subseteq Functions
        /\ \A x \in Functions : p.calls[x] \in Seq(Functions)
    BY <1>1 DEF IsCallProgram, Functions
  <1>3. \A x \in Functions : Adj(x) = Arcs(p, x) /\ Arcs(p, x) \in Seq(Functions)
    BY <1>2 DEF Adj, Arcs
  <1>4. \A x \in Functions : ToSet(p.calls[x]) \subseteq Functions
    BY <1>2, SeqMembers
  <1>5. ASSUME NEW x \in Functions
        PROVE  /\ Len(Arcs(p, x)) \in Nat /\ Out(p, x) \subseteq Functions
               /\ \A i \in 1 .. Len(Arcs(p, x)) : Arcs(p, x)[i] \in Out(p, x)
               /\ \A y \in Out(p, x) : \E i \in 1 .. Len(Arcs(p, x)) : y = Arcs(p, x)[i]
    <2> DEFINE a == Arcs(p, x)
    <2>1. a \in Seq(Functions) /\ Out(p, x) = ToSet(a)
      BY <1>3 DEF Out
    <2> HIDE DEF a
    <2>2. /\ Len(a) \in Nat /\ \A k \in 1 .. Len(a) : a[k] \in ToSet(a)
          /\ \A y : y \in ToSet(a) <=> \E k \in 1 .. Len(a) : a[k] = y
          /\ ToSet(a) \subseteq Functions
      BY <2>1, SeqMembers
    <2> QED
      BY <2>1, <2>2 DEF a
  <1> QED
    BY <1>2, <1>3, <1>4, <1>5

(* What a function reaches is closed under edges, and the least such set.  *)
LEMMA ReachLeast ==
    ASSUME NEW x, NEW T \in SUBSET Functions, Out(p, x) \subseteq T, \A g \in T : Out(p, g) \subseteq T
    PROVE  Reach(p, x) \subseteq T
  BY DEF Reach, Functions

LEMMA ReachClosed ==
    ASSUME p \in CallPrograms, NEW x \in Functions
    PROVE  /\ Reach(p, x) \subseteq Functions /\ Out(p, x) \subseteq Reach(p, x)
           /\ \A y \in Reach(p, x) : Out(p, y) \subseteq Reach(p, x)
  <1>1. Reach(p, x) \subseteq Functions
    BY DEF Reach, Functions
  <1>2. Out(p, x) \subseteq Reach(p, x)
    <2>1. Out(p, x) \subseteq 1 .. p.n
      BY ProgramFacts DEF Functions
    <2> QED
      BY <2>1 DEF Reach
  <1>3. ASSUME NEW y \in Reach(p, x), NEW z \in Out(p, y) PROVE z \in Reach(p, x)
    <2>1. z \in 1 .. p.n
      BY <1>1, <1>3, ProgramFacts DEF Functions
    <2>2. ASSUME NEW T \in SUBSET (1 .. p.n), Out(p, x) \subseteq T, \A g \in T : Out(p, g) \subseteq T
          PROVE  z \in T
      <3>1. y \in T
        BY <1>3, <2>2 DEF Reach
      <3> QED
        BY <1>3, <2>2, <3>1
    <2> QED
      BY <2>1, <2>2 DEF Reach
  <1> QED
    BY <1>1, <1>2, <1>3

LEMMA ReachOn ==
    ASSUME p \in CallPrograms, NEW x \in Functions, NEW y \in Reach(p, x)
    PROVE  Reach(p, y) \subseteq Reach(p, x)
  BY ReachClosed, ReachLeast

LEMMA JoinsOn ==
    ASSUME p \in CallPrograms, NEW x \in Functions, NEW y \in Functions, NEW z \in Functions,
           Joins(p, x, y), Joins(p, y, z)
    PROVE  Joins(p, x, z)
  BY ReachOn DEF Joins

LEMMA JoinsArc ==
    ASSUME p \in CallPrograms, NEW x \in Functions, NEW y \in Out(p, x)
    PROVE  y \in Functions /\ y \in Reach(p, x) /\ Joins(p, x, y)
  BY ReachClosed DEF Joins

(* A set that has the callees of its members is not left.                  *)
LEMMA JoinsInside ==
    ASSUME p \in CallPrograms, NEW T \in SUBSET Functions, \A g \in T : Out(p, g) \subseteq T,
           NEW x \in T, NEW y, Joins(p, x, y)
    PROVE  y \in T
  BY ReachLeast DEF Joins

-----------------------------------------------------------------------------

(* The C recursion as the functions it is at.                              *)
LEMMA VisitFacts ==
    ASSUME CheckTypeOK
    PROVE  /\ Len(visits) \in Nat
           /\ \A j \in 1 .. Len(visits) : visits[j].v \in Functions /\ visits[j].i \in Nat \ {0}
           /\ visits # <<>> => /\ Len(visits) # 0 /\ Visit = visits[Len(visits)]
                               /\ Visit.v \in Functions /\ Visit.i \in Nat \ {0}
  <1> DEFINE R == VisitRecord
  <1>1. visits \in Seq(R)
    BY DEF CheckTypeOK
  <1>2. \A r \in R : r.v \in Functions /\ r.i \in Nat \ {0}
    BY DEF VisitRecord
  <1> HIDE DEF R
  <1>3. Len(visits) \in Nat /\ \A j \in 1 .. Len(visits) : visits[j] \in R
    BY <1>1
  <1>4. visits # <<>> => Len(visits) # 0 /\ Visit = visits[Len(visits)] /\ Visit \in R
    BY <1>1, SeqFront DEF Visit
  <1> QED
    BY <1>2, <1>3, <1>4

(* The next number is the successor of a natural number, and numbering one *)
(* more function raises it.                                                *)
LEMMA NumberFacts == ASSUME CheckTypeOK PROVE NextIndex \in Nat \ {0}
  <1>1. p.n \in Nat
    BY ProgramFacts DEF CheckTypeOK
  <1>2. IsFiniteSet(Functions)
    BY <1>1, FS_Interval DEF Functions
  <1>3. IsFiniteSet({f \in Functions : index[f] # 0})
    BY <1>2, FS_Subset
  <1>4. Cardinality({f \in Functions : index[f] # 0}) \in Nat
    BY <1>3, FS_CardinalityType
  <1> QED
    BY <1>4 DEF NextIndex

LEMMA NumberNext ==
    ASSUME CheckTypeOK, NEW w \in Functions, index[w] = 0, p' = p,
           index' = [index EXCEPT ![w] = NextIndex]
    PROVE  NextIndex' = NextIndex + 1
  <1> DEFINE A == {f \in Functions : index[f] # 0}
  <1>1. p.n \in Nat /\ Functions' = Functions
    BY ProgramFacts DEF CheckTypeOK, Functions
  <1>2. IsFiniteSet(A)
    <2>1. IsFiniteSet(Functions)
      BY <1>1, FS_Interval DEF Functions
    <2> QED
      BY <2>1, FS_Subset
  <1>3. \A f \in Functions : index'[f] = IF f = w THEN NextIndex ELSE index[f]
    BY DEF CheckTypeOK
  <1>4. {f \in Functions : index'[f] # 0} = A \cup {w}
    BY <1>3, NumberFacts
  <1>5. w \notin A
    OBVIOUS
  <1>6. Cardinality(A \cup {w}) = Cardinality(A) + 1
    BY <1>2, <1>5, FS_AddElement
  <1>7. NextIndex' = Cardinality({f \in Functions : index'[f] # 0}) + 1 /\ NextIndex = Cardinality(A) + 1
    BY <1>1 DEF NextIndex
  <1> QED
    BY <1>4, <1>6, <1>7

-----------------------------------------------------------------------------

(* A function is numbered and put on both stacks: from nowhere, or along   *)
(* an edge of the function on top of the C stack.                          *)
Follows(outer, w) ==
    /\ outer \in Seq(VisitRecord) /\ Len(outer) = Len(visits)
    /\ \A j \in 1 .. Len(visits) : outer[j].v = visits[j].v
    /\ visits # <<>> => w \in Out(p, Visit.v)
    /\ \A j \in 1 .. Len(visits) : \A i \in 1 .. outer[j].i - 1 :
          i < visits[j].i \/ Arcs(p, visits[j].v)[i] = w
Enters(w, outer) ==
    /\ w \in Functions /\ index[w] = 0 /\ Follows(outer, w)
    /\ Enter(w, outer) /\ verdict = "none"

(* What entering changes, function by function.                            *)
LEMMA EnterFacts ==
    ASSUME TarjanInv, NEW w, NEW outer, Enters(w, outer)
    PROVE  /\ p' = p /\ scc' = scc /\ Functions' = Functions
           /\ \A x \in Functions : index'[x] = IF x = w THEN NextIndex ELSE index[x]
           /\ \A x \in Functions : low'[x] = IF x = w THEN NextIndex ELSE low[x]
           /\ \A x \in Functions : x # w => index[x] < NextIndex /\ index'[x] < index'[w]
           /\ scc[w] = 0 /\ w \notin ToSet(stack)
           /\ \A x : x \in ToSet(stack') <=> x \in ToSet(stack) \/ x = w
           /\ Len(visits') = Len(visits) + 1
           /\ visits'[Len(visits) + 1].v = w /\ visits'[Len(visits) + 1].i = 1
           /\ \A j \in 1 .. Len(visits) : visits'[j] = outer[j] /\ visits'[j].v = visits[j].v
           /\ \A j \in 1 .. Len(visits) : visits[j].v # w
  <1>1. CheckTypeOK /\ w \in Functions /\ index[w] = 0 /\ Enter(w, outer) /\ Follows(outer, w)
    BY DEF Enters, TarjanInv
  <1>2. p' = p /\ scc' = scc /\ Functions' = Functions
    BY <1>1 DEF Enter, Functions
  <1>3. /\ \A x \in Functions : index'[x] = IF x = w THEN NextIndex ELSE index[x]
        /\ \A x \in Functions : low'[x] = IF x = w THEN NextIndex ELSE low[x]
    BY <1>1 DEF CheckTypeOK, Enter
  <1>4. scc[w] = 0 /\ w \notin ToSet(stack)
    BY <1>1 DEF TarjanInv, NumberInv, StackInv
  <1>5. \A x \in Functions : x # w => index[x] < NextIndex /\ index'[x] < index'[w]
    BY <1>1, <1>3 DEF TarjanInv, NumberInv
  <1>6. \A x : x \in ToSet(stack') <=> x \in ToSet(stack) \/ x = w
    BY <1>1, SeqAppend DEF Enter, CheckTypeOK
  <1>7. /\ Len(visits') = Len(visits) + 1
        /\ visits'[Len(visits) + 1].v = w /\ visits'[Len(visits) + 1].i = 1
        /\ \A j \in 1 .. Len(visits) : visits'[j] = outer[j] /\ visits'[j].v = visits[j].v
    <2> DEFINE r == [v |-> w, i |-> 1]
    <2>1. r \in VisitRecord /\ r.v = w /\ r.i = 1
      BY <1>1 DEF VisitRecord
    <2>2. visits' = Append(outer, r) /\ outer \in Seq(VisitRecord) /\ Len(outer) = Len(visits)
             /\ \A j \in 1 .. Len(visits) : outer[j].v = visits[j].v
      BY <1>1 DEF Enter, Follows
    <2> HIDE DEF r
    <2>3. /\ Len(visits') = Len(visits) + 1 /\ visits'[Len(visits) + 1] = r
          /\ \A j \in 1 .. Len(visits) : visits'[j] = outer[j]
      BY <2>1, <2>2, SeqAppend
    <2> QED
      BY <2>1, <2>2, <2>3
  <1>8. \A j \in 1 .. Len(visits) : visits[j].v # w
    BY <1>4 DEF TarjanInv, PathInv
  <1> QED
    BY <1>2, <1>3, <1>4, <1>5, <1>6, <1>7, <1>8

LEMMA EnterTypes == ASSUME TarjanInv, NEW w, NEW outer, Enters(w, outer) PROVE CheckTypeOK'
  <1>1. CheckTypeOK /\ w \in Functions /\ outer \in Seq(VisitRecord) /\ Enter(w, outer) /\ verdict = "none"
    BY DEF Enters, Follows, TarjanInv
  <1>2. p' = p /\ scc' = scc /\ Functions' = Functions /\ VisitRecord' = VisitRecord
    BY <1>1, EnterFacts DEF Functions, VisitRecord
  <1>3. index' \in [Functions -> Nat] /\ low' \in [Functions -> Nat]
    BY <1>1, NumberFacts DEF Enter, CheckTypeOK
  <1>4. stack' \in Seq(Functions)
    BY <1>1, SeqAppend DEF Enter, CheckTypeOK
  <1>5. visits' \in Seq(VisitRecord)
    <2> DEFINE r == [v |-> w, i |-> 1]
    <2>1. r \in VisitRecord
      BY <1>1 DEF VisitRecord
    <2>2. visits' = Append(outer, r)
      BY <1>1 DEF Enter
    <2> HIDE DEF r
    <2> QED
      BY <1>1, <2>1, <2>2, SeqAppend
  <1>6. verdict' = "none"
    BY <1>1 DEF Enter
  <1> QED
    BY <1>1, <1>2, <1>3, <1>4, <1>5, <1>6 DEF CheckTypeOK

LEMMA EnterNumbers == ASSUME TarjanInv, NEW w, NEW outer, Enters(w, outer) PROVE NumberInv'
  <1>1. /\ NextIndex \in Nat \ {0} /\ index \in [Functions -> Nat]
        /\ \A x \in Functions : index[x] < NextIndex /\ (index[x] = 0 => scc[x] = 0)
        /\ \A x, y \in Functions : index[x] = index[y] /\ index[x] # 0 => x = y
    BY NumberFacts DEF TarjanInv, NumberInv, CheckTypeOK
  <1>2. NextIndex' = NextIndex + 1
    BY NumberNext DEF Enters, TarjanInv, Enter
  <1>3. /\ Functions' = Functions /\ scc' = scc /\ w \in Functions /\ scc[w] = 0
        /\ \A x \in Functions : index'[x] = IF x = w THEN NextIndex ELSE index[x]
    BY EnterFacts DEF Enters
  <1>4. \A x \in Functions' : index'[x] < NextIndex' /\ (index'[x] = 0 => scc'[x] = 0)
    BY <1>1, <1>2, <1>3
  <1>5. \A x, y \in Functions' : index'[x] = index'[y] /\ index'[x] # 0 => x = y
    <2> SUFFICES ASSUME NEW x \in Functions, NEW y \in Functions, index'[x] = index'[y], index'[x] # 0
                 PROVE  x = y
      BY <1>3
    <2> QED
      BY <1>1, <1>3
  <1> QED
    BY <1>4, <1>5 DEF NumberInv

LEMMA EnterStack == ASSUME TarjanInv, NEW w, NEW outer, Enters(w, outer) PROVE StackInv'
  <1>1. /\ Functions' = Functions /\ scc' = scc /\ w \in Functions /\ scc[w] = 0 /\ w \notin ToSet(stack)
        /\ \A x \in Functions : index'[x] = IF x = w THEN NextIndex ELSE index[x]
        /\ \A x : x \in ToSet(stack') <=> x \in ToSet(stack) \/ x = w
        /\ \A x \in Functions : x # w => index'[x] < index'[w]
    BY EnterFacts DEF Enters
  <1>2. \A x \in Functions' : x \in ToSet(stack') <=> index'[x] # 0 /\ scc'[x] = 0
    BY <1>1, NumberFacts DEF TarjanInv, StackInv
  <1> DEFINE n == Len(stack)
  <1>3. stack \in Seq(Functions) /\ stack' = Append(stack, w)
    BY DEF TarjanInv, CheckTypeOK, Enters, Enter
  <1>4. /\ Len(stack') = n + 1 /\ stack'[n + 1] = w /\ \A j \in 1 .. n : stack'[j] = stack[j]
        /\ n \in Nat /\ \A j \in 1 .. n : stack[j] \in Functions /\ stack[j] # w
    BY <1>1, <1>3, SeqAppend, SeqMembers
  <1>5. \A j, k \in 1 .. n : j < k => index[stack[j]] < index[stack[k]]
    BY DEF TarjanInv, StackInv
  <1> HIDE DEF n
  <1>6. ASSUME NEW j \in 1 .. n + 1, NEW k \in 1 .. n + 1, j < k
        PROVE  index'[stack'[j]] < index'[stack'[k]]
    <2>1. j \in 1 .. n /\ stack'[j] = stack[j] /\ stack[j] \in Functions /\ stack[j] # w
      BY <1>4, <1>6
    <2>2. CASE k = n + 1
      BY <1>1, <1>4, <2>1, <2>2
    <2>3. CASE k # n + 1
      <3>1. k \in 1 .. n /\ stack'[k] = stack[k] /\ stack[k] \in Functions /\ stack[k] # w
        BY <1>4, <2>3
      <3> QED
        BY <1>1, <1>5, <1>6, <2>1, <3>1
    <2> QED
      BY <2>2, <2>3
  <1> QED
    BY <1>2, <1>4, <1>6 DEF StackInv

LEMMA EnterPath == ASSUME TarjanInv, NEW w, NEW outer, Enters(w, outer) PROVE PathInv'
  <1> DEFINE n == Len(visits)
  <1>1. /\ p' = p /\ Functions' = Functions /\ w \in Functions /\ w \notin ToSet(stack)
        /\ \A x \in Functions : x # w => index'[x] = index[x] /\ index'[x] < index'[w]
        /\ \A x : x \in ToSet(stack') <=> x \in ToSet(stack) \/ x = w
        /\ Len(visits') = n + 1 /\ visits'[n + 1].v = w
        /\ \A j \in 1 .. n : visits'[j].v = visits[j].v
    BY EnterFacts DEF Enters
  <1>2. /\ n \in Nat /\ \A j \in 1 .. n : visits[j].v \in Functions /\ visits[j].v \in ToSet(stack) /\ visits[j].v # w
        /\ ToSet(stack) \subseteq Functions /\ p \in CallPrograms
        /\ index'[w] \in Nat /\ \A x \in Functions : index[x] \in Nat
    <2>1. n \in Nat /\ \A j \in 1 .. n : visits[j].v \in Functions
      BY VisitFacts DEF TarjanInv
    <2>2. \A j \in 1 .. n : visits[j].v \in ToSet(stack) /\ visits[j].v # w
      BY <1>1 DEF TarjanInv, PathInv
    <2>3. ToSet(stack) \subseteq Functions /\ p \in CallPrograms /\ \A x \in Functions : index[x] \in Nat
      BY SeqMembers DEF TarjanInv, CheckTypeOK
    <2>4. index'[w] \in Nat
      BY <1>1, EnterTypes DEF CheckTypeOK
    <2> QED
      BY <2>1, <2>2, <2>3, <2>4
  <1>3. /\ \A j, k \in 1 .. n : j < k => index[visits[j].v] < index[visits[k].v]
        /\ \A x \in ToSet(stack) : \E j \in 1 .. n :
              index[visits[j].v] <= index[x] /\ Joins(p, x, visits[j].v)
        /\ \A x \in ToSet(stack) : \A j \in 1 .. n :
              index[visits[j].v] <= index[x] => Joins(p, visits[j].v, x)
    BY DEF TarjanInv, PathInv
  <1>4. n # 0 => w \in Out(p, visits[n].v)
    BY VisitFacts DEF Enters, Follows, TarjanInv
  <1> HIDE DEF n
  <1>5. \A j \in 1 .. n + 1 : j \in 1 .. n \/ j = n + 1
    BY <1>2
  <1>6. \A j \in 1 .. n + 1 : visits'[j].v \in ToSet(stack')
    BY <1>1, <1>2, <1>5
  <1>7. ASSUME NEW j \in 1 .. n + 1, NEW k \in 1 .. n + 1, j < k
        PROVE  index'[visits'[j].v] < index'[visits'[k].v]
    <2>1. j \in 1 .. n
      BY <1>2, <1>7
    <2>2. /\ visits'[j].v = visits[j].v /\ visits[j].v \in Functions /\ visits[j].v # w
          /\ index'[visits[j].v] = index[visits[j].v] /\ index'[visits[j].v] < index'[w]
      BY <1>1, <1>2, <2>1
    <2>3. CASE k = n + 1
      BY <1>1, <2>2, <2>3
    <2>4. CASE k # n + 1
      <3>1. k \in 1 .. n
        BY <1>5, <2>4
      <3>2. /\ visits'[k].v = visits[k].v /\ index'[visits[k].v] = index[visits[k].v]
            /\ index[visits[j].v] < index[visits[k].v]
        BY <1>1, <1>2, <1>3, <1>7, <2>1, <3>1
      <3> QED
        BY <2>2, <3>2
    <2> QED
      BY <2>3, <2>4
  <1>8. ASSUME NEW x \in ToSet(stack')
        PROVE  \E j \in 1 .. n + 1 : index'[visits'[j].v] <= index'[x] /\ Joins(p, x, visits'[j].v)
    <2>1. CASE x = w
      <3>1. n + 1 \in 1 .. n + 1 /\ index'[w] <= index'[w] /\ Joins(p, w, w)
        BY <1>2 DEF Joins
      <3> QED
        BY <1>1, <2>1, <3>1
    <2>2. CASE x # w
      <3>1. x \in ToSet(stack) /\ x \in Functions
        BY <1>1, <1>2, <2>2
      <3>2. PICK j \in 1 .. n : index[visits[j].v] <= index[x] /\ Joins(p, x, visits[j].v)
        BY <1>3, <3>1
      <3>3. j \in 1 .. n + 1 /\ visits'[j].v = visits[j].v
               /\ index'[visits[j].v] = index[visits[j].v] /\ index'[x] = index[x]
        BY <1>1, <1>2, <2>2, <3>1
      <3> QED
        BY <3>2, <3>3
    <2> QED
      BY <2>1, <2>2
  <1>9. ASSUME NEW x \in ToSet(stack'), NEW j \in 1 .. n + 1, index'[visits'[j].v] <= index'[x]
        PROVE  Joins(p, visits'[j].v, x)
    <2>1. CASE j = n + 1
      <3>1. x = w
        BY <1>1, <1>2, <1>9, <2>1
      <3> QED
        BY <1>1, <2>1, <3>1 DEF Joins
    <2>2. CASE j # n + 1 /\ x # w
      <3>1. j \in 1 .. n /\ x \in ToSet(stack) /\ x \in Functions
        BY <1>1, <1>2, <1>5, <2>2
      <3>2. visits'[j].v = visits[j].v /\ index[visits[j].v] <= index[x]
        BY <1>1, <1>2, <1>9, <2>2, <3>1
      <3> QED
        BY <1>3, <3>1, <3>2
    <2>3. CASE j # n + 1 /\ x = w
      <3>1. j \in 1 .. n /\ n # 0 /\ n \in 1 .. n
        BY <1>2, <1>5, <2>3
      <3>2. index[visits[j].v] <= index[visits[n].v]
        <4>1. j = n \/ j < n
          BY <1>2, <3>1
        <4> QED
          BY <1>2, <1>3, <3>1, <4>1
      <3>3. Joins(p, visits[j].v, visits[n].v) /\ Joins(p, visits[n].v, w)
        BY <1>2, <1>3, <1>4, <3>1, <3>2, JoinsArc
      <3> QED
        BY <1>1, <1>2, <2>3, <3>1, <3>3, JoinsOn
    <2> QED
      BY <2>1, <2>2, <2>3
  <1> QED
    BY <1>1, <1>6, <1>7, <1>8, <1>9 DEF PathInv

LEMMA EnterLow == ASSUME TarjanInv, NEW w, NEW outer, Enters(w, outer) PROVE LowInv'
  <1> DEFINE n == Len(visits)
  <1>1. /\ p' = p /\ w \in Functions
        /\ \A x \in Functions : index'[x] = IF x = w THEN NextIndex ELSE index[x]
        /\ \A x \in Functions : low'[x] = IF x = w THEN NextIndex ELSE low[x]
        /\ \A x : x \in ToSet(stack') <=> x \in ToSet(stack) \/ x = w
        /\ Len(visits') = n + 1 /\ visits'[n + 1].v = w /\ w \notin ToSet(stack)
        /\ \A j \in 1 .. n : visits'[j].v = visits[j].v /\ visits[j].v # w
    BY EnterFacts DEF Enters
  <1>2. /\ n \in Nat /\ \A j \in 1 .. n : visits[j].v \in Functions
        /\ ToSet(stack) \subseteq Functions /\ NextIndex \in Nat
    BY VisitFacts, SeqMembers, NumberFacts DEF TarjanInv, CheckTypeOK
  <1>3. \A j \in 1 .. n : /\ low[visits[j].v] <= index[visits[j].v]
                          /\ \E y \in ToSet(stack) : index[y] = low[visits[j].v] /\ Joins(p, visits[j].v, y)
    BY DEF TarjanInv, LowInv
  <1> HIDE DEF n
  <1>4. ASSUME NEW j \in 1 .. n + 1
        PROVE  /\ low'[visits'[j].v] <= index'[visits'[j].v]
               /\ \E y \in ToSet(stack') : index'[y] = low'[visits'[j].v] /\ Joins(p, visits'[j].v, y)
    <2>1. CASE j = n + 1
      <3>1. index'[w] = NextIndex /\ low'[w] = NextIndex /\ w \in ToSet(stack') /\ Joins(p, w, w)
        BY <1>1 DEF Joins
      <3> QED
        BY <1>1, <1>2, <2>1, <3>1
    <2>2. CASE j # n + 1
      <3>1. j \in 1 .. n
        BY <1>2, <2>2
      <3>2. /\ visits'[j].v = visits[j].v /\ low'[visits[j].v] = low[visits[j].v]
            /\ index'[visits[j].v] = index[visits[j].v]
        BY <1>1, <1>2, <3>1
      <3>3. PICK y \in ToSet(stack) : index[y] = low[visits[j].v] /\ Joins(p, visits[j].v, y)
        BY <1>3, <3>1
      <3>4. y \in ToSet(stack') /\ index'[y] = index[y]
        BY <1>1, <1>2
      <3> QED
        BY <1>3, <3>1, <3>2, <3>3, <3>4
    <2> QED
      BY <2>1, <2>2
  <1> QED
    BY <1>1, <1>4 DEF LowInv

LEMMA EnterArcs == ASSUME TarjanInv, NEW w, NEW outer, Enters(w, outer) PROVE ArcInv'
  <1> DEFINE n == Len(visits)
  <1>1. /\ p' = p /\ w \in Functions /\ scc' = scc
        /\ \A x \in Functions : index'[x] = IF x = w THEN NextIndex ELSE index[x]
        /\ \A x \in Functions : low'[x] = IF x = w THEN NextIndex ELSE low[x]
        /\ \A x \in Functions : x # w => index'[x] < index'[w]
        /\ \A x : x \in ToSet(stack') <=> x \in ToSet(stack) \/ x = w
        /\ Len(visits') = n + 1 /\ visits'[n + 1].v = w /\ visits'[n + 1].i = 1 /\ w \notin ToSet(stack)
        /\ \A j \in 1 .. n : visits'[j] = outer[j] /\ visits'[j].v = visits[j].v /\ visits[j].v # w
    BY EnterFacts DEF Enters
  <1>2. /\ n \in Nat /\ \A j \in 1 .. n : visits[j].v \in Functions /\ visits[j].i \in Nat
        /\ ToSet(stack) \subseteq Functions /\ NextIndex \in Nat \ {0} /\ p \in CallPrograms
        /\ \A x \in Functions : index[x] \in Nat /\ low[x] \in Nat
    BY VisitFacts, SeqMembers, NumberFacts DEF TarjanInv, CheckTypeOK
  <1>3. \A x \in ToSet(stack) : \A i \in 1 .. Len(Arcs(p, x)) : Seen(visits, x, i) =>
            /\ index[Arcs(p, x)[i]] # 0
            /\ Arcs(p, x)[i] \in ToSet(stack) =>
                  \A j \in 1 .. n : index[visits[j].v] <= index[x] =>
                      \E k \in j .. n : low[visits[k].v] <= index[Arcs(p, x)[i]]
    BY DEF TarjanInv, ArcInv
  <1>4. \A j \in 1 .. n : \A i \in 1 .. outer[j].i - 1 : i < visits[j].i \/ Arcs(p, visits[j].v)[i] = w
    BY DEF Enters, Follows
  <1>o. \A j \in 1 .. n : outer[j].i \in Nat
    <2> DEFINE R == VisitRecord
    <2>1. outer \in Seq(R) /\ Len(outer) = n /\ \A r \in R : r.i \in Nat
      BY DEF Enters, Follows, VisitRecord
    <2> HIDE DEF R, n
    <2> QED
      BY <2>1
  <1> HIDE DEF n
  <1>5. ASSUME NEW x \in ToSet(stack'), NEW i \in 1 .. Len(Arcs(p, x)), Seen(visits', x, i)
        PROVE  /\ index'[Arcs(p, x)[i]] # 0
               /\ Arcs(p, x)[i] \in ToSet(stack') =>
                     \A j \in 1 .. n + 1 : index'[visits'[j].v] <= index'[x] =>
                         \E k \in j .. n + 1 : low'[visits'[k].v] <= index'[Arcs(p, x)[i]]
    <2> DEFINE y == Arcs(p, x)[i]
    <2>0. x \in Functions /\ y \in Functions /\ i \in Nat \ {0}
      BY <1>1, <1>2, ProgramFacts
    <2>1. x # w
      <3>1. n + 1 \in 1 .. Len(visits')
        BY <1>1, <1>2
      <3>2. x = w => i < 1
        BY <1>1, <1>5, <3>1 DEF Seen
      <3> QED
        BY <2>0, <3>2
    <2>2. x \in ToSet(stack) /\ index'[x] = index[x]
      BY <1>1, <2>0, <2>1
    <2>3. CASE y = w
      <3>1. index'[y] # 0
        BY <1>1, <1>2, <2>0, <2>3
      <3>2. n + 1 \in 1 .. n + 1 /\ low'[visits'[n + 1].v] <= index'[y]
        BY <1>1, <1>2, <2>3
      <3>3. ASSUME NEW j \in 1 .. n + 1 PROVE n + 1 \in j .. n + 1
        BY <1>2
      <3> QED
        BY <3>1, <3>2, <3>3
    <2>4. CASE y # w
      <3> HIDE DEF y
      <3>1. Seen(visits, x, i)
        <4> SUFFICES ASSUME NEW j \in 1 .. n, visits[j].v = x PROVE i < visits[j].i
          BY <1>1 DEF Seen, n
        <4>1. j \in 1 .. Len(visits') /\ visits'[j].v = x
          BY <1>1, <1>2
        <4>2. i < visits'[j].i
          BY <1>5, <4>1 DEF Seen
        <4>3. i \in 1 .. outer[j].i - 1
          BY <1>1, <1>o, <2>0, <4>2
        <4> QED
          BY <1>4, <2>4, <4>3 DEF y
      <3>2. index[y] # 0 /\ index'[y] = index[y]
        BY <1>1, <1>3, <2>0, <2>2, <2>4, <3>1 DEF y
      <3>3. ASSUME y \in ToSet(stack'), NEW j \in 1 .. n + 1, index'[visits'[j].v] <= index'[x]
            PROVE  \E k \in j .. n + 1 : low'[visits'[k].v] <= index'[y]
        <4>1. j # n + 1
          BY <1>1, <1>2, <2>0, <2>1, <3>3
        <4>2. j \in 1 .. n /\ index[visits[j].v] <= index[x]
          <5>1. j \in 1 .. n
            BY <1>2, <4>1
          <5> QED
            BY <1>1, <1>2, <2>2, <3>3, <5>1
        <4>3. y \in ToSet(stack)
          BY <1>1, <2>4, <3>3
        <4>4. PICK k \in j .. n : low[visits[k].v] <= index[y]
          BY <1>3, <2>2, <3>1, <4>2, <4>3 DEF y
        <4>5. k \in 1 .. n /\ k \in j .. n + 1
          BY <1>2, <4>2
        <4>6. low'[visits'[k].v] = low[visits[k].v]
          BY <1>1, <1>2, <4>5
        <4> QED
          BY <3>2, <4>4, <4>5, <4>6
      <3> QED
        BY <3>2, <3>3 DEF y
    <2> QED
      BY <2>3, <2>4
  <1>6. \A x \in ToSet(stack') : \A i \in 1 .. Len(Arcs(p', x)) : Seen(visits', x, i) =>
            /\ index'[Arcs(p', x)[i]] # 0
            /\ Arcs(p', x)[i] \in ToSet(stack') =>
                  \A j \in 1 .. Len(visits') : index'[visits'[j].v] <= index'[x] =>
                      \E k \in j .. Len(visits') : low'[visits'[k].v] <= index'[Arcs(p', x)[i]]
    BY <1>1, <1>5
  <1> QED
    BY <1>6 DEF ArcInv

LEMMA EnterTarjan == ASSUME TarjanInv, NEW w, NEW outer, Enters(w, outer) PROVE TarjanInv'
  <1>1. p' = p /\ scc' = scc /\ Functions' = Functions
    BY EnterFacts
  <1>2. /\ \A x \in Functions' : scc'[x] # 0 =>
              /\ scc'[x] \in Functions' /\ scc'[scc'[x]] = scc'[x]
              /\ \A y \in Out(p', x) : scc'[y] # 0
        /\ \A x, y \in Functions' : scc'[x] # 0 /\ scc'[x] = scc'[y] => Joins(p', x, y)
        /\ \A x, y \in Functions' : scc'[x] # 0 /\ Joins(p', x, y) /\ Joins(p', y, x) => scc'[y] = scc'[x]
    BY <1>1 DEF TarjanInv, DoneInv
  <1>3. DoneInv'
    BY <1>2 DEF DoneInv
  <1> QED
    BY <1>3, EnterTypes, EnterNumbers, EnterStack, EnterPath, EnterLow, EnterArcs DEF TarjanInv

-----------------------------------------------------------------------------

(* The C stack with the cursor on top moved on.                            *)
LEMMA PassedFacts ==
    ASSUME CheckTypeOK, visits # <<>>
    PROVE  /\ Passed \in Seq(VisitRecord) /\ Len(Passed) = Len(visits)
           /\ \A j \in 1 .. Len(visits) : Passed[j].v = visits[j].v
           /\ \A j \in 1 .. Len(visits) : Passed[j].i = IF j = Len(visits) THEN Visit.i + 1 ELSE visits[j].i
  <1> DEFINE n == Len(visits)
             top == [visits[n] EXCEPT !.i = @ + 1]
  <1>1. visits \in Seq(VisitRecord) /\ n \in Nat \ {0} /\ visits[n] \in VisitRecord /\ Visit = visits[n]
    BY SeqFront DEF CheckTypeOK, Visit
  <1>2. top \in VisitRecord /\ top.v = visits[n].v /\ top.i = visits[n].i + 1
    BY <1>1 DEF VisitRecord
  <1>3. Passed = [visits EXCEPT ![n] = top]
    BY DEF Passed
  <1> HIDE DEF top
  <1> QED
    BY <1>1, <1>2, <1>3

(* tc_callgraph_tarjan starts a search where nothing is under way.         *)
LEMMA RootEnters == ASSUME TarjanInv, Root PROVE TarjanInv'
  <1>1. PICK v \in Functions : index[v] = 0 /\ Enter(v, <<>>)
    BY DEF Root
  <1>2. visits = <<>> /\ verdict = "none" /\ Len(visits) = 0
    BY DEF Root
  <1>3. Enters(v, <<>>)
    BY <1>1, <1>2 DEF Enters, Follows
  <1> QED
    BY <1>3, EnterTarjan

(* The recursion goes into a neighbour without a number.                   *)
LEMMA NeighbourEnters ==
    ASSUME TarjanInv, Neighbour, index[Adj(Visit.v)[Visit.i]] = 0
    PROVE  TarjanInv'
  <1> DEFINE w == Adj(Visit.v)[Visit.i]
             n == Len(visits)
  <1>1. /\ visits # <<>> /\ Enter(w, Passed) /\ CheckTypeOK /\ verdict = "none" /\ Visit.i <= Len(Adj(Visit.v))
        /\ p \in CallPrograms
    BY DEF Neighbour, TarjanInv, CheckTypeOK
  <1>2. Visit = visits[n] /\ Visit.v \in Functions /\ Visit.i \in Nat \ {0} /\ n \in Nat \ {0}
           /\ \A j \in 1 .. n : visits[j].v \in Functions /\ visits[j].i \in Nat \ {0}
    BY <1>1, VisitFacts
  <1>3. Adj(Visit.v) = Arcs(p, Visit.v) /\ w \in Out(p, Visit.v) /\ w \in Functions
    BY <1>1, <1>2, ProgramFacts
  <1> HIDE DEF w
  <1>4. \A j \in 1 .. n : \A i \in 1 .. Passed[j].i - 1 : i < visits[j].i \/ Arcs(p, visits[j].v)[i] = w
    <2> SUFFICES ASSUME NEW j \in 1 .. n, NEW i \in 1 .. Passed[j].i - 1, ~(i < visits[j].i)
                 PROVE  Arcs(p, visits[j].v)[i] = w
      OBVIOUS
    <2>1. j = n /\ i = Visit.i
      BY <1>1, <1>2, PassedFacts
    <2> QED
      BY <1>2, <1>3, <2>1 DEF w
  <1>5. Follows(Passed, w)
    BY <1>1, <1>3, <1>4, PassedFacts DEF Follows
  <1>6. index[w] = 0
    BY DEF w
  <1> QED
    BY <1>1, <1>3, <1>5, <1>6, EnterTarjan DEF Enters

(* A numbered neighbour: its number lowers the lowlink if it is on the     *)
(* stack.                                                                  *)
LEMMA NeighbourSeen ==
    ASSUME TarjanInv, Neighbour, index[Adj(Visit.v)[Visit.i]] # 0
    PROVE  TarjanInv'
  <1> DEFINE w == Adj(Visit.v)[Visit.i]
             v == Visit.v
             n == Len(visits)
  <1>1. /\ visits # <<>> /\ CheckTypeOK /\ Visit.i <= Len(Adj(v)) /\ p \in CallPrograms
        /\ UNCHANGED <<p, index, scc, stack, verdict>> /\ visits' = Passed
        /\ low' = IF w \in ToSet(stack) THEN Lowered(v, index[w]) ELSE low
    BY DEF Neighbour, TarjanInv, CheckTypeOK
  <1>2. Visit = visits[n] /\ v = visits[n].v /\ v \in Functions /\ Visit.i \in Nat \ {0} /\ n \in Nat \ {0}
           /\ \A j \in 1 .. n : visits[j].v \in Functions /\ visits[j].i \in Nat \ {0}
    BY <1>1, VisitFacts
  <1>3. w = Arcs(p, v)[Visit.i] /\ w \in Out(p, v) /\ w \in Functions
    BY <1>1, <1>2, ProgramFacts
  <1>4. /\ Len(visits') = n
        /\ \A j \in 1 .. n : visits'[j].v = visits[j].v
        /\ \A j \in 1 .. n : visits'[j].i = IF j = n THEN Visit.i + 1 ELSE visits[j].i
    BY <1>1, PassedFacts
  <1>5. Functions' = Functions /\ VisitRecord' = VisitRecord /\ NextIndex' = NextIndex
    BY <1>1 DEF Functions, VisitRecord, NextIndex
  <1>6. index \in [Functions -> Nat] /\ low \in [Functions -> Nat] /\ ToSet(stack) \subseteq Functions
    BY <1>1, SeqMembers DEF CheckTypeOK
  <1>7. low' = IF w \in ToSet(stack) /\ index[w] < low[v] THEN [low EXCEPT ![v] = index[w]] ELSE low
    BY <1>1, <1>2, <1>6 DEF Lowered
  <1> HIDE DEF w, v, n
  <1>8. low' \in [Functions -> Nat] /\ \A x \in Functions : low'[x] <= low[x] /\ (x # v => low'[x] = low[x])
    BY <1>2, <1>3, <1>6, <1>7
  <1>9. w \in ToSet(stack) => low'[v] <= index[w]
    BY <1>2, <1>3, <1>6, <1>7
  <1>10. CheckTypeOK'
    <2>1. visits' \in Seq(VisitRecord) /\ verdict = "none"
      BY <1>1, PassedFacts DEF CheckTypeOK
    <2> QED
      BY <1>1, <1>5, <1>8, <2>1 DEF CheckTypeOK
  <1>11. NumberInv'
    BY <1>1, <1>5 DEF TarjanInv, NumberInv
  <1>12. StackInv'
    BY <1>1, <1>5 DEF TarjanInv, StackInv
  <1>13. PathInv'
    <2>1. /\ \A j \in 1 .. n : visits[j].v \in ToSet(stack)
          /\ \A j, k \in 1 .. n : j < k => index[visits[j].v] < index[visits[k].v]
          /\ \A x \in ToSet(stack) : \E j \in 1 .. n : index[visits[j].v] <= index[x] /\ Joins(p, x, visits[j].v)
          /\ \A x \in ToSet(stack) : \A j \in 1 .. n : index[visits[j].v] <= index[x] => Joins(p, visits[j].v, x)
      BY DEF TarjanInv, PathInv, n
    <2>2. /\ \A j \in 1 .. n : visits'[j].v \in ToSet(stack)
          /\ \A j, k \in 1 .. n : j < k => index[visits'[j].v] < index[visits'[k].v]
      BY <1>4, <2>1
    <2>3. \A x \in ToSet(stack) : \E j \in 1 .. n : index[visits'[j].v] <= index[x] /\ Joins(p, x, visits'[j].v)
      BY <1>4, <2>1
    <2>4. \A x \in ToSet(stack) : \A j \in 1 .. n : index[visits'[j].v] <= index[x] => Joins(p, visits'[j].v, x)
      BY <1>4, <2>1
    <2> QED
      BY <1>1, <1>4, <2>2, <2>3, <2>4 DEF PathInv
  <1>14. LowInv'
    <2>1. ASSUME NEW j \in 1 .. n
          PROVE  /\ low'[visits'[j].v] <= index[visits'[j].v]
                 /\ \E y \in ToSet(stack) : index[y] = low'[visits'[j].v] /\ Joins(p, visits'[j].v, y)
      <3>1. /\ low[visits[j].v] <= index[visits[j].v] /\ visits'[j].v = visits[j].v /\ visits[j].v \in Functions
            /\ \E y \in ToSet(stack) : index[y] = low[visits[j].v] /\ Joins(p, visits[j].v, y)
        BY <1>2, <1>4 DEF TarjanInv, LowInv, n
      <3>2. CASE low'[visits[j].v] = low[visits[j].v]
        BY <3>1, <3>2
      <3>3. CASE low'[visits[j].v] # low[visits[j].v]
        <4>1. visits[j].v = v /\ w \in ToSet(stack) /\ low'[v] = index[w] /\ index[w] < low[v]
          BY <1>6, <1>7, <1>8, <3>1, <3>3
        <4>2. Joins(p, v, w)
          BY <1>1, <1>2, <1>3, JoinsArc
        <4> QED
          BY <1>2, <1>3, <1>6, <3>1, <4>1, <4>2
      <3> QED
        BY <3>2, <3>3
    <2> QED
      BY <1>1, <1>4, <2>1 DEF LowInv
  <1>15. ArcInv'
    <2>1. \A x \in ToSet(stack) : \A i \in 1 .. Len(Arcs(p, x)) : Seen(visits, x, i) =>
              /\ index[Arcs(p, x)[i]] # 0
              /\ Arcs(p, x)[i] \in ToSet(stack) =>
                    \A j \in 1 .. n : index[visits[j].v] <= index[x] =>
                        \E k \in j .. n : low[visits[k].v] <= index[Arcs(p, x)[i]]
      BY DEF TarjanInv, ArcInv, n
    <2>2. ASSUME NEW x \in ToSet(stack), NEW i \in 1 .. Len(Arcs(p, x)), Seen(visits', x, i)
          PROVE  /\ index[Arcs(p, x)[i]] # 0
                 /\ Arcs(p, x)[i] \in ToSet(stack) =>
                       \A j \in 1 .. n : index[visits'[j].v] <= index[x] =>
                           \E k \in j .. n : low'[visits'[k].v] <= index[Arcs(p, x)[i]]
      <3> DEFINE y == Arcs(p, x)[i]
      <3>0. x \in Functions /\ y \in Functions /\ i \in Nat
        <4>1. x \in Functions /\ p \in CallPrograms
          BY <1>1, <1>6
        <4>2. y \in Out(p, x) /\ Out(p, x) \subseteq Functions /\ Len(Arcs(p, x)) \in Nat
          BY <4>1, ProgramFacts
        <4> QED
          BY <4>1, <4>2
      <3>1. CASE x = v /\ i = Visit.i
        <4>1. y = w /\ index[y] # 0
          BY <1>3, <3>1 DEF w
        <4>2. ASSUME y \in ToSet(stack), NEW j \in 1 .. n PROVE n \in j .. n /\ low'[visits'[n].v] <= index[y]
          BY <1>2, <1>4, <1>9, <4>1, <4>2
        <4> QED
          BY <4>1, <4>2
      <3>2. CASE ~(x = v /\ i = Visit.i)
        <4>1. Seen(visits, x, i)
          <5> SUFFICES ASSUME NEW j \in 1 .. n, visits[j].v = x PROVE i < visits[j].i
            BY DEF Seen, n
          <5>1. i < visits'[j].i
            BY <1>4, <2>2 DEF Seen
          <5> QED
            BY <1>2, <1>4, <3>0, <3>2, <5>1
        <4>2. ASSUME y \in ToSet(stack), NEW j \in 1 .. n, index[visits'[j].v] <= index[x]
              PROVE  \E k \in j .. n : low'[visits'[k].v] <= index[y]
          <5>1. PICK k \in j .. n : low[visits[k].v] <= index[y]
            BY <1>4, <2>1, <4>1, <4>2
          <5>2. k \in 1 .. n
            BY <1>2
          <5>3. low'[visits'[k].v] <= low[visits[k].v] /\ low'[visits'[k].v] \in Nat /\ low[visits[k].v] \in Nat
            BY <1>2, <1>4, <1>6, <1>8, <5>2
          <5> QED
            BY <1>6, <3>0, <5>1, <5>3
        <4> QED
          BY <2>1, <4>1, <4>2
      <3> QED
        BY <3>1, <3>2
    <2> QED
      BY <1>1, <1>4, <2>2 DEF ArcInv
  <1>16. DoneInv'
    BY <1>1, <1>5 DEF TarjanInv, DoneInv
  <1> QED
    BY <1>10, <1>11, <1>12, <1>13, <1>14, <1>15, <1>16 DEF TarjanInv

-----------------------------------------------------------------------------

(* A function whose edges have all been passed is left; the lowlink of its *)
(* caller takes over its own.                                              *)
LEMMA LeaveFacts ==
    ASSUME TarjanInv, Leave, NEW n, n = Len(visits), NEW v, v = Visit.v
    PROVE  /\ UNCHANGED <<p, index, verdict>> /\ verdict = "none" /\ p \in CallPrograms
           /\ Functions' = Functions /\ VisitRecord' = VisitRecord /\ NextIndex' = NextIndex
           /\ n \in Nat \ {0} /\ v \in Functions /\ v = visits[n].v /\ v \in ToSet(stack)
           /\ \A j \in 1 .. n : visits[j].v \in Functions /\ visits[j].v \in ToSet(stack)
           /\ \A j \in 1 .. n - 1 : index[visits[j].v] < index[v]
           /\ ToSet(stack) \subseteq Functions
           /\ \A x \in Functions : index[x] \in Nat /\ low[x] \in Nat
           /\ visits' \in Seq(VisitRecord) /\ Len(visits') = n - 1
           /\ \A j \in 1 .. n - 1 : visits'[j] = visits[j]
           /\ low' \in [Functions -> Nat] /\ \A x \in Functions : low'[x] <= low[x]
           /\ \A j \in 1 .. n - 1 : \/ low'[visits[j].v] = low[visits[j].v]
                                    \/ j = n - 1 /\ low'[visits[j].v] = low[v]
           /\ n > 1 => low'[visits[n - 1].v] <= low[v]
           /\ \A x \in Functions : \A i \in 1 .. Len(Arcs(p, x)) :
                 Seen(visits', x, i) => Seen(visits, x, i)
  <1>1. /\ visits # <<>> /\ Visit.i > Len(Adj(Visit.v)) /\ visits' = Front(visits)
        /\ UNCHANGED <<p, index, verdict>> /\ CheckTypeOK
        /\ low' = IF n = 1 THEN low ELSE Lowered(visits[n - 1].v, low[v])
    BY DEF Leave, TarjanInv
  <1>2. /\ verdict = "none" /\ p \in CallPrograms /\ index \in [Functions -> Nat] /\ low \in [Functions -> Nat]
    BY <1>1 DEF CheckTypeOK
  <1>3. Functions' = Functions /\ VisitRecord' = VisitRecord /\ NextIndex' = NextIndex
    BY <1>1 DEF Functions, VisitRecord, NextIndex
  <1>4. /\ n \in Nat \ {0} /\ v \in Functions /\ v = visits[n].v /\ Visit.i = visits[n].i
        /\ \A j \in 1 .. n : visits[j].v \in Functions /\ visits[j].i \in Nat
    BY <1>1, VisitFacts
  <1>5. visits' \in Seq(VisitRecord) /\ Len(visits') = n - 1 /\ \A j \in 1 .. n - 1 : visits'[j] = visits[j]
    BY <1>1, SeqFront DEF CheckTypeOK
  <1>6. /\ \A j \in 1 .. n : visits[j].v \in ToSet(stack)
        /\ \A j, k \in 1 .. n : j < k => index[visits[j].v] < index[visits[k].v]
    BY DEF TarjanInv, PathInv
  <1>7. v \in ToSet(stack) /\ \A j \in 1 .. n - 1 : index[visits[j].v] < index[v]
    BY <1>4, <1>6
  <1>8. ToSet(stack) \subseteq Functions
    BY <1>1, SeqMembers DEF CheckTypeOK
  <1>9. low' \in [Functions -> Nat] /\ \A x \in Functions : low'[x] <= low[x]
    <2>1. CASE n = 1
      BY <1>1, <1>2, <2>1
    <2>2. CASE n # 1
      <3> DEFINE u == visits[n - 1].v
      <3>1. u \in Functions
        BY <1>4, <2>2
      <3>2. low' = IF low[v] < low[u] THEN [low EXCEPT ![u] = low[v]] ELSE low
        BY <1>1, <1>2, <2>2, <3>1 DEF Lowered
      <3> HIDE DEF u
      <3> QED
        BY <1>2, <1>4, <3>1, <3>2
    <2> QED
      BY <2>1, <2>2
  <1>10. /\ \A j \in 1 .. n - 1 : \/ low'[visits[j].v] = low[visits[j].v]
                                  \/ j = n - 1 /\ low'[visits[j].v] = low[v]
         /\ n > 1 => low'[visits[n - 1].v] <= low[v]
    <2>1. CASE n = 1
      BY <1>1, <2>1
    <2>2. CASE n # 1
      <3> DEFINE u == visits[n - 1].v
      <3>1. u \in Functions /\ \A j \in 1 .. n - 1 : j # n - 1 => visits[j].v # u
        <4>1. u \in Functions /\ n - 1 \in 1 .. n /\ index[u] \in Nat
          BY <1>2, <1>4, <2>2
        <4>2. ASSUME NEW j \in 1 .. n - 1, j # n - 1 PROVE index[visits[j].v] < index[u]
          <5>1. j \in 1 .. n /\ j < n - 1
            BY <1>4, <4>2
          <5> QED
            BY <1>6, <4>1, <5>1
        <4> QED
          BY <4>1, <4>2
      <3>2. low' = IF low[v] < low[u] THEN [low EXCEPT ![u] = low[v]] ELSE low
        BY <1>1, <1>2, <2>2, <3>1 DEF Lowered
      <3>3. low'[u] <= low[v] /\ (low'[u] = low[u] \/ low'[u] = low[v])
        <4> HIDE DEF u
        <4> QED
          BY <1>2, <1>4, <3>1, <3>2
      <3>4. \A j \in 1 .. n - 1 : j # n - 1 => low'[visits[j].v] = low[visits[j].v]
        BY <1>2, <1>4, <3>1, <3>2
      <3> QED
        BY <3>3, <3>4
    <2> QED
      BY <2>1, <2>2
  <1>11. ASSUME NEW x \in Functions, NEW i \in 1 .. Len(Arcs(p, x)), Seen(visits', x, i)
         PROVE  Seen(visits, x, i)
    <2> SUFFICES ASSUME NEW j \in 1 .. n, visits[j].v = x PROVE i < visits[j].i
      BY DEF Seen
    <2>1. CASE j = n
      <3>1. x = v /\ Len(Arcs(p, x)) < visits[j].i /\ Len(Arcs(p, x)) \in Nat
        BY <1>1, <1>2, <1>4, <2>1, ProgramFacts
      <3> QED
        BY <1>4, <3>1
    <2>2. CASE j # n
      <3>1. j \in 1 .. Len(visits') /\ visits'[j] = visits[j]
        BY <1>4, <1>5, <2>2
      <3> QED
        BY <1>11, <3>1 DEF Seen
    <2> QED
      BY <2>1, <2>2
  <1> QED
    BY <1>1, <1>2, <1>3, <1>4, <1>5, <1>6, <1>7, <1>8, <1>9, <1>10, <1>11

(* The lowlink says that the function left reaches one further down.       *)
LEMMA LeaveUp ==
    ASSUME TarjanInv, Leave, low[Visit.v] # index[Visit.v]
    PROVE  TarjanInv'
  <1> DEFINE n == Len(visits)
             v == Visit.v
  <1>0. UNCHANGED <<stack, scc>>
    BY DEF Leave
  <1>1. /\ UNCHANGED <<p, index, verdict>> /\ verdict = "none" /\ p \in CallPrograms
        /\ Functions' = Functions /\ VisitRecord' = VisitRecord /\ NextIndex' = NextIndex
        /\ n \in Nat \ {0} /\ v \in Functions /\ v = visits[n].v /\ v \in ToSet(stack)
        /\ \A j \in 1 .. n : visits[j].v \in Functions /\ visits[j].v \in ToSet(stack)
        /\ \A j \in 1 .. n - 1 : index[visits[j].v] < index[v]
        /\ ToSet(stack) \subseteq Functions
        /\ \A x \in Functions : index[x] \in Nat /\ low[x] \in Nat
    BY LeaveFacts
  <1>2. /\ visits' \in Seq(VisitRecord) /\ Len(visits') = n - 1
        /\ \A j \in 1 .. n - 1 : visits'[j] = visits[j]
        /\ low' \in [Functions -> Nat] /\ \A x \in Functions : low'[x] <= low[x]
        /\ \A j \in 1 .. n - 1 : \/ low'[visits[j].v] = low[visits[j].v]
                                 \/ j = n - 1 /\ low'[visits[j].v] = low[v]
        /\ n > 1 => low'[visits[n - 1].v] <= low[v]
        /\ \A x \in Functions : \A i \in 1 .. Len(Arcs(p, x)) : Seen(visits', x, i) => Seen(visits, x, i)
    BY LeaveFacts
  <1>3. /\ \A j, k \in 1 .. n : j < k => index[visits[j].v] < index[visits[k].v]
        /\ \A x \in ToSet(stack) : \E j \in 1 .. n : index[visits[j].v] <= index[x] /\ Joins(p, x, visits[j].v)
        /\ \A x \in ToSet(stack) : \A j \in 1 .. n : index[visits[j].v] <= index[x] => Joins(p, visits[j].v, x)
    BY DEF TarjanInv, PathInv
  <1>4. \A j \in 1 .. n : /\ low[visits[j].v] <= index[visits[j].v]
                          /\ \E y \in ToSet(stack) : index[y] = low[visits[j].v] /\ Joins(p, visits[j].v, y)
    BY DEF TarjanInv, LowInv
  <1>5. \A x \in ToSet(stack) : \A i \in 1 .. Len(Arcs(p, x)) : Seen(visits, x, i) =>
            /\ index[Arcs(p, x)[i]] # 0
            /\ Arcs(p, x)[i] \in ToSet(stack) =>
                  \A j \in 1 .. n : index[visits[j].v] <= index[x] =>
                      \E k \in j .. n : low[visits[k].v] <= index[Arcs(p, x)[i]]
    BY DEF TarjanInv, ArcInv
  <1>6. low[v] # index[v]
    OBVIOUS
  <1> HIDE DEF n, v
  <1>7. PICK y \in ToSet(stack) : index[y] = low[v] /\ Joins(p, v, y) /\ index[y] < index[v]
    <2>1. n \in 1 .. n
      BY <1>1
    <2>2. low[v] <= index[v] /\ \E y \in ToSet(stack) : index[y] = low[v] /\ Joins(p, v, y)
      BY <1>1, <1>4, <2>1
    <2> QED
      BY <1>1, <1>6, <2>2
  <1>8. PICK b \in 1 .. n - 1 : index[visits[b].v] < index[v] /\ Joins(p, v, visits[b].v)
    <2>1. PICK j \in 1 .. n : index[visits[j].v] <= index[y] /\ Joins(p, y, visits[j].v)
      BY <1>3
    <2>2. visits[j].v \in Functions /\ y \in Functions /\ index[visits[j].v] \in Nat /\ index[v] \in Nat /\ index[y] \in Nat
      BY <1>1
    <2>3. index[visits[j].v] < index[v] /\ j # n
      BY <1>1, <1>7, <2>1, <2>2
    <2>4. Joins(p, v, visits[j].v)
      BY <1>1, <1>7, <2>1, <2>2, JoinsOn
    <2>5. j \in 1 .. n - 1
      BY <1>1, <2>3
    <2> QED
      BY <2>3, <2>4, <2>5
  <1>9. CheckTypeOK'
    BY <1>0, <1>1, <1>2 DEF TarjanInv, CheckTypeOK
  <1>10. NumberInv' /\ StackInv' /\ DoneInv'
    BY <1>0, <1>1 DEF TarjanInv, NumberInv, StackInv, DoneInv
  <1>11. PathInv'
    <2>0. \A j \in 1 .. n - 1 : j \in 1 .. n
      BY <1>1
    <2>1. \A j \in 1 .. n - 1 : visits'[j].v \in ToSet(stack)
      BY <1>1, <1>2, <2>0
    <2>2. \A j, k \in 1 .. n - 1 : j < k => index[visits'[j].v] < index[visits'[k].v]
      BY <1>2, <1>3, <2>0
    <2>3. ASSUME NEW x \in ToSet(stack)
          PROVE  \E j \in 1 .. n - 1 : index[visits'[j].v] <= index[x] /\ Joins(p, x, visits'[j].v)
      <3>1. PICK j \in 1 .. n : index[visits[j].v] <= index[x] /\ Joins(p, x, visits[j].v)
        BY <1>3
      <3>2. CASE j = n
        <4>1. Joins(p, x, visits[b].v)
          BY <1>1, <1>8, <2>0, <3>1, <3>2, JoinsOn
        <4>2. index[visits[b].v] \in Nat /\ index[v] \in Nat /\ index[x] \in Nat /\ index[v] <= index[x]
          BY <1>1, <2>0, <3>1, <3>2
        <4>3. index[visits[b].v] <= index[x]
          BY <1>8, <4>2
        <4> QED
          BY <1>2, <4>1, <4>3
      <3>3. CASE j # n
        <4>1. j \in 1 .. n - 1
          BY <1>1, <3>3
        <4> QED
          BY <1>2, <3>1, <4>1
      <3> QED
        BY <3>2, <3>3
    <2>4. \A x \in ToSet(stack) : \A j \in 1 .. n - 1 :
             index[visits'[j].v] <= index[x] => Joins(p, visits'[j].v, x)
      BY <1>2, <1>3, <2>0
    <2> QED
      BY <1>0, <1>1, <1>2, <2>1, <2>2, <2>3, <2>4 DEF PathInv
  <1>12. LowInv'
    <2>1. ASSUME NEW j \in 1 .. n - 1
          PROVE  /\ low'[visits'[j].v] <= index[visits'[j].v]
                 /\ \E z \in ToSet(stack) : index[z] = low'[visits'[j].v] /\ Joins(p, visits'[j].v, z)
      <3>0. j \in 1 .. n /\ visits'[j] = visits[j] /\ visits[j].v \in Functions
        BY <1>1, <1>2
      <3>1. low'[visits[j].v] <= index[visits[j].v]
        <4>1. low'[visits[j].v] <= low[visits[j].v] /\ low[visits[j].v] <= index[visits[j].v]
          BY <1>2, <1>4, <3>0
        <4>2. low'[visits[j].v] \in Nat /\ low[visits[j].v] \in Nat /\ index[visits[j].v] \in Nat
          BY <1>1, <1>2, <3>0
        <4> QED
          BY <4>1, <4>2
      <3>2. CASE low'[visits[j].v] = low[visits[j].v]
        BY <1>4, <3>0, <3>1, <3>2
      <3>3. CASE low'[visits[j].v] = low[v]
        <4>1. index[visits[j].v] <= index[v]
          BY <1>1, <3>0
        <4>2. Joins(p, visits[j].v, v)
          BY <1>1, <1>3, <3>0, <4>1
        <4>3. Joins(p, visits[j].v, y)
          BY <1>1, <1>7, <3>0, <4>2, JoinsOn
        <4> QED
          BY <1>7, <3>0, <3>1, <3>3, <4>3
      <3> QED
        BY <1>2, <3>2, <3>3
    <2> QED
      BY <1>0, <1>1, <1>2, <2>1 DEF LowInv
  <1>13. ArcInv'
    <2>1. ASSUME NEW x \in ToSet(stack), NEW i \in 1 .. Len(Arcs(p, x)), Seen(visits', x, i)
          PROVE  /\ index[Arcs(p, x)[i]] # 0
                 /\ Arcs(p, x)[i] \in ToSet(stack) =>
                       \A j \in 1 .. n - 1 : index[visits'[j].v] <= index[x] =>
                           \E k \in j .. n - 1 : low'[visits'[k].v] <= index[Arcs(p, x)[i]]
      <3> DEFINE z == Arcs(p, x)[i]
      <3>0. x \in Functions /\ z \in Functions /\ Seen(visits, x, i) /\ index[z] # 0
        BY <1>1, <1>2, <1>5, <2>1, ProgramFacts
      <3>1. ASSUME z \in ToSet(stack), NEW j \in 1 .. n - 1, index[visits'[j].v] <= index[x]
            PROVE  \E k \in j .. n - 1 : low'[visits'[k].v] <= index[z]
        <4>0. j \in 1 .. n /\ visits'[j] = visits[j]
          BY <1>1, <1>2
        <4>1. PICK k \in j .. n : low[visits[k].v] <= index[z]
          BY <1>5, <3>0, <3>1, <4>0
        <4> HIDE DEF z
        <4>2. CASE k = n
          <5>1. n - 1 \in j .. n - 1 /\ n - 1 \in 1 .. n - 1 /\ n > 1 /\ visits[n - 1].v \in Functions
            BY <1>1, <3>1
          <5>2. low'[visits[n - 1].v] <= low[v] /\ low[v] <= index[z]
            BY <1>1, <1>2, <4>1, <4>2, <5>1
          <5>3. low'[visits[n - 1].v] \in Nat /\ low[v] \in Nat /\ index[z] \in Nat
            BY <1>1, <1>2, <3>0, <5>1
          <5>4. low'[visits[n - 1].v] <= index[z]
            BY <5>2, <5>3
          <5> QED
            BY <1>2, <5>1, <5>4
        <4>3. CASE k # n
          <5>1. k \in j .. n - 1 /\ k \in 1 .. n /\ k \in 1 .. n - 1 /\ visits'[k] = visits[k]
            BY <1>1, <1>2, <4>0, <4>3
          <5>2. low'[visits[k].v] <= low[visits[k].v]
            BY <1>1, <1>2, <5>1
          <5>3. low'[visits[k].v] \in Nat /\ low[visits[k].v] \in Nat /\ index[z] \in Nat
            BY <1>1, <1>2, <3>0, <5>1
          <5>4. low'[visits[k].v] <= index[z]
            BY <4>1, <5>2, <5>3
          <5> QED
            BY <5>1, <5>4
        <4> QED
          BY <4>2, <4>3
      <3> QED
        BY <3>0, <3>1
    <2> QED
      BY <1>0, <1>1, <1>2, <2>1 DEF ArcInv
  <1> QED
    BY <1>9, <1>10, <1>11, <1>12, <1>13 DEF TarjanInv

(* The component of a root: what is above it on the Tarjan stack.          *)
LEMMA PopFacts ==
    ASSUME TarjanInv, Leave, low[Visit.v] = index[Visit.v], NEW v, v = Visit.v
    PROVE  /\ stack' \in Seq(Functions)
           /\ \A x : x \in ToSet(stack') <=> x \in ToSet(stack) /\ index[x] < index[v]
           /\ \A j, k \in 1 .. Len(stack') : j < k => index[stack'[j]] < index[stack'[k]]
           /\ scc' = [f \in Functions |-> IF f \in ToSet(stack) /\ index[v] <= index[f] THEN v ELSE scc[f]]
  <1> DEFINE m == Len(stack)
             pos == CHOOSE k \in 1 .. Len(stack) : stack[k] = v
             component == {stack[k] : k \in pos .. Len(stack)}
  <1>1. stack \in Seq(Functions) /\ index \in [Functions -> Nat] /\ v \in ToSet(stack)
    BY LeaveFacts DEF TarjanInv, CheckTypeOK
  <1>2. /\ m \in Nat /\ \A k \in 1 .. m : stack[k] \in Functions
        /\ \A x : x \in ToSet(stack) <=> \E k \in 1 .. m : stack[k] = x
    BY <1>1, SeqMembers
  <1>3. \A j, k \in 1 .. m : j < k => index[stack[j]] < index[stack[k]]
    BY DEF TarjanInv, StackInv
  <1>4. pos \in 1 .. m /\ stack[pos] = v
    BY <1>1, <1>2
  <1>5. stack' = SubSeq(stack, 1, pos - 1) /\ scc' = [f \in Functions |-> IF f \in component THEN v ELSE scc[f]]
    BY DEF Leave
  <1>6. \A x : x \in component <=> \E k \in pos .. m : stack[k] = x
    OBVIOUS
  <1> HIDE DEF m, pos, component
  <1>7. pos - 1 \in 0 .. m
    BY <1>2, <1>4
  <1>8. /\ stack' \in Seq(Functions) /\ Len(stack') = pos - 1
        /\ \A k \in 1 .. pos - 1 : stack'[k] = stack[k]
        /\ \A x : x \in ToSet(stack') <=> \E k \in 1 .. pos - 1 : stack[k] = x
    BY <1>1, <1>5, <1>7, SeqPrefix DEF m
  <1>9. ASSUME NEW k \in 1 .. m PROVE k < pos <=> index[stack[k]] < index[v]
    <2>1. index[stack[k]] \in Nat /\ index[v] \in Nat /\ (k < pos \/ k = pos \/ pos < k)
      BY <1>1, <1>2, <1>4
    <2>2. pos < k => index[v] < index[stack[k]]
      BY <1>3, <1>4
    <2>3. k < pos => index[stack[k]] < index[v]
      BY <1>3, <1>4
    <2> QED
      BY <1>4, <2>1, <2>2, <2>3
  <1>10. ASSUME NEW x PROVE x \in ToSet(stack') <=> x \in ToSet(stack) /\ index[x] < index[v]
    <2>1. ASSUME x \in ToSet(stack') PROVE x \in ToSet(stack) /\ index[x] < index[v]
      <3>1. PICK k \in 1 .. pos - 1 : stack[k] = x
        BY <1>8, <2>1
      <3>2. k \in 1 .. m /\ k < pos
        BY <1>2, <1>4
      <3> QED
        BY <1>2, <1>9, <3>1, <3>2
    <2>2. ASSUME x \in ToSet(stack), index[x] < index[v] PROVE x \in ToSet(stack')
      <3>1. PICK k \in 1 .. m : stack[k] = x
        BY <1>2, <2>2
      <3>2. k \in 1 .. pos - 1
        BY <1>4, <1>9, <2>2, <3>1
      <3> QED
        BY <1>8, <3>1, <3>2
    <2> QED
      BY <2>1, <2>2
  <1>11. ASSUME NEW f \in Functions PROVE f \in component <=> f \in ToSet(stack) /\ index[v] <= index[f]
    <2>0. index[f] \in Nat /\ index[v] \in Nat
      BY <1>1, <1>2
    <2>1. ASSUME f \in component PROVE f \in ToSet(stack) /\ index[v] <= index[f]
      <3>1. PICK k \in pos .. m : stack[k] = f
        BY <1>6, <2>1
      <3>2. k \in 1 .. m /\ ~(k < pos)
        BY <1>4
      <3> QED
        BY <1>2, <1>9, <2>0, <3>1, <3>2
    <2>2. ASSUME f \in ToSet(stack), index[v] <= index[f] PROVE f \in component
      <3>1. PICK k \in 1 .. m : stack[k] = f
        BY <1>2, <2>2
      <3>2. ~(index[f] < index[v])
        BY <2>0, <2>2
      <3>3. k \in pos .. m
        BY <1>2, <1>4, <1>9, <3>1, <3>2
      <3> QED
        BY <1>6, <3>1, <3>3
    <2> QED
      BY <2>1, <2>2
  <1>12. \A j, k \in 1 .. pos - 1 : j < k => index[stack'[j]] < index[stack'[k]]
    <2>1. \A j \in 1 .. pos - 1 : j \in 1 .. m /\ stack'[j] = stack[j]
      BY <1>2, <1>4, <1>8
    <2> QED
      BY <1>3, <2>1
  <1> QED
    BY <1>5, <1>8, <1>10, <1>11, <1>12

(* A root has an own component: no edge leaves it but to earlier ones, and *)
(* its functions reach each other through the root.                        *)
LEMMA LeaveRootDone ==
    ASSUME TarjanInv, Leave, low[Visit.v] = index[Visit.v]
    PROVE  DoneInv'
  <1> DEFINE n == Len(visits)
             v == Visit.v
             C == {x \in ToSet(stack) : index[v] <= index[x]}
             D == {x \in Functions : scc[x] # 0}
  <1>1. /\ p' = p /\ p \in CallPrograms /\ Functions' = Functions
        /\ n \in Nat \ {0} /\ v \in Functions /\ v = visits[n].v /\ v \in ToSet(stack)
        /\ \A j \in 1 .. n : visits[j].v \in Functions
        /\ \A j \in 1 .. n - 1 : index[visits[j].v] < index[v]
        /\ ToSet(stack) \subseteq Functions
        /\ \A x \in Functions : index[x] \in Nat /\ low[x] \in Nat
    BY LeaveFacts
  <1>2. /\ \A x \in ToSet(stack) : \E j \in 1 .. n : index[visits[j].v] <= index[x] /\ Joins(p, x, visits[j].v)
        /\ \A x \in ToSet(stack) : \A j \in 1 .. n : index[visits[j].v] <= index[x] => Joins(p, visits[j].v, x)
    BY DEF TarjanInv, PathInv
  <1>3. \A x \in ToSet(stack) : \A i \in 1 .. Len(Arcs(p, x)) : Seen(visits, x, i) =>
            /\ index[Arcs(p, x)[i]] # 0
            /\ Arcs(p, x)[i] \in ToSet(stack) =>
                  \A j \in 1 .. n : index[visits[j].v] <= index[x] =>
                      \E k \in j .. n : low[visits[k].v] <= index[Arcs(p, x)[i]]
    BY DEF TarjanInv, ArcInv
  <1>4. \A x \in Functions : x \in ToSet(stack) <=> index[x] # 0 /\ scc[x] = 0
    BY DEF TarjanInv, StackInv
  <1>5. /\ \A x \in D : scc[x] \in D /\ scc[scc[x]] = scc[x] /\ Out(p, x) \subseteq D
        /\ \A x, y \in D : scc[x] = scc[y] => Joins(p, x, y)
        /\ \A x \in D : \A y \in Functions : Joins(p, x, y) /\ Joins(p, y, x) => scc[y] = scc[x]
    <2>1. \A x \in D : Out(p, x) \subseteq Functions
      BY <1>1, ProgramFacts
    <2> QED
      BY <2>1 DEF TarjanInv, DoneInv
  <1>6. /\ scc' = [f \in Functions |-> IF f \in ToSet(stack) /\ index[v] <= index[f] THEN v ELSE scc[f]]
    BY PopFacts
  <1>7. low[v] = index[v] /\ v # 0
    BY <1>1, ProgramFacts DEF Functions
  <1>8. \A x \in Functions : \A i \in 1 .. Len(Arcs(p, x)) : (\A j \in 1 .. n - 1 : visits[j].v # x) => Seen(visits, x, i)
    <2> SUFFICES ASSUME NEW x \in Functions, NEW i \in 1 .. Len(Arcs(p, x)), \A j \in 1 .. n - 1 : visits[j].v # x
                 PROVE  Seen(visits, x, i)
      OBVIOUS
    <2>1. Len(visits') = n - 1 /\ \A j \in 1 .. n - 1 : visits'[j] = visits[j]
      BY LeaveFacts
    <2>2. Seen(visits', x, i)
      BY <2>1 DEF Seen
    <2> QED
      BY <2>2, LeaveFacts
  <1> HIDE DEF n, v
  <1>9. C \subseteq Functions /\ D \subseteq Functions /\ C \cap D = {} /\ v \in C
    BY <1>1, <1>4
  <1>10. \A x \in Functions : scc'[x] = IF x \in C THEN v ELSE scc[x]
    BY <1>6
  <1>11. ASSUME NEW x \in C, NEW y \in Out(p, x) PROVE y \in C \cup D
    <2>0. x \in Functions /\ y \in Functions /\ x \in ToSet(stack) /\ index[v] <= index[x]
      BY <1>1, <1>9, ProgramFacts
    <2>1. PICK i \in 1 .. Len(Arcs(p, x)) : y = Arcs(p, x)[i]
      BY <1>1, <2>0, ProgramFacts
    <2>2. \A j \in 1 .. n - 1 : visits[j].v # x
      BY <1>1, <2>0
    <2>3. index[y] # 0 /\ (y \in ToSet(stack) => \A j \in 1 .. n : index[visits[j].v] <= index[x] =>
                                                    \E k \in j .. n : low[visits[k].v] <= index[y])
      BY <1>3, <1>8, <2>0, <2>1, <2>2
    <2>4. CASE y \in ToSet(stack)
      <3>1. n \in 1 .. n /\ \A k \in n .. n : k = n
        BY <1>1
      <3>2. index[v] <= index[y]
        BY <1>1, <1>7, <2>0, <2>3, <2>4, <3>1
      <3> QED
        BY <2>4, <3>2
    <2>5. CASE y \notin ToSet(stack)
      BY <1>4, <2>0, <2>3, <2>5
    <2> QED
      BY <2>4, <2>5
  <1>12. ASSUME NEW x \in C PROVE x \in Functions /\ Joins(p, v, x) /\ Joins(p, x, v)
    <2>0. x \in ToSet(stack) /\ index[v] <= index[x] /\ x \in Functions /\ n \in 1 .. n
      BY <1>1, <1>9
    <2>1. Joins(p, v, x)
      BY <1>1, <1>2, <2>0
    <2>2. PICK j \in 1 .. n : index[visits[j].v] <= index[x] /\ Joins(p, x, visits[j].v)
      BY <1>2, <2>0
    <2>3. index[visits[j].v] <= index[v]
      <3>1. j = n \/ j \in 1 .. n - 1
        BY <1>1
      <3>2. index[v] \in Nat /\ index[visits[j].v] \in Nat
        BY <1>1
      <3> QED
        BY <1>1, <3>1, <3>2
    <2>4. Joins(p, visits[j].v, v)
      BY <1>1, <1>2, <2>3
    <2>5. Joins(p, x, v)
      BY <1>1, <2>0, <2>2, <2>4, JoinsOn
    <2> QED
      BY <2>0, <2>1, <2>5
  <1> HIDE DEF C, D
  <1>13. ASSUME NEW x \in Functions, scc'[x] # 0 PROVE x \in C \cup D
    BY <1>10, <1>13 DEF D
  <1>14. \A x \in C \cup D : scc'[x] # 0
    BY <1>7, <1>9, <1>10 DEF D
  <1>15. ASSUME NEW x \in C \cup D
         PROVE  /\ scc'[x] \in Functions /\ scc'[scc'[x]] = scc'[x]
                /\ \A y \in Out(p, x) : scc'[y] # 0
    <2>1. CASE x \in C
      BY <1>1, <1>9, <1>10, <1>11, <1>14, <2>1
    <2>2. CASE x \in D
      <3>1. x \notin C /\ x \in Functions /\ scc[x] \in D /\ scc[x] \notin C /\ scc[x] \in Functions
        BY <1>5, <1>9, <2>2
      <3> QED
        BY <1>5, <1>10, <1>14, <2>2, <3>1
    <2> QED
      BY <2>1, <2>2
  <1>16. ASSUME NEW x \in C \cup D, NEW y \in C \cup D, scc'[x] = scc'[y] PROVE Joins(p, x, y)
    <2>1. CASE x \in C /\ y \in C
      BY <1>1, <1>12, <2>1, JoinsOn
    <2>2. CASE x \in D /\ y \in D
      BY <1>5, <1>9, <1>10, <1>16, <2>2
    <2>3. ASSUME NEW a \in C, NEW b \in D PROVE scc'[a] # scc'[b]
      <3>1. scc'[a] = v /\ scc'[b] = scc[b] /\ scc[b] \in D /\ v \notin D
        BY <1>5, <1>9, <1>10, <2>3
      <3> QED
        BY <3>1
    <2> QED
      BY <1>16, <2>1, <2>2, <2>3
  <1>17. ASSUME NEW x \in C \cup D, NEW y \in Functions, Joins(p, x, y), Joins(p, y, x)
         PROVE  scc'[y] = scc'[x]
    <2>1. CASE x \in D
      <3>1. scc[y] = scc[x] /\ y \in D
        BY <1>5, <1>17, <2>1 DEF D
      <3> QED
        BY <1>9, <1>10, <2>1, <3>1
    <2>2. CASE x \in C
      <3>1. y \in C \cup D
        <4>1. C \cup D \in SUBSET Functions /\ \A g \in C \cup D : Out(p, g) \subseteq C \cup D
          BY <1>5, <1>9, <1>11
        <4> QED
          BY <1>1, <1>17, <4>1, JoinsInside
      <3>2. y \notin D
        <4>1. D \in SUBSET Functions /\ \A g \in D : Out(p, g) \subseteq D
          BY <1>5, <1>9
        <4>2. y \in D => x \in D
          BY <1>1, <1>17, <4>1, JoinsInside
        <4> QED
          BY <1>9, <2>2, <4>2
      <3> QED
        BY <1>9, <1>10, <2>2, <3>1, <3>2
    <2> QED
      BY <2>1, <2>2
  <1>18. /\ \A x \in Functions : scc'[x] # 0 =>
              /\ scc'[x] \in Functions /\ scc'[scc'[x]] = scc'[x]
              /\ \A y \in Out(p, x) : scc'[y] # 0
         /\ \A x, y \in Functions : scc'[x] # 0 /\ scc'[x] = scc'[y] => Joins(p, x, y)
         /\ \A x, y \in Functions : scc'[x] # 0 /\ Joins(p, x, y) /\ Joins(p, y, x) => scc'[y] = scc'[x]
    BY <1>13, <1>15, <1>16, <1>17
  <1> QED
    BY <1>1, <1>18 DEF DoneInv

(* What is left on the stacks loses nothing it relied on.                  *)
LEMMA LeaveRoot ==
    ASSUME TarjanInv, Leave, low[Visit.v] = index[Visit.v]
    PROVE  TarjanInv'
  <1> DEFINE n == Len(visits)
             v == Visit.v
  <1>1. /\ UNCHANGED <<p, index, verdict>> /\ verdict = "none" /\ p \in CallPrograms
        /\ Functions' = Functions /\ VisitRecord' = VisitRecord /\ NextIndex' = NextIndex
        /\ n \in Nat \ {0} /\ v \in Functions /\ v = visits[n].v /\ v \in ToSet(stack)
        /\ \A j \in 1 .. n : visits[j].v \in Functions /\ visits[j].v \in ToSet(stack)
        /\ \A j \in 1 .. n - 1 : index[visits[j].v] < index[v]
        /\ ToSet(stack) \subseteq Functions
        /\ \A x \in Functions : index[x] \in Nat /\ low[x] \in Nat
    BY LeaveFacts
  <1>2. /\ visits' \in Seq(VisitRecord) /\ Len(visits') = n - 1
        /\ \A j \in 1 .. n - 1 : visits'[j] = visits[j]
        /\ low' \in [Functions -> Nat] /\ \A x \in Functions : low'[x] <= low[x]
        /\ \A j \in 1 .. n - 1 : \/ low'[visits[j].v] = low[visits[j].v]
                                 \/ j = n - 1 /\ low'[visits[j].v] = low[v]
        /\ \A x \in Functions : \A i \in 1 .. Len(Arcs(p, x)) : Seen(visits', x, i) => Seen(visits, x, i)
    BY LeaveFacts
  <1>3. /\ \A j, k \in 1 .. n : j < k => index[visits[j].v] < index[visits[k].v]
        /\ \A x \in ToSet(stack) : \E j \in 1 .. n : index[visits[j].v] <= index[x] /\ Joins(p, x, visits[j].v)
        /\ \A x \in ToSet(stack) : \A j \in 1 .. n : index[visits[j].v] <= index[x] => Joins(p, visits[j].v, x)
    BY DEF TarjanInv, PathInv
  <1>4. \A j \in 1 .. n : /\ low[visits[j].v] <= index[visits[j].v]
                          /\ \E y \in ToSet(stack) : index[y] = low[visits[j].v] /\ Joins(p, visits[j].v, y)
    BY DEF TarjanInv, LowInv
  <1>5. \A x \in ToSet(stack) : \A i \in 1 .. Len(Arcs(p, x)) : Seen(visits, x, i) =>
            /\ index[Arcs(p, x)[i]] # 0
            /\ Arcs(p, x)[i] \in ToSet(stack) =>
                  \A j \in 1 .. n : index[visits[j].v] <= index[x] =>
                      \E k \in j .. n : low[visits[k].v] <= index[Arcs(p, x)[i]]
    BY DEF TarjanInv, ArcInv
  <1>6. /\ stack' \in Seq(Functions)
        /\ \A x : x \in ToSet(stack') <=> x \in ToSet(stack) /\ index[x] < index[v]
        /\ \A j, k \in 1 .. Len(stack') : j < k => index[stack'[j]] < index[stack'[k]]
        /\ scc' = [f \in Functions |-> IF f \in ToSet(stack) /\ index[v] <= index[f] THEN v ELSE scc[f]]
    BY PopFacts
  <1>7. low[v] = index[v] /\ v \in Nat \ {0} /\ scc \in [Functions -> Nat]
    BY <1>1, ProgramFacts DEF Functions, TarjanInv, CheckTypeOK
  <1>8. \A x \in Functions : x \in ToSet(stack) <=> index[x] # 0 /\ scc[x] = 0
    BY DEF TarjanInv, StackInv
  <1>9. /\ \A x \in Functions : index[x] < NextIndex /\ (index[x] = 0 => scc[x] = 0)
        /\ \A x, y \in Functions : index[x] = index[y] /\ index[x] # 0 => x = y
    BY DEF TarjanInv, NumberInv
  <1> HIDE DEF n, v
  <1>10. \A j \in 1 .. n - 1 : j \in 1 .. n /\ visits'[j] = visits[j] /\ visits[j].v \in Functions
                                 /\ visits[j].v \in ToSet(stack')
    <2> SUFFICES ASSUME NEW j \in 1 .. n - 1
                 PROVE  j \in 1 .. n /\ visits'[j] = visits[j] /\ visits[j].v \in Functions
                          /\ visits[j].v \in ToSet(stack')
      OBVIOUS
    <2>1. j \in 1 .. n
      BY <1>1
    <2>2. visits[j].v \in Functions /\ visits[j].v \in ToSet(stack) /\ index[visits[j].v] < index[v]
      BY <1>1, <2>1
    <2> QED
      BY <1>2, <1>6, <2>1, <2>2
  <1>11. CheckTypeOK'
    <2>1. scc' \in [Functions -> Nat]
      BY <1>6, <1>7
    <2> QED
      BY <1>1, <1>2, <1>6, <2>1 DEF TarjanInv, CheckTypeOK
  <1>12. NumberInv'
    <2>1. \A x \in Functions : index[x] = 0 => scc'[x] = 0
      BY <1>6, <1>8, <1>9
    <2> QED
      BY <1>1, <1>9, <2>1 DEF NumberInv
  <1>13. StackInv'
    <2>1. ASSUME NEW x \in Functions PROVE x \in ToSet(stack') <=> index[x] # 0 /\ scc'[x] = 0
      <3>1. scc'[x] = IF x \in ToSet(stack) /\ index[v] <= index[x] THEN v ELSE scc[x]
        BY <1>6
      <3>2. index[x] \in Nat /\ index[v] \in Nat
        BY <1>1
      <3> QED
        BY <1>6, <1>7, <1>8, <3>1, <3>2
    <2> QED
      BY <1>1, <1>6, <2>1 DEF StackInv
  <1>14. PathInv'
    <2>1. \A j \in 1 .. n - 1 : visits'[j].v \in ToSet(stack')
      BY <1>10
    <2>2. \A j, k \in 1 .. n - 1 : j < k => index[visits'[j].v] < index[visits'[k].v]
      BY <1>3, <1>10
    <2>3. ASSUME NEW x \in ToSet(stack')
          PROVE  \E j \in 1 .. n - 1 : index[visits'[j].v] <= index[x] /\ Joins(p, x, visits'[j].v)
      <3>0. x \in ToSet(stack) /\ index[x] < index[v] /\ index[x] \in Nat /\ index[v] \in Nat
        BY <1>1, <1>6
      <3>1. PICK j \in 1 .. n : index[visits[j].v] <= index[x] /\ Joins(p, x, visits[j].v)
        BY <1>3, <3>0
      <3>2. j # n
        BY <1>1, <3>0, <3>1
      <3>3. j \in 1 .. n - 1
        BY <1>1, <3>2
      <3> QED
        BY <1>10, <3>1, <3>3
    <2>4. \A x \in ToSet(stack') : \A j \in 1 .. n - 1 :
             index[visits'[j].v] <= index[x] => Joins(p, visits'[j].v, x)
      BY <1>3, <1>6, <1>10
    <2> QED
      BY <1>1, <1>2, <2>1, <2>2, <2>3, <2>4 DEF PathInv
  <1>15. ASSUME NEW j \in 1 .. n - 1 PROVE low'[visits[j].v] = low[visits[j].v] /\ low[visits[j].v] < index[v]
    <2>1. low[visits[j].v] <= index[visits[j].v] /\ index[visits[j].v] < index[v]
             /\ low[visits[j].v] \in Nat /\ index[visits[j].v] \in Nat /\ index[v] \in Nat
      BY <1>1, <1>4, <1>10
    <2>2. low[visits[j].v] < index[v]
      BY <2>1
    <2>3. low'[visits[j].v] <= low[visits[j].v]
      BY <1>2, <1>10
    <2>4. low'[visits[j].v] = low[visits[j].v] \/ low'[visits[j].v] = index[v]
      BY <1>2, <1>7
    <2> QED
      BY <2>1, <2>2, <2>3, <2>4
  <1>16. LowInv'
    <2>1. ASSUME NEW j \in 1 .. n - 1
          PROVE  /\ low'[visits'[j].v] <= index[visits'[j].v]
                 /\ \E y \in ToSet(stack') : index[y] = low'[visits'[j].v] /\ Joins(p, visits'[j].v, y)
      <3>1. PICK y \in ToSet(stack) : index[y] = low[visits[j].v] /\ Joins(p, visits[j].v, y)
        BY <1>4, <1>10
      <3>2. y \in ToSet(stack')
        BY <1>6, <1>15, <3>1
      <3> QED
        BY <1>4, <1>10, <1>15, <3>1, <3>2
    <2> QED
      BY <1>1, <1>2, <2>1 DEF LowInv
  <1>17. ArcInv'
    <2>1. ASSUME NEW x \in ToSet(stack'), NEW i \in 1 .. Len(Arcs(p, x)), Seen(visits', x, i)
          PROVE  /\ index[Arcs(p, x)[i]] # 0
                 /\ Arcs(p, x)[i] \in ToSet(stack') =>
                       \A j \in 1 .. n - 1 : index[visits'[j].v] <= index[x] =>
                           \E k \in j .. n - 1 : low'[visits'[k].v] <= index[Arcs(p, x)[i]]
      <3> DEFINE z == Arcs(p, x)[i]
      <3>0. x \in ToSet(stack) /\ x \in Functions /\ z \in Functions /\ Seen(visits, x, i) /\ index[z] # 0
        BY <1>1, <1>2, <1>5, <1>6, <2>1, ProgramFacts
      <3>1. ASSUME z \in ToSet(stack'), NEW j \in 1 .. n - 1, index[visits'[j].v] <= index[x]
            PROVE  \E k \in j .. n - 1 : low'[visits'[k].v] <= index[z]
        <4>1. z \in ToSet(stack) /\ index[z] < index[v] /\ index[z] \in Nat /\ index[v] \in Nat
          BY <1>1, <1>6, <3>0, <3>1
        <4>2. PICK k \in j .. n : low[visits[k].v] <= index[z]
          BY <1>5, <1>10, <3>0, <3>1, <4>1
        <4> HIDE DEF z
        <4>3. k # n
          BY <1>1, <1>7, <4>1, <4>2
        <4>4. k \in j .. n - 1 /\ k \in 1 .. n - 1
          BY <1>1, <4>3
        <4> QED
          BY <1>10, <1>15, <4>2, <4>4
      <3> QED
        BY <3>0, <3>1
    <2> QED
      BY <1>1, <1>2, <2>1 DEF ArcInv
  <1> QED
    BY <1>11, <1>12, <1>13, <1>14, <1>16, <1>17, LeaveRootDone DEF TarjanInv

-----------------------------------------------------------------------------

LEMMA InitTarjan == Init => TarjanInv
  <1> SUFFICES ASSUME Init PROVE TarjanInv
    OBVIOUS
  <1>1. /\ p \in CallPrograms /\ index = [f \in Functions |-> 0] /\ low = index /\ scc = index
        /\ stack = <<>> /\ visits = <<>> /\ verdict = "none"
    BY DEF Init, CheckInit
  <1>2. CheckTypeOK
    BY <1>1 DEF CheckTypeOK
  <1>3. Len(visits) = 0 /\ Len(stack) = 0 /\ ToSet(stack) = {} /\ \A x \in Functions : index[x] = 0 /\ scc[x] = 0
    BY <1>1 DEF ToSet
  <1>4. NextIndex \in Nat \ {0}
    BY <1>2, NumberFacts
  <1>5. NumberInv /\ StackInv /\ DoneInv
    BY <1>3, <1>4 DEF NumberInv, StackInv, DoneInv
  <1>6. PathInv /\ LowInv /\ ArcInv
    BY <1>3 DEF PathInv, LowInv, ArcInv
  <1> QED
    BY <1>2, <1>5, <1>6 DEF TarjanInv

(* A step that leaves the check alone, or only gives its verdict.          *)
LEMMA TarjanKept ==
    ASSUME TarjanInv, UNCHANGED <<p, index, low, scc, stack, visits>>,
           verdict' \in {"none", "accept", "recursion"}, visits # <<>> => verdict' = "none"
    PROVE  TarjanInv'
  <1>1. Functions' = Functions /\ VisitRecord' = VisitRecord /\ NextIndex' = NextIndex
    BY DEF Functions, VisitRecord, NextIndex
  <1>2. CheckTypeOK'
    BY <1>1 DEF TarjanInv, CheckTypeOK
  <1>3. NumberInv' /\ StackInv'
    BY <1>1 DEF TarjanInv, NumberInv, StackInv
  <1>4. PathInv' /\ LowInv'
    BY DEF TarjanInv, PathInv, LowInv
  <1>5. ArcInv'
    BY DEF TarjanInv, ArcInv
  <1>6. DoneInv'
    BY <1>1 DEF TarjanInv, DoneInv
  <1> QED
    BY <1>2, <1>3, <1>4, <1>5, <1>6 DEF TarjanInv

(* Calls leave the check alone.                                            *)
LEMMA RunningKeeps ==
    ASSUME [Next]_vars, ~CheckRecursion
    PROVE  UNCHANGED <<p, checking>>
  BY DEF Next, Rejected, HostCall, CallStmt, SkipStmt, StoreArg, EnterBody, StoreIntoParam, Fail,
         EndCall, vars

LEMMA StepTarjan == TarjanInv /\ [Next]_vars => TarjanInv'
  <1> SUFFICES ASSUME TarjanInv, [Next]_vars PROVE TarjanInv'
    OBVIOUS
  <1>1. CASE Root
    BY <1>1, RootEnters
  <1>2. CASE Neighbour
    BY <1>2, NeighbourEnters, NeighbourSeen
  <1>3. CASE Leave
    BY <1>3, LeaveUp, LeaveRoot
  <1>4. CASE Decide
    BY <1>4, TarjanKept DEF Decide
  <1>5. CASE ~CheckRecursion
    <2>1. UNCHANGED <<p, index, low, scc, stack, visits, verdict>>
      BY <1>5, RunningKeeps DEF checking
    <2> QED
      BY <2>1, TarjanKept DEF TarjanInv, CheckTypeOK
  <1> QED
    BY <1>1, <1>2, <1>3, <1>4, <1>5 DEF CheckRecursion, CheckStep

-----------------------------------------------------------------------------

(* Where no search is under way every numbered function has its component. *)
LEMMA AllDone ==
    ASSUME TarjanInv, visits = <<>>, \A f \in Functions : index[f] # 0
    PROVE  \A f \in Functions : scc[f] # 0
  <1>1. Len(visits) = 0
    OBVIOUS
  <1>2. ToSet(stack) = {}
    BY <1>1 DEF TarjanInv, PathInv
  <1> QED
    BY <1>2 DEF TarjanInv, StackInv

(* The functions recursion is reported for are those that reach themselves.*)
LEMMA RecursiveIs ==
    ASSUME TarjanInv, \A f \in Functions : scc[f] # 0, NEW f \in Functions
    PROVE  Recursive(f) <=> f \in Reach(p, f)
  <1>1. p \in CallPrograms
    BY DEF TarjanInv, CheckTypeOK
  <1>2. /\ \A x, y \in Functions : scc[x] = scc[y] => Joins(p, x, y)
        /\ \A x, y \in Functions : Joins(p, x, y) /\ Joins(p, y, x) => scc[y] = scc[x]
    BY DEF TarjanInv, DoneInv
  <1>3. f \in Component(f) /\ \A h : h \in Component(f) <=> h \in Functions /\ scc[h] = scc[f]
    BY DEF Component
  <1>4. ToSet(Adj(f)) = Out(p, f)
    BY <1>1, ProgramFacts DEF Out
  <1>5. ASSUME Recursive(f) PROVE f \in Reach(p, f)
    <2>1. CASE f \in ToSet(Adj(f))
      BY <1>1, <1>4, <2>1, ReachClosed
    <2>2. CASE Component(f) # {f}
      <3>1. PICK h \in Component(f) : h # f
        BY <1>3, <2>2
      <3>2. h \in Functions /\ h \in Reach(p, f) /\ f \in Reach(p, h)
        BY <1>2, <1>3, <3>1 DEF Joins
      <3> QED
        BY <1>1, <3>2, ReachOn
    <2> QED
      BY <1>5, <2>1, <2>2 DEF Recursive
  <1>6. ASSUME f \in Reach(p, f), ~Recursive(f) PROVE FALSE
    <2> DEFINE T == {y \in Reach(p, f) : y # f /\ f \notin Reach(p, y)}
    <2>0. Reach(p, f) \subseteq Functions /\ Out(p, f) \subseteq Reach(p, f)
             /\ \A y \in Reach(p, f) : Out(p, y) \subseteq Reach(p, f)
      BY <1>1, ReachClosed
    <2>1. Component(f) = {f} /\ f \notin Out(p, f)
      BY <1>4, <1>6 DEF Recursive
    <2>2. ASSUME NEW y \in Out(p, f) PROVE y \in T
      <3>1. y \in Reach(p, f) /\ y # f /\ y \in Functions
        BY <2>0, <2>1, <2>2
      <3>2. ASSUME f \in Reach(p, y) PROVE FALSE
        <4>1. Joins(p, f, y) /\ Joins(p, y, f)
          BY <3>1, <3>2 DEF Joins
        <4>2. y \in Component(f)
          BY <1>2, <1>3, <3>1, <4>1
        <4> QED
          BY <2>1, <3>1, <4>2
      <3> QED
        BY <3>1, <3>2
    <2>3. ASSUME NEW y \in T, NEW z \in Out(p, y) PROVE z \in T
      <3>1. y \in Functions /\ z \in Reach(p, f) /\ z \in Reach(p, y) /\ Reach(p, z) \subseteq Reach(p, y)
        BY <1>1, <2>0, <2>3, ReachClosed, ReachOn
      <3> QED
        BY <2>3, <3>1
    <2>4. T \in SUBSET Functions
      BY <2>0
    <2>5. Reach(p, f) \subseteq T
      BY <2>2, <2>3, <2>4, ReachLeast
    <2> QED
      BY <1>6, <2>5
  <1> QED
    BY <1>5, <1>6

(* What a call may lead to is closed under calls, and the least such set;  *)
(* among the entry's functions it is what the check sees.                  *)
LEMMA LeadsFacts ==
    ASSUME p \in CallPrograms, NEW f \in Functions
    PROVE  /\ Leads(f) \subseteq Functions /\ ToSet(p.calls[f]) \subseteq Leads(f)
           /\ \A g \in Leads(f) : ToSet(p.calls[g]) \subseteq Leads(f)
           /\ \A T \in SUBSET Functions :
                 ToSet(p.calls[f]) \subseteq T /\ (\A g \in T : ToSet(p.calls[g]) \subseteq T) => Leads(f) \subseteq T
  <1> DEFINE K(x) == ToSet(p.calls[x])
  <1>1. \A x \in Functions : K(x) \subseteq Functions
    BY ProgramFacts
  <1> HIDE DEF K
  <1>2. Leads(f) = {h \in Functions : \A T \in SUBSET Functions :
                        (K(f) \subseteq T /\ \A g \in T : K(g) \subseteq T) => h \in T}
    BY DEF Leads, LeadsIn, Functions, K
  <1>3. Leads(f) \subseteq Functions /\ K(f) \subseteq Leads(f)
    BY <1>1, <1>2
  <1>4. ASSUME NEW g \in Leads(f), NEW y \in K(g) PROVE y \in Leads(f)
    <2>1. y \in Functions
      BY <1>1, <1>3, <1>4
    <2>2. ASSUME NEW T \in SUBSET Functions, K(f) \subseteq T, \A h \in T : K(h) \subseteq T PROVE y \in T
      <3>1. g \in T
        BY <1>2, <1>4, <2>2
      <3> QED
        BY <1>4, <2>2, <3>1
    <2> QED
      BY <1>2, <2>1, <2>2
  <1>5. ASSUME NEW T \in SUBSET Functions, K(f) \subseteq T, \A g \in T : K(g) \subseteq T
        PROVE  Leads(f) \subseteq T
    BY <1>2, <1>5
  <1> QED
    BY <1>3, <1>4, <1>5 DEF K

LEMMA LeadsOn ==
    ASSUME p \in CallPrograms, NEW f \in Functions, NEW g \in Leads(f)
    PROVE  Leads(g) \subseteq Leads(f)
  BY LeadsFacts

LEMMA ReachLeads ==
    ASSUME p \in CallPrograms, NEW f \in Functions
    PROVE  /\ Reach(p, f) \subseteq Leads(f)
           /\ f \in Reach(p, f) <=> f \in p.entry /\ f \in Leads(f)
  <1>0. \A x \in Functions : Out(p, x) = IF x \in p.entry THEN ToSet(p.calls[x]) ELSE {}
    BY DEF Out, Arcs, ToSet
  <1>1. Reach(p, f) \subseteq Leads(f)
    <2>1. Leads(f) \in SUBSET Functions /\ Out(p, f) \subseteq Leads(f)
             /\ \A g \in Leads(f) : Out(p, g) \subseteq Leads(f)
      BY <1>0, LeadsFacts
    <2> QED
      BY <2>1, ReachLeast
  <1>2. f \notin p.entry => Reach(p, f) = {}
    <2>1. f \notin p.entry => Out(p, f) \subseteq {}
      BY <1>0
    <2> QED
      BY <2>1, ReachLeast
  <1>3. ASSUME f \in p.entry PROVE Leads(f) \cap p.entry \subseteq Reach(p, f)
    <2> DEFINE T == Reach(p, f) \cup (Functions \ p.entry)
    <2>1. Reach(p, f) \subseteq Functions /\ Out(p, f) \subseteq Reach(p, f)
             /\ \A g \in Reach(p, f) : Out(p, g) \subseteq Reach(p, f)
      BY ReachClosed
    <2>2. ASSUME NEW g \in Functions, g \notin p.entry PROVE ToSet(p.calls[g]) \subseteq Functions \ p.entry
      <3>1. ToSet(p.calls[g]) \subseteq Functions
        BY ProgramFacts
      <3>2. ToSet(p.calls[g]) \cap p.entry = {}
        BY <2>2, CallProgramsAssumption DEF IsCallProgram, Functions
      <3> QED
        BY <3>1, <3>2
    <2>3. ASSUME NEW g \in T PROVE ToSet(p.calls[g]) \subseteq T
      <3>1. CASE g \in p.entry
        <4>1. g \in Reach(p, f) /\ g \in Functions
          BY <2>1, <2>3, <3>1
        <4> QED
          BY <1>0, <2>1, <3>1, <4>1
      <3>2. CASE g \notin p.entry
        BY <2>1, <2>2, <2>3, <3>2
      <3> QED
        BY <3>1, <3>2
    <2>4. T \in SUBSET Functions /\ ToSet(p.calls[f]) \subseteq T
      BY <1>0, <1>3, <2>1
    <2>5. Leads(f) \subseteq T
      BY <2>3, <2>4, LeadsFacts
    <2> QED
      BY <2>5
  <1> QED
    BY <1>1, <1>2, <1>3

(* The verdict, from the components.                                       *)
LEMMA DecideVerdict == ASSUME TarjanInv, Decide PROVE RecursionVerdict'
  <1>1. /\ p \in CallPrograms /\ p' = p
        /\ \A f \in Functions : scc[f] # 0
    BY AllDone DEF Decide, TarjanInv, CheckTypeOK
  <1>2. \A f \in Functions : Recursive(f) <=> f \in p.entry /\ f \in LeadsIn(p, f)
    BY <1>1, RecursiveIs, ReachLeads DEF Leads
  <1>3. p.entry \subseteq Functions /\ Functions \subseteq Nat
    BY <1>1, ProgramFacts DEF Functions
  <1> DEFINE looping == {f \in p.entry : f \in LeadsIn(p, f)}
  <1>4. CASE \A f \in Functions : ~Recursive(f)
    <2>1. looping = {} /\ verdict' = "accept"
      BY <1>2, <1>3, <1>4 DEF Decide
    <2> QED
      BY <1>1, <2>1 DEF RecursionVerdict, Leads
  <1>5. CASE \E f \in Functions : Recursive(f)
    <2>1. verdict' = "recursion"
      BY <1>5 DEF Decide
    <2>2. PICK f \in Functions : /\ Recursive(f) /\ \A h \in 1 .. f - 1 : ~Recursive(h)
                                 /\ site' \in InsideOf(f)
      BY <1>5 DEF Decide
    <2>3. f \in looping /\ \A h \in looping : f <= h
      <3>1. ASSUME NEW h \in looping PROVE f <= h
        <4>1. h \in Functions /\ Recursive(h) /\ h \in Nat /\ f \in Nat /\ (h \in 1 .. f - 1 \/ f <= h)
          BY <1>2, <1>3, ProgramFacts, <1>1 DEF Functions
        <4> QED
          BY <2>2, <4>1
      <3> QED
        BY <1>2, <2>2, <3>1
    <2>4. PICK x \in Functions : \E k \in 1 .. Len(Adj(x)) : site' = <<x, k>>
      <3>1. site' \in Sites
        BY <2>2 DEF InsideOf
      <3>2. PICK x \in Functions : site' \in {<<x, k>> : k \in 1 .. Len(Adj(x))}
        BY <3>1 DEF Sites
      <3> QED
        BY <3>2
    <2>41. PICK k \in 1 .. Len(Adj(x)) : site' = <<x, k>>
      BY <2>4
    <2> DEFINE y == p.calls[x][k]
    <2>5. site'[1] = x /\ site'[2] = k
      BY <2>41
    <2>6. y \in Out(p, x) /\ x \in p.entry /\ y \in Functions
      <3>1. x \in p.entry
        BY <2>41 DEF Adj
      <3>2. Adj(x) = Arcs(p, x) /\ Arcs(p, x) = p.calls[x]
        BY <1>1, <3>1, ProgramFacts DEF Arcs
      <3> QED
        BY <1>1, <3>1, <3>2, ProgramFacts
    <2>7. scc[x] = scc[f] /\ scc[y] = scc[f]
      BY <2>2, <2>5 DEF InsideOf, Component, Callee
    <2>8. Joins(p, f, x) /\ Joins(p, y, x)
      BY <1>1, <2>6, <2>7 DEF TarjanInv, DoneInv
    <2>9. x \in LeadsIn(p, y)
      <3>1. CASE x = y
        BY <1>1, <2>6, <3>1, ReachClosed, ReachLeads DEF Leads
      <3>2. CASE x # y
        BY <1>1, <2>6, <2>8, <3>2, ReachLeads DEF Joins, Leads
      <3> QED
        BY <3>1, <3>2
    <2>10. x = f \/ x \in LeadsIn(p, f)
      BY <1>1, <2>8, ReachLeads DEF Joins, Leads
    <2>11. \E h \in looping : (\A g \in looping : h <= g) /\ (site'[1] = h \/ site'[1] \in LeadsIn(p, h))
      BY <2>3, <2>5, <2>10
    <2>12. site'[1] \in LeadsIn(p, p.calls[site'[1]][site'[2]])
      BY <2>5, <2>9
    <2> HIDE DEF y
    <2> QED
      BY <1>1, <2>1, <2>11, <2>12 DEF RecursionVerdict, Leads, Callee
  <1> QED
    BY <1>4, <1>5

LEMMA StepVerdict == TarjanInv /\ RecursionVerdict /\ [Next]_vars => RecursionVerdict'
  <1> SUFFICES ASSUME TarjanInv, RecursionVerdict, [Next]_vars PROVE RecursionVerdict'
    OBVIOUS
  <1>1. CASE Root \/ Neighbour \/ Leave
    <2>1. verdict' = "none"
      BY <1>1 DEF Root, Neighbour, Leave, Enter, TarjanInv, CheckTypeOK
    <2> QED
      BY <2>1 DEF RecursionVerdict
  <1>2. CASE Decide
    BY <1>2, DecideVerdict
  <1>3. CASE ~CheckRecursion
    <2>1. p' = p /\ verdict' = verdict /\ site' = site
      BY <1>3, RunningKeeps DEF checking
    <2> QED
      BY <2>1 DEF RecursionVerdict, Leads, Callee
  <1> QED
    BY <1>1, <1>2, <1>3 DEF CheckRecursion, CheckStep

LEMMA CheckInvariant == Spec => [](TarjanInv /\ RecursionVerdict)
  <1>1. Init => RecursionVerdict
    BY DEF Init, CheckInit, RecursionVerdict
  <1> QED
    BY <1>1, InitTarjan, StepTarjan, StepVerdict, PTL DEF Spec

(* For every program the recursion check finds exactly the recursions: what*)
(* it accepts has no function of the entry module that can call itself, and*)
(* what it reports is a call on a cycle of the first component that has one*)
(* (tc_callgraph_check_recursion).                                         *)
THEOREM AcceptedCallsDoNotRecur == Spec => []RecursionVerdict
  BY CheckInvariant, PTL

-----------------------------------------------------------------------------

(* The calls the executor is in.                                           *)
ActRecord == [f : Functions, given : Seq(ArgValues), entered : BOOLEAN, failed : BOOLEAN,
              savedFunc : Functions \cup {0}, savedIndex : Int \X Int, at : Nat \ {0}]

RunTypeOK ==
    /\ slots \in [ParamSymbols -> ArgValues]
    /\ active \in Seq(ActRecord) /\ frames \in Seq(Functions)
    /\ current \in Functions \cup {0} /\ cursor \in Int \X Int
    /\ active # <<>> => verdict = "accept"

(* No call is given more than its parameters, nor entered with less.       *)
GivenAll(q, r) == Len(r.given) <= q.params[r.f] /\ (r.entered => Len(r.given) = q.params[r.f])
GivenOf(q, acts) == \A k \in 1 .. Len(acts) : GivenAll(q, acts[k])

(* All calls but the last have been entered, and each saves the place where*)
(* its caller goes on.                                                     *)
CallerAt(acts, k) == IF k = 1 THEN Outside ELSE <<acts[k - 1].f, acts[k - 1].at>>
SavedOf(acts) == \A k \in 1 .. Len(acts) :
    /\ k < Len(acts) => acts[k].entered
    /\ acts[k].entered \/ acts[k].at = 1
    /\ acts[k].savedFunc = IF k = 1 THEN 0 ELSE acts[k - 1].f
    /\ acts[k].savedIndex = CallerAt(acts, k)

(* The context is what the entered calls make it.                          *)
Depth(acts) == IF Len(acts) # 0 /\ ~acts[Len(acts)].entered THEN Len(acts) - 1 ELSE Len(acts)
ContextOf(acts, fr, cur, csr) ==
    /\ Len(fr) = Depth(acts) /\ \A k \in 1 .. Depth(acts) : fr[k] = acts[k].f
    /\ cur = IF Depth(acts) = 0 THEN 0 ELSE acts[Depth(acts)].f
    /\ csr = CallerAt(acts, Depth(acts) + 1)

RunInv == RunTypeOK /\ GivenOf(p, active) /\ SavedOf(active) /\ ContextOf(active, frames, current, cursor)

-----------------------------------------------------------------------------

(* The calls as a sequence; the record on top.                             *)
LEMMA ActFacts ==
    ASSUME RunTypeOK
    PROVE  /\ Len(active) \in Nat /\ \A k \in 1 .. Len(active) : active[k] \in ActRecord
           /\ active # <<>> => Len(active) \in Nat \ {0} /\ Act = active[Len(active)] /\ Act \in ActRecord
           /\ active = <<>> => Len(active) = 0
  <1> DEFINE R == ActRecord
  <1>1. active \in Seq(R)
    BY DEF RunTypeOK
  <1> HIDE DEF R
  <1>2. Len(active) \in Nat /\ \A k \in 1 .. Len(active) : active[k] \in R
    BY <1>1
  <1>3. active # <<>> => Len(active) \in Nat \ {0} /\ Act = active[Len(active)] /\ Act \in R
    BY <1>1, SeqFront DEF Act
  <1>4. active = <<>> => Len(active) = 0
    OBVIOUS
  <1> QED
    BY <1>2, <1>3, <1>4 DEF R

LEMMA OnTopFacts ==
    ASSUME RunTypeOK, active # <<>>, NEW r \in ActRecord
    PROVE  /\ OnTop(r) \in Seq(ActRecord) /\ Len(OnTop(r)) = Len(active) /\ OnTop(r) # <<>>
           /\ OnTop(r)[Len(active)] = r
           /\ \A k \in 1 .. Len(active) - 1 : OnTop(r)[k] = active[k]
  <1> DEFINE R == ActRecord
  <1>1. active \in Seq(R) /\ Len(active) \in Nat \ {0} /\ r \in R
    BY ActFacts DEF RunTypeOK
  <1> HIDE DEF R
  <1>2. OnTop(r) \in Seq(R) /\ Len(OnTop(r)) = Len(active)
    BY <1>1 DEF OnTop
  <1>3. OnTop(r)[Len(active)] = r /\ \A k \in 1 .. Len(active) - 1 : OnTop(r)[k] = active[k]
    BY <1>1 DEF OnTop
  <1>4. OnTop(r) # <<>>
    BY <1>1, <1>2
  <1> QED
    BY <1>2, <1>3, <1>4 DEF R

(* A record with one field changed.                                        *)
LEMMA ActRecordFacts ==
    ASSUME NEW r \in ActRecord
    PROVE  /\ r.f \in Functions /\ r.given \in Seq(ArgValues) /\ r.entered \in BOOLEAN
           /\ r.savedFunc \in Functions \cup {0} /\ r.savedIndex \in Int \X Int /\ r.at \in Nat \ {0}
  BY DEF ActRecord

LEMMA ChangedFacts ==
    ASSUME NEW r \in ActRecord, NEW g \in Seq(ArgValues)
    PROVE  /\ [r EXCEPT !.at = @ + 1] \in ActRecord
           /\ [r EXCEPT !.given = g] \in ActRecord
           /\ [r EXCEPT !.entered = TRUE] \in ActRecord
           /\ [r EXCEPT !.failed = TRUE] \in ActRecord
  <1> DEFINE G == Seq(ArgValues)
             F == Functions \cup {0}
             I == Int \X Int
  <1>1. ActRecord = [f : Functions, given : G, entered : BOOLEAN, failed : BOOLEAN,
                     savedFunc : F, savedIndex : I, at : Nat \ {0}]
    BY DEF ActRecord
  <1>2. r \in ActRecord /\ g \in G
    OBVIOUS
  <1> HIDE DEF G, F, I
  <1>3. r.at + 1 \in Nat \ {0}
    BY <1>1, <1>2
  <1>4. [r EXCEPT !.at = r.at + 1] \in ActRecord
    BY <1>1, <1>2, <1>3
  <1>5. [r EXCEPT !.given = g] \in ActRecord
    BY <1>1, <1>2
  <1>6. [r EXCEPT !.entered = TRUE] \in ActRecord
    BY <1>1, <1>2
  <1>7. [r EXCEPT !.failed = TRUE] \in ActRecord
    BY <1>1, <1>2
  <1> QED
    BY <1>4, <1>5, <1>6, <1>7

(* The call on top changes, but not whose call it is.                      *)
LEMMA TopChanges ==
    ASSUME RunInv, active # <<>>, NEW r \in ActRecord, GivenAll(p, r), r.entered \/ r.at = 1,
           r.f = Act.f, r.savedFunc = Act.savedFunc, r.savedIndex = Act.savedIndex
    PROVE  /\ OnTop(r) \in Seq(ActRecord) /\ Len(OnTop(r)) = Len(active)
           /\ GivenOf(p, OnTop(r)) /\ SavedOf(OnTop(r))
           /\ \A k \in 1 .. Len(active) : OnTop(r)[k].f = active[k].f
  <1> DEFINE n == Len(active)
             acts == OnTop(r)
  <1>1. n \in Nat \ {0} /\ Act = active[n]
    BY ActFacts DEF RunInv
  <1>2. /\ acts \in Seq(ActRecord) /\ Len(acts) = n /\ acts[n] = r
        /\ \A k \in 1 .. n - 1 : acts[k] = active[k]
    BY OnTopFacts DEF RunInv
  <1>3. GivenOf(p, active) /\ SavedOf(active)
    BY DEF RunInv
  <1> HIDE DEF n, acts
  <1>4. \A k \in 1 .. n : k = n \/ k \in 1 .. n - 1
    BY <1>1
  <1>5. GivenOf(p, acts)
    BY <1>1, <1>2, <1>3, <1>4 DEF GivenOf, n
  <1>6. ASSUME NEW k \in 1 .. n
        PROVE  /\ k < n => acts[k].entered
               /\ acts[k].entered \/ acts[k].at = 1
               /\ acts[k].savedFunc = IF k = 1 THEN 0 ELSE acts[k - 1].f
               /\ acts[k].savedIndex = CallerAt(acts, k)
    <2>1. /\ k < n => active[k].entered
          /\ active[k].entered \/ active[k].at = 1
          /\ active[k].savedFunc = IF k = 1 THEN 0 ELSE active[k - 1].f
          /\ active[k].savedIndex = CallerAt(active, k)
      BY <1>3, <1>6 DEF SavedOf, n
    <2>2. k # 1 => k - 1 \in 1 .. n - 1
      BY <1>1
    <2>3. CallerAt(acts, k) = CallerAt(active, k) /\ (k # 1 => acts[k - 1].f = active[k - 1].f)
      BY <1>2, <2>2 DEF CallerAt
    <2>4. acts[k].savedFunc = active[k].savedFunc /\ acts[k].savedIndex = active[k].savedIndex
      BY <1>1, <1>2, <1>4
    <2>5. k < n => acts[k] = active[k]
      BY <1>1, <1>2, <1>4
    <2>6. acts[k].entered \/ acts[k].at = 1
      BY <1>2, <1>4, <2>1
    <2> QED
      BY <2>1, <2>3, <2>4, <2>5, <2>6
  <1>7. SavedOf(acts)
    BY <1>2, <1>6 DEF SavedOf
  <1>8. \A k \in 1 .. n : acts[k].f = active[k].f
    BY <1>1, <1>2, <1>4
  <1> QED
    BY <1>2, <1>5, <1>7, <1>8 DEF n, acts

(* A call begins.                                                          *)
LEMMA CallBegins ==
    ASSUME p \in CallPrograms, NEW acts \in Seq(ActRecord), GivenOf(p, acts), SavedOf(acts),
           Len(acts) # 0 => acts[Len(acts)].entered,
           NEW g \in Functions, NEW b \in ActRecord,
           b.f = g, b.given = <<>>, ~b.entered, b.at = 1,
           b.savedFunc = IF Len(acts) = 0 THEN 0 ELSE acts[Len(acts)].f,
           b.savedIndex = CallerAt(acts, Len(acts) + 1)
    PROVE  /\ Append(acts, b) \in Seq(ActRecord) /\ Len(Append(acts, b)) = Len(acts) + 1
           /\ GivenOf(p, Append(acts, b)) /\ SavedOf(Append(acts, b))
           /\ Depth(Append(acts, b)) = Len(acts)
           /\ CallerAt(Append(acts, b), Len(acts) + 1) = CallerAt(acts, Len(acts) + 1)
           /\ \A k \in 1 .. Len(acts) : Append(acts, b)[k] = acts[k]
           /\ Append(acts, b)[Len(acts) + 1].f = g
  <1> DEFINE n == Len(acts)
             new == Append(acts, b)
  <1>1. /\ n \in Nat /\ new \in Seq(ActRecord) /\ Len(new) = n + 1 /\ new[n + 1] = b
        /\ \A k \in 1 .. n : new[k] = acts[k]
    BY SeqAppend, SeqMembers
  <1>2. p.params[g] \in Nat
    BY ParamsAssumption DEF Functions
  <1> HIDE DEF n, new
  <1>3. \A k \in 1 .. n + 1 : k = n + 1 \/ (k \in 1 .. n /\ k < n + 1 /\ (k < n \/ k = n))
    BY <1>1
  <1>4. GivenAll(p, b)
    BY <1>2 DEF GivenAll
  <1>5. GivenOf(p, new)
    BY <1>1, <1>3, <1>4 DEF GivenOf, n
  <1>6. \A k \in 2 .. n + 1 : k - 1 \in 1 .. n /\ new[k - 1] = acts[k - 1]
    BY <1>1
  <1>7. \A k \in 1 .. n + 1 : k = 1 \/ k \in 2 .. n + 1
    BY <1>1
  <1>8. \A k \in 1 .. n + 1 : CallerAt(new, k) = CallerAt(acts, k)
    BY <1>6, <1>7 DEF CallerAt
  <1>9. ASSUME NEW k \in 1 .. n + 1
        PROVE  /\ k < n + 1 => new[k].entered
               /\ new[k].entered \/ new[k].at = 1
               /\ new[k].savedFunc = IF k = 1 THEN 0 ELSE new[k - 1].f
               /\ new[k].savedIndex = CallerAt(new, k)
    <2>1. CASE k = n + 1
      <3>1. ~(k < n + 1) /\ (k = 1 <=> n = 0) /\ (k # 1 => new[k - 1] = acts[n])
        BY <1>1, <2>1
      <3> QED
        BY <1>1, <1>8, <2>1, <3>1 DEF n
    <2>2. CASE k # n + 1
      <3>1. k \in 1 .. n /\ k < n + 1 /\ (k < n \/ k = n) /\ new[k] = acts[k] /\ n # 0
        BY <1>1, <1>3, <2>2
      <3>2. /\ k < n => acts[k].entered
            /\ acts[k].entered \/ acts[k].at = 1
            /\ acts[k].savedFunc = IF k = 1 THEN 0 ELSE acts[k - 1].f
            /\ acts[k].savedIndex = CallerAt(acts, k)
        BY <3>1 DEF SavedOf, n
      <3>3. acts[n].entered
        BY <3>1 DEF n
      <3>4. k # 1 => new[k - 1] = acts[k - 1]
        BY <1>6, <1>7
      <3> QED
        BY <1>8, <3>1, <3>2, <3>3, <3>4
    <2> QED
      BY <2>1, <2>2
  <1>10. SavedOf(new)
    BY <1>1, <1>9 DEF SavedOf
  <1>11. Depth(new) = n
    BY <1>1 DEF Depth
  <1>12. CallerAt(new, n + 1) = CallerAt(acts, n + 1)
    BY <1>1, <1>8
  <1> QED
    BY <1>1, <1>5, <1>10, <1>11, <1>12 DEF n, new

(* A call ends.                                                            *)
LEMMA CallEnds ==
    ASSUME RunInv, EndCall
    PROVE  /\ active' \in Seq(ActRecord) /\ Len(active') = Len(active) - 1
           /\ GivenOf(p, active') /\ SavedOf(active')
           /\ Depth(active') = Len(active) - 1
           /\ CallerAt(active', Len(active)) = Act.savedIndex
           /\ \A k \in 1 .. Len(active) - 1 : active'[k].f = active[k].f /\ active'[k].given = active[k].given
  <1> DEFINE n == Len(active)
             fr == Front(active)
             Alike(r, t) == /\ t.f = r.f /\ t.given = r.given /\ t.entered = r.entered /\ t.at = r.at
                            /\ t.savedFunc = r.savedFunc /\ t.savedIndex = r.savedIndex
  <1>1. active # <<>> /\ active \in Seq(ActRecord)
    BY DEF RunInv, RunTypeOK, EndCall
  <1>2. /\ n \in Nat \ {0} /\ Act = active[n]
        /\ fr \in Seq(ActRecord) /\ Len(fr) = n - 1 /\ \A k \in 1 .. n - 1 : fr[k] = active[k]
    BY <1>1, SeqFront DEF Act
  <1>3. /\ active' \in Seq(ActRecord) /\ Len(active') = n - 1
        /\ \A k \in 1 .. n - 1 : Alike(active[k], active'[k])
    <2>1. CASE n > 1 /\ Act.failed
      <3> DEFINE r == [fr[n - 1] EXCEPT !.failed = TRUE]
      <3>1. active' = [fr EXCEPT ![n - 1] = r]
        BY <2>1 DEF EndCall
      <3>2. n - 1 \in 1 .. n - 1 /\ fr[n - 1] \in ActRecord
        BY <1>2, <2>1, SeqMembers
      <3>3. r \in ActRecord /\ Alike(fr[n - 1], r)
        <4>1. r \in ActRecord
          <5>1. <<>> \in Seq(ArgValues)
            OBVIOUS
          <5> QED
            BY <3>2, <5>1, ChangedFacts
        <4>2. Alike(fr[n - 1], r)
          BY <3>2 DEF ActRecord
        <4> QED
          BY <4>1, <4>2
      <3> HIDE DEF r, fr
      <3>4. active' \in Seq(ActRecord) /\ Len(active') = Len(fr)
        <4>1. fr \in Seq(ActRecord) /\ r \in ActRecord
          BY <1>2, <3>3
        <4> QED
          BY <1>2, <3>1, <3>2, <4>1, SeqChange
      <3>5. \A k \in 1 .. n - 1 : active'[k] = IF k = n - 1 THEN r ELSE fr[k]
        BY <1>2, <3>1, <3>2
      <3> HIDE DEF Alike
      <3>6. \A k \in 1 .. n - 1 : Alike(active[k], active[k])
        BY DEF Alike
      <3> QED
        BY <1>2, <3>2, <3>3, <3>4, <3>5, <3>6
    <2>2. CASE ~(n > 1 /\ Act.failed)
      <3>1. active' = fr
        BY <2>2 DEF EndCall
      <3> QED
        BY <1>2, <3>1
    <2> QED
      BY <2>1, <2>2
  <1>4. GivenOf(p, active) /\ SavedOf(active)
    BY DEF RunInv
  <1>5. \A k \in 1 .. n - 1 : k \in 1 .. n /\ k < n
    BY <1>2
  <1> HIDE DEF fr
  <1>6. GivenOf(p, active')
    BY <1>3, <1>4, <1>5 DEF GivenOf, GivenAll
  <1>7. \A k \in 1 .. n : k # 1 => k - 1 \in 1 .. n - 1
    BY <1>2
  <1>8. \A k \in 1 .. n : CallerAt(active', k) = CallerAt(active, k)
    BY <1>3, <1>7 DEF CallerAt
  <1>9. \A k \in 1 .. n - 1 : k # 1 => active'[k - 1].f = active[k - 1].f
    BY <1>3, <1>5, <1>7
  <1>10. \A k \in 1 .. n - 1 : active'[k].entered
    BY <1>3, <1>4, <1>5 DEF SavedOf
  <1>11. SavedOf(active')
    <2>1. ASSUME NEW k \in 1 .. n - 1
          PROVE  /\ active'[k].entered
                 /\ active'[k].savedFunc = IF k = 1 THEN 0 ELSE active'[k - 1].f
                 /\ active'[k].savedIndex = CallerAt(active', k)
      <3>1. k \in 1 .. n /\ Alike(active[k], active'[k]) /\ active'[k].entered
        BY <1>3, <1>5, <1>10, <2>1
      <3>2. /\ active[k].savedFunc = IF k = 1 THEN 0 ELSE active[k - 1].f
            /\ active[k].savedIndex = CallerAt(active, k)
        BY <1>4, <3>1 DEF SavedOf
      <3> QED
        BY <1>8, <1>9, <2>1, <3>1, <3>2
    <2>2. Len(active') = n - 1
      BY <1>3
    <2> HIDE DEF n, Alike
    <2> QED
      BY <2>1, <2>2 DEF SavedOf
  <1>12. Depth(active') = n - 1
    BY <1>2, <1>3, <1>10 DEF Depth
  <1>13. n \in 1 .. n
    BY <1>2
  <1>14. CallerAt(active', n) = Act.savedIndex
    BY <1>2, <1>4, <1>8, <1>13 DEF SavedOf
  <1> QED
    BY <1>3, <1>6, <1>11, <1>12, <1>14 DEF n

(* The context of the calls, in the words of the property.                 *)
LEMMA ContextFollows == ASSUME RunInv PROVE ContextIsInnermost
  <1> DEFINE n == Len(active)
             d == Depth(active)
  <1>1. n \in Nat /\ active \in Seq(ActRecord) /\ frames \in Seq(Functions)
    BY ActFacts DEF RunInv, RunTypeOK
  <1>2. SavedOf(active) /\ ContextOf(active, frames, current, cursor)
    BY DEF RunInv
  <1>3. Len(Entered) = d /\ d \in Nat /\ \A k \in 1 .. d : Entered[k] = active[k] /\ active[k].entered
    <2>1. CASE active # <<>> /\ ~Act.entered
      <3>1. n \in Nat \ {0} /\ Act = active[n]
        BY <2>1, ActFacts DEF RunInv
      <3>2. d = n - 1 /\ Entered = Front(active)
        BY <2>1, <3>1 DEF Depth, Entered
      <3>3. Len(Front(active)) = n - 1 /\ \A k \in 1 .. n - 1 : Front(active)[k] = active[k]
        BY <1>1, <2>1, SeqFront
      <3>4. \A k \in 1 .. n - 1 : k \in 1 .. n /\ k < n
        BY <1>1
      <3> QED
        BY <1>2, <3>1, <3>2, <3>3, <3>4 DEF SavedOf
    <2>2. CASE ~(active # <<>> /\ ~Act.entered)
      <3>1. Entered = active
        BY <2>2 DEF Entered
      <3>2. n # 0 => active # <<>>
        BY <1>1
      <3>3. n # 0 => active[n].entered
        BY <2>2, <3>2, ActFacts DEF RunInv
      <3>4. d = n
        BY <3>3 DEF Depth
      <3>5. \A k \in 1 .. n : k < n \/ k = n
        BY <1>1
      <3> QED
        BY <1>1, <1>2, <3>1, <3>3, <3>4, <3>5 DEF SavedOf
    <2> QED
      BY <2>1, <2>2
  <1>4. Entered = <<>> <=> d = 0
    <2>1. Entered \in Seq(ActRecord)
      BY <1>1, SeqFront DEF Entered
    <2> DEFINE e == Entered
               R == ActRecord
    <2>2. e \in Seq(R) /\ Len(e) = d
      BY <1>3, <2>1
    <2> HIDE DEF e, R, d
    <2>3. e = <<>> <=> Len(e) = 0
      BY <2>2
    <2> QED
      BY <2>2, <2>3 DEF e
  <1>5. Entered # <<>> => Last(Entered) = active[d]
    BY <1>3, <1>4 DEF Last
  <1>6. frames = [k \in 1 .. Len(Entered) |-> Entered[k].f]
    <2>1. Len(frames) = d /\ \A k \in 1 .. d : frames[k] = Entered[k].f
      BY <1>2, <1>3 DEF ContextOf
    <2>2. frames = [k \in 1 .. Len(frames) |-> frames[k]]
      BY <1>1
    <2> QED
      BY <1>3, <2>1, <2>2
  <1>7. current = IF Entered = <<>> THEN 0 ELSE Last(Entered).f
    BY <1>2, <1>4, <1>5 DEF ContextOf
  <1>8. cursor = IF Entered = <<>> THEN Outside ELSE <<current, Last(Entered).at>>
    <2>2. ASSUME NEW k \in Nat PROVE CallerAt(active, k + 1) = IF k = 0 THEN Outside ELSE <<active[k].f, active[k].at>>
      BY <2>2 DEF CallerAt
    <2>3. cursor = CallerAt(active, d + 1) /\ current = IF d = 0 THEN 0 ELSE active[d].f
      BY <1>2 DEF ContextOf
    <2> QED
      BY <1>3, <1>4, <1>5, <1>7, <2>2, <2>3
  <1> QED
    BY <1>3, <1>6, <1>7, <1>8 DEF ContextIsInnermost

-----------------------------------------------------------------------------

(* What a step has to show.                                                *)
LEMMA RunStep ==
    ASSUME RunInv, p' = p, slots' \in [ParamSymbols -> ArgValues],
           active' \in Seq(ActRecord), GivenOf(p, active'), SavedOf(active'),
           active' # <<>> => verdict' = "accept",
           frames' \in Seq(Functions), current' \in Functions \cup {0}, cursor' \in Int \X Int,
           ContextOf(active', frames', current', cursor')
    PROVE  RunInv'
  <1>1. Functions' = Functions /\ ParamSymbols' = ParamSymbols
    BY DEF Functions, ParamSymbols
  <1>2. ActRecord' = ActRecord
    BY <1>1 DEF ActRecord
  <1>3. RunTypeOK'
    BY <1>1, <1>2 DEF RunTypeOK
  <1>4. GivenOf(p, active)' /\ SavedOf(active)' /\ ContextOf(active, frames, current, cursor)'
    BY DEF GivenOf, GivenAll, SavedOf, ContextOf, CallerAt, Depth
  <1> QED
    BY <1>3, <1>4 DEF RunInv

(* The context of a call on top that has, or has not, been entered.        *)
LEMMA TopContext ==
    ASSUME RunInv, active # <<>>
    PROVE  LET n == Len(active)
           IN  /\ n \in Nat \ {0} /\ Act = active[n] /\ Act \in ActRecord
               /\ Act.f \in Functions /\ Act.given \in Seq(ArgValues) /\ Act.at \in Nat \ {0}
               /\ verdict = "accept" /\ GivenAll(p, Act) /\ (Act.entered \/ Act.at = 1)
               /\ Act.entered => /\ Depth(active) = n /\ Len(frames) = n /\ current = Act.f
                                 /\ cursor = <<Act.f, Act.at>>
               /\ ~Act.entered => Depth(active) = n - 1 /\ Len(frames) = n - 1
               /\ Act.savedFunc = IF n = 1 THEN 0 ELSE active[n - 1].f
               /\ Act.savedIndex = CallerAt(active, n)
  <1> DEFINE n == Len(active)
  <1>1. n \in Nat \ {0} /\ Act = active[n] /\ Act \in ActRecord /\ verdict = "accept"
    BY ActFacts DEF RunInv, RunTypeOK
  <1>2. Act.f \in Functions /\ Act.given \in Seq(ArgValues) /\ Act.at \in Nat \ {0}
    BY <1>1, ActRecordFacts
  <1>3. n \in 1 .. n
    BY <1>1
  <1>4. GivenAll(p, Act)
    BY <1>1, <1>3 DEF RunInv, GivenOf
  <1>5. /\ Act.entered \/ Act.at = 1
        /\ Act.savedFunc = IF n = 1 THEN 0 ELSE active[n - 1].f
        /\ Act.savedIndex = CallerAt(active, n)
    BY <1>1, <1>3 DEF RunInv, SavedOf
  <1>6. Depth(active) = IF Act.entered THEN n ELSE n - 1
    BY <1>1 DEF Depth
  <1>7. CallerAt(active, n + 1) = <<Act.f, Act.at>>
    BY <1>1 DEF CallerAt
  <1>8. /\ Len(frames) = Depth(active)
        /\ current = IF Depth(active) = 0 THEN 0 ELSE active[Depth(active)].f
        /\ cursor = CallerAt(active, Depth(active) + 1)
    BY DEF RunInv, ContextOf
  <1>9. Act.entered => current = Act.f /\ cursor = <<Act.f, Act.at>>
    BY <1>1, <1>6, <1>7, <1>8
  <1> QED
    BY <1>1, <1>2, <1>4, <1>5, <1>6, <1>8, <1>9

(* Steps that change the call on top and neither enter nor leave one.      *)
LEMMA SameDepth ==
    ASSUME RunInv, active # <<>>, NEW r \in ActRecord, GivenAll(p, r), r.entered = Act.entered, r.entered \/ r.at = 1,
           r.f = Act.f, r.savedFunc = Act.savedFunc, r.savedIndex = Act.savedIndex,
           p' = p, verdict' = verdict, active' = OnTop(r), slots' \in [ParamSymbols -> ArgValues],
           frames' = frames, current' = current,
           cursor' = IF Act.entered THEN <<Act.f, r.at>> ELSE cursor
    PROVE  RunInv'
  <1> DEFINE n == Len(active)
             d == Depth(active)
  <1>1. /\ n \in Nat \ {0} /\ Act = active[n] /\ verdict = "accept"
        /\ r.at \in Int /\ Act.f \in Functions /\ Functions \subseteq Int
        /\ d = IF Act.entered THEN n ELSE n - 1
    BY TopContext, ActRecordFacts DEF Functions
  <1> DEFINE in == Act.entered
  <1>10. n \in Nat \ {0} /\ d = IF in THEN n ELSE n - 1
    BY <1>1
  <1> HIDE DEF in
  <1>2. /\ active' \in Seq(ActRecord) /\ Len(active') = n
        /\ GivenOf(p, active') /\ SavedOf(active')
        /\ \A k \in 1 .. n : active'[k].f = active[k].f
    BY TopChanges
  <1>3. active'[n] = r /\ \A k \in 1 .. n - 1 : active'[k] = active[k]
    BY OnTopFacts DEF RunInv
  <1>4. RunTypeOK /\ ContextOf(active, frames, current, cursor)
    BY DEF RunInv
  <1>5. Depth(active') = d
    BY <1>1, <1>2, <1>3 DEF Depth
  <1>6. CallerAt(active', d + 1) = cursor'
    <2>1. CASE Act.entered
      <3>1. CallerAt(active', n + 1) = <<active'[n].f, active'[n].at>>
        BY <1>1 DEF CallerAt
      <3> QED
        BY <1>1, <1>3, <2>1, <3>1
    <2>2. CASE ~Act.entered
      <3>1. n # 1 => n - 1 \in 1 .. n - 1
        <4> HIDE DEF n, d
        <4> QED
          BY <1>10
      <3>2. CallerAt(active', n) = CallerAt(active, n)
        BY <1>3, <3>1 DEF CallerAt
      <3>3. cursor = CallerAt(active, d + 1) /\ d + 1 = n
        BY <1>1, <1>4, <2>2 DEF ContextOf
      <3> QED
        BY <2>2, <3>2, <3>3
    <2> QED
      BY <2>1, <2>2
  <1>7. ContextOf(active', frames', current', cursor')
    <2>1. (\A k \in 1 .. d : k \in 1 .. n) /\ (d # 0 => d \in 1 .. n)
      <3> HIDE DEF n, d
      <3> QED
        BY <1>10
    <2>3. Len(frames) = d /\ \A k \in 1 .. d : frames[k] = active[k].f
      BY <1>4 DEF ContextOf
    <2>4. current = IF d = 0 THEN 0 ELSE active[d].f
      BY <1>4 DEF ContextOf
    <2> HIDE DEF d, n
    <2> QED
      BY <1>2, <1>5, <1>6, <2>1, <2>3, <2>4 DEF ContextOf
  <1>8. cursor' \in Int \X Int
    BY <1>1, <1>4 DEF RunTypeOK
  <1> QED
    BY <1>1, <1>2, <1>4, <1>7, <1>8, RunStep DEF RunTypeOK

LEMMA StepHostCall == ASSUME p \in CallPrograms, RunInv, HostCall PROVE RunInv'
  <1>1. /\ active = <<>> /\ verdict = "accept" /\ p' = p /\ verdict' = verdict
        /\ slots' = slots /\ current' = current /\ cursor' = cursor /\ frames' = frames
    BY DEF HostCall, checking, context
  <1>2. PICK g \in Functions : active' = <<Begin(g)>>
    BY DEF HostCall
  <1>3. RunTypeOK /\ ContextOf(active, frames, current, cursor)
    BY DEF RunInv
  <1>4. Len(active) = 0 /\ Depth(active) = 0 /\ active \in Seq(ActRecord)
    BY <1>1, <1>3 DEF Depth, RunTypeOK
  <1>5. current = 0 /\ cursor = Outside /\ Len(frames) = 0
    BY <1>3, <1>4 DEF ContextOf, CallerAt
  <1> DEFINE b == [f |-> g, given |-> <<>>, entered |-> FALSE, failed |-> FALSE,
                   savedFunc |-> 0, savedIndex |-> Outside, at |-> 1]
  <1>6. active' = Append(active, b)
    BY <1>1, <1>2, <1>5 DEF Begin
  <1>7. b \in ActRecord
    BY DEF ActRecord, Outside
  <1>8. GivenOf(p, active) /\ SavedOf(active)
    BY DEF RunInv
  <1>9. CallerAt(active, Len(active) + 1) = Outside
    BY <1>4 DEF CallerAt
  <1>10. /\ active' \in Seq(ActRecord) /\ GivenOf(p, active') /\ SavedOf(active')
         /\ Depth(active') = 0 /\ CallerAt(active', 1) = Outside
    <2>1. /\ b.f = g /\ b.given = <<>> /\ ~b.entered /\ b.at = 1
          /\ b.savedFunc = 0 /\ b.savedIndex = Outside
      OBVIOUS
    <2> HIDE DEF b
    <2>2. /\ Append(active, b) \in Seq(ActRecord) /\ GivenOf(p, Append(active, b)) /\ SavedOf(Append(active, b))
          /\ Depth(Append(active, b)) = Len(active)
          /\ CallerAt(Append(active, b), Len(active) + 1) = CallerAt(active, Len(active) + 1)
      BY <1>4, <1>7, <1>8, <1>9, <2>1, CallBegins
    <2> QED
      BY <1>4, <1>6, <1>9, <2>2
  <1>11. ContextOf(active', frames', current', cursor')
    BY <1>1, <1>5, <1>10 DEF ContextOf
  <1> QED
    BY <1>1, <1>3, <1>10, <1>11, RunStep DEF RunTypeOK

(* The call in progress, past the statement it has taken.                  *)
Taken == [Act EXCEPT !.at = @ + 1]

LEMMA TakenFacts ==
    ASSUME RunInv, active # <<>>, Act.entered
    PROVE  /\ Taken \in ActRecord /\ Taken.f = Act.f /\ Taken.given = Act.given /\ Taken.entered
           /\ Taken.at = Act.at + 1 /\ GivenAll(p, Taken)
           /\ Taken.savedFunc = Act.savedFunc /\ Taken.savedIndex = Act.savedIndex
           /\ cursor = <<Act.f, Act.at>> /\ current = Act.f
  <1>1. /\ Act \in ActRecord /\ GivenAll(p, Act) /\ cursor = <<Act.f, Act.at>> /\ current = Act.f
        /\ Act.given \in Seq(ArgValues)
    BY TopContext
  <1>2. Taken \in ActRecord
    BY <1>1, ChangedFacts DEF Taken
  <1>3. /\ Taken.f = Act.f /\ Taken.given = Act.given /\ Taken.entered = Act.entered
        /\ Taken.at = Act.at + 1
        /\ Taken.savedFunc = Act.savedFunc /\ Taken.savedIndex = Act.savedIndex
    BY <1>1 DEF Taken, ActRecord
  <1>4. GivenAll(p, Taken)
    BY <1>1, <1>3 DEF GivenAll
  <1> QED
    BY <1>1, <1>2, <1>3, <1>4

LEMMA StepSkipStmt == ASSUME RunInv, SkipStmt PROVE RunInv'
  <1>1. /\ active # <<>> /\ Act.entered /\ p' = p /\ verdict' = verdict /\ slots' = slots
        /\ current' = current /\ frames' = frames
        /\ cursor' = <<cursor[1], cursor[2] + 1>> /\ active' = OnTop(Taken)
    BY DEF SkipStmt, checking, Taken
  <1>2. cursor' = <<Act.f, Taken.at>>
    BY <1>1, TakenFacts
  <1>3. slots' \in [ParamSymbols -> ArgValues]
    BY <1>1 DEF RunInv, RunTypeOK
  <1> QED
    BY <1>1, <1>2, <1>3, TakenFacts, SameDepth

LEMMA StepFail == ASSUME RunInv, Fail PROVE RunInv'
  <1> DEFINE r == [Act EXCEPT !.failed = TRUE]
  <1>1. /\ active # <<>> /\ p' = p /\ verdict' = verdict /\ slots' = slots
        /\ current' = current /\ frames' = frames /\ cursor' = cursor /\ active' = OnTop(r)
    BY DEF Fail, checking, context
  <1>2. Act \in ActRecord /\ Act.given \in Seq(ArgValues) /\ GivenAll(p, Act) /\ (Act.entered \/ Act.at = 1)
    BY <1>1, TopContext
  <1>3. r \in ActRecord
    BY <1>2, ChangedFacts
  <1>4. /\ r.f = Act.f /\ r.given = Act.given /\ r.entered = Act.entered /\ r.at = Act.at
        /\ r.savedFunc = Act.savedFunc /\ r.savedIndex = Act.savedIndex
    BY <1>2 DEF ActRecord
  <1>5. GivenAll(p, r) /\ (r.entered \/ r.at = 1)
    BY <1>2, <1>4 DEF GivenAll
  <1>6. cursor' = IF Act.entered THEN <<Act.f, r.at>> ELSE cursor
    BY <1>1, <1>4, TopContext
  <1>7. slots' \in [ParamSymbols -> ArgValues]
    BY <1>1 DEF RunInv, RunTypeOK
  <1> HIDE DEF r
  <1> QED
    BY <1>1, <1>3, <1>4, <1>5, <1>6, <1>7, SameDepth

(* A call is given an argument, or another value of one.                   *)
Given(g) == [Act EXCEPT !.given = g]

LEMMA GivenFacts ==
    ASSUME RunInv, active # <<>>, NEW g \in Seq(ArgValues)
    PROVE  /\ Given(g) \in ActRecord /\ Given(g).given = g
           /\ Given(g).f = Act.f /\ Given(g).entered = Act.entered /\ Given(g).at = Act.at
           /\ Given(g).savedFunc = Act.savedFunc /\ Given(g).savedIndex = Act.savedIndex
  <1>1. Act \in ActRecord
    BY TopContext
  <1>2. Given(g) \in ActRecord
    BY <1>1, ChangedFacts DEF Given
  <1>3. /\ Given(g).given = g /\ Given(g).f = Act.f /\ Given(g).entered = Act.entered /\ Given(g).at = Act.at
        /\ Given(g).savedFunc = Act.savedFunc /\ Given(g).savedIndex = Act.savedIndex
    BY <1>1 DEF Given, ActRecord
  <1> QED
    BY <1>2, <1>3

LEMMA GivenStep ==
    ASSUME RunInv, active # <<>>, NEW g \in Seq(ArgValues),
           Len(g) <= p.params[Act.f], Act.entered => Len(g) = p.params[Act.f],
           p' = p, verdict' = verdict, active' = OnTop(Given(g)),
           NEW x, NEW v \in ArgValues, slots' = [slots EXCEPT ![x] = v],
           frames' = frames, current' = current, cursor' = cursor
    PROVE  RunInv'
  <1>1. Act.entered \/ Act.at = 1
    BY TopContext
  <1>2. GivenAll(p, Given(g)) /\ (Given(g).entered \/ Given(g).at = 1)
    BY <1>1, GivenFacts DEF GivenAll
  <1>3. cursor' = IF Act.entered THEN <<Act.f, Given(g).at>> ELSE cursor
    BY GivenFacts, TopContext
  <1>4. slots \in [ParamSymbols -> ArgValues]
    BY DEF RunInv, RunTypeOK
  <1>5. slots' \in [ParamSymbols -> ArgValues]
    BY <1>4
  <1> QED
    BY <1>2, <1>3, <1>5, GivenFacts, SameDepth

LEMMA StepStoreArg == ASSUME p \in CallPrograms, RunInv, StoreArg PROVE RunInv'
  <1>1. /\ active # <<>> /\ ~Act.entered /\ Len(Act.given) < p.params[Act.f] /\ p' = p /\ verdict' = verdict
        /\ current' = current /\ frames' = frames /\ cursor' = cursor
    BY DEF StoreArg, checking, context
  <1>2. PICK v \in ArgValues :
           /\ slots' = [slots EXCEPT ![ParamSlot(Act.f, Len(Act.given) + 1)] = v]
           /\ active' = OnTop([Act EXCEPT !.given = Append(@, v)])
    BY DEF StoreArg
  <1> DEFINE g == Append(Act.given, v)
  <1>3. Act.given \in Seq(ArgValues) /\ Act.f \in Functions
    BY <1>1, TopContext
  <1>4. p.params[Act.f] \in Nat
    BY <1>3, ParamsAssumption DEF Functions
  <1>5. g \in Seq(ArgValues) /\ Len(g) = Len(Act.given) + 1 /\ Len(Act.given) \in Nat
    BY <1>3, SeqAppend, SeqMembers
  <1>6. Len(g) <= p.params[Act.f]
    BY <1>1, <1>4, <1>5
  <1>7. active' = OnTop(Given(g))
    BY <1>2 DEF Given
  <1> HIDE DEF g
  <1> QED
    BY <1>1, <1>2, <1>5, <1>6, <1>7, GivenStep

LEMMA StepStoreIntoParam == ASSUME RunInv, StoreIntoParam PROVE RunInv'
  <1>1. /\ active # <<>> /\ Act.entered /\ p' = p /\ verdict' = verdict
        /\ current' = current /\ frames' = frames /\ cursor' = cursor
    BY DEF StoreIntoParam, checking, context
  <1>2. PICK i \in 1 .. p.params[Act.f], v \in ArgValues :
           /\ slots' = [slots EXCEPT ![SlotOf(Act.f, i)] = v]
           /\ active' = OnTop([Act EXCEPT !.given[i] = v])
    BY DEF StoreIntoParam
  <1> DEFINE g == [Act.given EXCEPT ![i] = v]
  <1>3. Act.given \in Seq(ArgValues) /\ Len(Act.given) = p.params[Act.f]
    BY <1>1, TopContext DEF GivenAll
  <1>4. g \in Seq(ArgValues) /\ Len(g) = Len(Act.given) /\ Len(g) \in Nat
    BY <1>3, SeqChange
  <1>5. Len(g) <= p.params[Act.f] /\ Len(g) = p.params[Act.f]
    BY <1>3, <1>4
  <1>6. active' = OnTop(Given(g))
    BY <1>2 DEF Given
  <1> HIDE DEF g
  <1> QED
    BY <1>1, <1>2, <1>4, <1>5, <1>6, GivenStep

LEMMA StepEnterBody == ASSUME RunInv, EnterBody PROVE RunInv'
  <1> DEFINE n == Len(active)
             r == [Act EXCEPT !.entered = TRUE]
  <1>1. /\ active # <<>> /\ ~Act.entered /\ Len(Act.given) = p.params[Act.f] /\ p' = p /\ verdict' = verdict
        /\ slots' = slots /\ frames' = Append(frames, Act.f) /\ current' = Act.f /\ cursor' = <<Act.f, 1>>
        /\ active' = OnTop(r)
    BY DEF EnterBody, checking
  <1>2. /\ n \in Nat \ {0} /\ Act = active[n] /\ Act \in ActRecord /\ Act.f \in Functions
        /\ Act.given \in Seq(ArgValues) /\ Act.at = 1 /\ verdict = "accept" /\ GivenAll(p, Act)
        /\ Len(frames) = n - 1 /\ Depth(active) = n - 1
    BY <1>1, TopContext
  <1>3. r \in ActRecord
    BY <1>2, ChangedFacts
  <1>4. /\ r.f = Act.f /\ r.given = Act.given /\ r.entered /\ r.at = 1
        /\ r.savedFunc = Act.savedFunc /\ r.savedIndex = Act.savedIndex
    BY <1>2 DEF ActRecord
  <1>5. GivenAll(p, r)
    BY <1>1, <1>2, <1>4 DEF GivenAll
  <1> HIDE DEF r
  <1>6. /\ active' \in Seq(ActRecord) /\ Len(active') = n
        /\ GivenOf(p, active') /\ SavedOf(active')
        /\ \A k \in 1 .. n : active'[k].f = active[k].f
    BY <1>1, <1>3, <1>4, <1>5, TopChanges
  <1>7. active'[n] = r
    BY <1>1, <1>3, OnTopFacts DEF RunInv
  <1>8. RunTypeOK /\ ContextOf(active, frames, current, cursor)
    BY DEF RunInv
  <1>9. /\ frames' \in Seq(Functions) /\ Len(frames') = n /\ frames'[n] = Act.f
        /\ \A k \in 1 .. n - 1 : frames'[k] = frames[k]
    <2>1. Len(frames) + 1 = n
      BY <1>2
    <2> QED
      BY <1>1, <1>2, <1>8, <2>1, SeqAppend DEF RunTypeOK
  <1>10. Depth(active') = n
    BY <1>2, <1>4, <1>6, <1>7 DEF Depth
  <1>11. \A k \in 1 .. n : frames'[k] = active'[k].f
    <2>1. \A k \in 1 .. n - 1 : frames[k] = active[k].f
      BY <1>2, <1>8 DEF ContextOf
    <2>2. \A k \in 1 .. n : k = n \/ k \in 1 .. n - 1
      BY <1>2
    <2> QED
      BY <1>2, <1>6, <1>9, <2>1, <2>2
  <1>12. CallerAt(active', n + 1) = <<Act.f, 1>>
    <2>1. \A q : CallerAt(q, n + 1) = <<q[n].f, q[n].at>>
      BY <1>2 DEF CallerAt
    <2> QED
      BY <1>4, <1>7, <2>1
  <1>13. ContextOf(active', frames', current', cursor')
    BY <1>1, <1>2, <1>4, <1>7, <1>9, <1>10, <1>11, <1>12 DEF ContextOf
  <1>14. cursor' \in Int \X Int /\ current' \in Functions
    BY <1>1, <1>2 DEF Functions
  <1> QED
    BY <1>1, <1>2, <1>6, <1>8, <1>9, <1>13, <1>14, RunStep DEF RunTypeOK

(* The call statement is taken, and the function it calls.                 *)
LEMMA CallStmtFacts ==
    ASSUME p \in CallPrograms, RunInv, CallStmt
    PROVE  LET g == p.calls[current][cursor[2]]
           IN  /\ active # <<>> /\ Act.entered /\ g \in Functions /\ g \in ToSet(p.calls[Act.f])
               /\ active' = Append(OnTop(Taken), Begin(g))
               /\ cursor' = <<Act.f, Taken.at>>
               /\ p' = p /\ verdict' = verdict /\ slots' = slots /\ current' = current /\ frames' = frames
  <1>1. /\ active # <<>> /\ Act.entered /\ p' = p /\ verdict' = verdict /\ slots' = slots
        /\ current' = current /\ frames' = frames
        /\ cursor' = <<cursor[1], cursor[2] + 1>> /\ cursor[2] <= Len(p.calls[current])
        /\ active' = Append(OnTop(Taken), Begin(p.calls[current][cursor[2]]))
    BY DEF CallStmt, checking, Taken
  <1>2. current = Act.f /\ cursor = <<Act.f, Act.at>> /\ Act.at \in Nat \ {0} /\ Act.f \in Functions
    BY <1>1, TopContext
  <1>3. cursor' = <<Act.f, Taken.at>>
    BY <1>1, <1>2, TakenFacts
  <1>4. p.calls[Act.f] \in Seq(Functions)
    BY <1>2, ProgramFacts
  <1>5. cursor[2] \in 1 .. Len(p.calls[Act.f])
    BY <1>1, <1>2, <1>4
  <1>6. p.calls[Act.f][cursor[2]] \in Functions /\ p.calls[Act.f][cursor[2]] \in ToSet(p.calls[Act.f])
    BY <1>4, <1>5, SeqMembers
  <1> QED
    BY <1>1, <1>2, <1>3, <1>6

LEMMA StepCallStmt == ASSUME p \in CallPrograms, RunInv, CallStmt PROVE RunInv'
  <1> DEFINE n == Len(active)
             acts == OnTop(Taken)
             g == p.calls[current][cursor[2]]
             b == Begin(g)
  <1>1. /\ active # <<>> /\ Act.entered /\ g \in Functions /\ active' = Append(acts, b)
        /\ cursor' = <<Act.f, Taken.at>>
        /\ p' = p /\ verdict' = verdict /\ slots' = slots /\ current' = current /\ frames' = frames
    BY CallStmtFacts
  <1>2. /\ n \in Nat \ {0} /\ Act = active[n] /\ verdict = "accept" /\ Act.f \in Functions
        /\ Depth(active) = n /\ Len(frames) = n /\ current = Act.f
    BY <1>1, TopContext
  <1>3. /\ Taken \in ActRecord /\ Taken.f = Act.f /\ Taken.entered /\ GivenAll(p, Taken)
        /\ Taken.savedFunc = Act.savedFunc /\ Taken.savedIndex = Act.savedIndex
    BY <1>1, TakenFacts
  <1>4. /\ acts \in Seq(ActRecord) /\ Len(acts) = n /\ GivenOf(p, acts) /\ SavedOf(acts)
        /\ \A k \in 1 .. n : acts[k].f = active[k].f
    BY <1>1, <1>3, TopChanges
  <1>5. acts[n] = Taken
    BY <1>1, <1>3, OnTopFacts DEF RunInv
  <1>6. Taken.at \in Nat \ {0}
    BY <1>3, ActRecordFacts
  <1>7. b = [f |-> g, given |-> <<>>, entered |-> FALSE, failed |-> FALSE,
             savedFunc |-> Act.f, savedIndex |-> <<Act.f, Taken.at>>, at |-> 1]
    BY <1>1, <1>2 DEF Begin
  <1>8. b \in ActRecord
    <2>1. <<Act.f, Taken.at>> \in Int \X Int
      BY <1>2, <1>6 DEF Functions
    <2>2. <<>> \in Seq(ArgValues)
      OBVIOUS
    <2> HIDE DEF b, g
    <2> QED
      BY <1>1, <1>2, <1>7, <2>1, <2>2 DEF ActRecord
  <1>9. CallerAt(acts, n + 1) = <<Act.f, Taken.at>>
    <2>1. \A q : CallerAt(q, n + 1) = <<q[n].f, q[n].at>>
      BY <1>2 DEF CallerAt
    <2> QED
      BY <1>3, <1>5, <2>1
  <1>10. /\ b.f = g /\ b.given = <<>> /\ ~b.entered /\ b.at = 1
         /\ b.savedFunc = Act.f /\ b.savedIndex = <<Act.f, Taken.at>>
    BY <1>7
  <1> HIDE DEF b, g, acts
  <1>11. /\ active' \in Seq(ActRecord) /\ Len(active') = n + 1 /\ GivenOf(p, active') /\ SavedOf(active')
         /\ Depth(active') = n /\ CallerAt(active', n + 1) = CallerAt(acts, n + 1)
         /\ \A k \in 1 .. n : active'[k] = acts[k]
    <2>1. Len(acts) = n /\ n # 0 /\ acts[Len(acts)].entered /\ acts[Len(acts)].f = Act.f
      BY <1>2, <1>3, <1>4, <1>5
    <2>3. b.savedFunc = IF Len(acts) = 0 THEN 0 ELSE acts[Len(acts)].f
      BY <1>10, <2>1
    <2>4. b.savedIndex = CallerAt(acts, Len(acts) + 1)
      BY <1>9, <1>10, <2>1
    <2>5. Len(acts) # 0 => acts[Len(acts)].entered
      BY <2>1
    <2>2. /\ Append(acts, b) \in Seq(ActRecord) /\ Len(Append(acts, b)) = Len(acts) + 1
          /\ GivenOf(p, Append(acts, b)) /\ SavedOf(Append(acts, b))
          /\ Depth(Append(acts, b)) = Len(acts)
          /\ CallerAt(Append(acts, b), Len(acts) + 1) = CallerAt(acts, Len(acts) + 1)
          /\ \A k \in 1 .. Len(acts) : Append(acts, b)[k] = acts[k]
      BY <1>1, <1>4, <1>8, <1>10, <2>3, <2>4, <2>5, CallBegins
    <2> QED
      BY <1>1, <2>1, <2>2
  <1>12. RunTypeOK /\ ContextOf(active, frames, current, cursor)
    BY DEF RunInv
  <1>13. \A k \in 1 .. n : frames[k] = active'[k].f
    BY <1>2, <1>4, <1>11, <1>12 DEF ContextOf
  <1>14. n # 0 /\ active'[n].f = Act.f
    <2>1. n \in 1 .. n
      BY <1>2
    <2> QED
      BY <1>2, <1>3, <1>5, <1>11, <2>1
  <1>15. ContextOf(active', frames', current', cursor')
    BY <1>1, <1>2, <1>9, <1>11, <1>13, <1>14 DEF ContextOf
  <1>16. cursor' \in Int \X Int
    BY <1>1, <1>2, <1>6 DEF Functions
  <1>17. /\ slots' \in [ParamSymbols -> ArgValues] /\ frames' \in Seq(Functions)
         /\ current' \in Functions \cup {0} /\ verdict' = "accept"
    BY <1>1, <1>2, <1>12 DEF RunTypeOK
  <1> QED
    BY <1>1, <1>11, <1>15, <1>16, <1>17, RunStep

LEMMA StepEndCall == ASSUME RunInv, EndCall PROVE RunInv'
  <1> DEFINE n == Len(active)
  <1>1. active # <<>> /\ p' = p /\ verdict' = verdict /\ slots' = slots
    BY DEF EndCall, checking
  <1>2. /\ n \in Nat \ {0} /\ verdict = "accept" /\ Act \in ActRecord
        /\ Act.entered => Depth(active) = n /\ Len(frames) = n
        /\ ~Act.entered => Depth(active) = n - 1 /\ Len(frames) = n - 1
        /\ Act.savedFunc = IF n = 1 THEN 0 ELSE active[n - 1].f
        /\ Act.savedIndex = CallerAt(active, n)
    BY <1>1, TopContext
  <1>3. /\ active' \in Seq(ActRecord) /\ Len(active') = n - 1
        /\ GivenOf(p, active') /\ SavedOf(active')
        /\ Depth(active') = n - 1
        /\ CallerAt(active', n) = Act.savedIndex
        /\ \A k \in 1 .. n - 1 : active'[k].f = active[k].f
    BY CallEnds
  <1>4. RunTypeOK /\ ContextOf(active, frames, current, cursor)
    BY DEF RunInv
  <1>5. /\ frames' \in Seq(Functions) /\ Len(frames') = n - 1
        /\ \A k \in 1 .. n - 1 : frames'[k] = active[k].f
    <2>0. \A k \in 1 .. Depth(active) : frames[k] = active[k].f
      BY <1>4 DEF ContextOf
    <2>00. frames \in Seq(Functions)
      BY <1>4 DEF RunTypeOK
    <2>1. CASE Act.entered
      <3>1. frames' = Front(frames) /\ Len(frames) = n /\ Depth(active) = n
        BY <1>2, <2>1 DEF EndCall
      <3>2. frames # <<>>
        BY <1>2, <3>1
      <3>3. \A k \in 1 .. n - 1 : k \in 1 .. n
        BY <1>2
      <3>4. /\ Front(frames) \in Seq(Functions) /\ Len(Front(frames)) = Len(frames) - 1
            /\ \A k \in 1 .. Len(frames) - 1 : Front(frames)[k] = frames[k]
        BY <2>00, <3>2, SeqFront
      <3> HIDE DEF n
      <3> QED
        BY <2>0, <3>1, <3>3, <3>4
    <2>2. CASE ~Act.entered
      <3>1. frames' = frames
        BY <2>2 DEF EndCall, context
      <3> QED
        BY <1>2, <2>0, <2>00, <2>2, <3>1
    <2> QED
      BY <2>1, <2>2
  <1>6. current' = (IF n = 1 THEN 0 ELSE active[n - 1].f) /\ cursor' = CallerAt(active, n)
    <2>1. CASE Act.entered
      BY <1>2, <2>1 DEF EndCall
    <2>2. CASE ~Act.entered
      <3>1. current' = current /\ cursor' = cursor
        BY <2>2 DEF EndCall, context
      <3>2. /\ current = IF n - 1 = 0 THEN 0 ELSE active[n - 1].f
            /\ cursor = CallerAt(active, n - 1 + 1)
        BY <1>2, <1>4, <2>2 DEF ContextOf
      <3>3. n - 1 + 1 = n /\ (n - 1 = 0 <=> n = 1)
        BY <1>2
      <3> QED
        BY <3>1, <3>2, <3>3
    <2> QED
      BY <2>1, <2>2
  <1>7. ContextOf(active', frames', current', cursor')
    <2>1. n - 1 + 1 = n /\ (n - 1 = 0 <=> n = 1) /\ (n # 1 => n - 1 \in 1 .. n - 1)
      <3>1. n \in Nat \ {0}
        BY <1>2
      <3> HIDE DEF n
      <3> QED
        BY <3>1
    <2>2. n # 1 => active'[n - 1].f = active[n - 1].f
      BY <1>3, <2>1
    <2>3. \A k \in 1 .. n - 1 : frames'[k] = active'[k].f
      BY <1>3, <1>5
    <2> HIDE DEF n
    <2> QED
      BY <1>2, <1>3, <1>5, <1>6, <2>1, <2>2, <2>3 DEF ContextOf
  <1>8. cursor' \in Int \X Int /\ current' \in Functions \cup {0}
    <2>1. Act.savedFunc \in Functions \cup {0} /\ Act.savedIndex \in Int \X Int
      BY <1>2, ActRecordFacts
    <2> QED
      BY <1>2, <1>6, <2>1
  <1>9. slots' \in [ParamSymbols -> ArgValues]
    BY <1>1, <1>4 DEF RunTypeOK
  <1> QED
    BY <1>1, <1>2, <1>3, <1>5, <1>7, <1>8, <1>9, RunStep

LEMMA InitRun == Init => RunInv
  <1> SUFFICES ASSUME Init PROVE RunInv
    OBVIOUS
  <1>1. current = 0 /\ cursor = Outside /\ frames = <<>> /\ active = <<>>
    BY DEF Init
  <1>2. slots \in [ParamSymbols -> ArgValues]
    BY DEF Init
  <1>3. Len(active) = 0 /\ Len(frames) = 0 /\ Depth(active) = 0
    BY <1>1 DEF Depth
  <1>4. active \in Seq(ActRecord) /\ frames \in Seq(Functions)
    BY <1>1
  <1>5. RunTypeOK
    BY <1>1, <1>2, <1>4 DEF RunTypeOK, Outside
  <1>6. GivenOf(p, active) /\ SavedOf(active)
    BY <1>3 DEF GivenOf, SavedOf
  <1>7. ContextOf(active, frames, current, cursor)
    BY <1>1, <1>3 DEF ContextOf, CallerAt
  <1> QED
    BY <1>5, <1>6, <1>7 DEF RunInv

(* Steps of the check come before the first call.                          *)
LEMMA CheckKeepsRun ==
    ASSUME CheckTypeOK, RunInv, CheckRecursion
    PROVE  p' = p /\ active' = <<>> /\ active = <<>> /\ RunInv'
  <1>1. /\ p' = p /\ slots' = slots /\ current' = current /\ cursor' = cursor /\ frames' = frames
        /\ active' = active
    BY DEF CheckRecursion, CheckStep, running, context, Root, Neighbour, Leave, Decide, Enter
  <1>2. verdict = "none"
    BY DEF CheckRecursion, CheckStep, Root, Neighbour, Leave, Decide, CheckTypeOK
  <1>3. RunTypeOK /\ GivenOf(p, active) /\ SavedOf(active) /\ ContextOf(active, frames, current, cursor)
    BY DEF RunInv
  <1>4. active = <<>>
    BY <1>2, <1>3 DEF RunTypeOK
  <1>5. RunInv'
    BY <1>1, <1>3, <1>4, RunStep DEF RunTypeOK
  <1> QED
    BY <1>1, <1>4, <1>5

LEMMA StepRun == TarjanInv /\ RunInv /\ [Next]_vars => RunInv'
  <1> SUFFICES ASSUME TarjanInv, RunInv, [Next]_vars PROVE RunInv'
    OBVIOUS
  <1>0. CheckTypeOK /\ p \in CallPrograms
    BY DEF TarjanInv, CheckTypeOK
  <1>1. CASE CheckRecursion
    BY <1>0, <1>1, CheckKeepsRun
  <1>2. CASE HostCall
    BY <1>0, <1>2, StepHostCall
  <1>3. CASE CallStmt
    BY <1>0, <1>3, StepCallStmt
  <1>4. CASE SkipStmt
    BY <1>4, StepSkipStmt
  <1>5. CASE StoreArg
    BY <1>0, <1>5, StepStoreArg
  <1>6. CASE EnterBody
    BY <1>6, StepEnterBody
  <1>7. CASE StoreIntoParam
    BY <1>7, StepStoreIntoParam
  <1>8. CASE Fail
    BY <1>8, StepFail
  <1>9. CASE EndCall
    BY <1>9, StepEndCall
  <1>10. CASE UNCHANGED vars
    <2>1. /\ p' = p /\ slots' = slots /\ current' = current /\ cursor' = cursor /\ frames' = frames
          /\ active' = active /\ verdict' = verdict
      BY <1>10 DEF vars, running, context, checking
    <2>2. RunTypeOK /\ GivenOf(p, active) /\ SavedOf(active) /\ ContextOf(active, frames, current, cursor)
      BY DEF RunInv
    <2> QED
      BY <2>1, <2>2, RunStep DEF RunTypeOK
  <1> QED
    BY <1>1, <1>2, <1>3, <1>4, <1>5, <1>6, <1>7, <1>8, <1>9, <1>10 DEF Next, Rejected

LEMMA RunInvariant == Spec => [](TarjanInv /\ RecursionVerdict /\ RunInv)
  <1>1. Spec => [](TarjanInv /\ RecursionVerdict)
    BY CheckInvariant
  <1> QED
    BY <1>1, InitRun, StepRun, PTL DEF Spec

(* For every program the context is always that of the innermost call that *)
(* has been entered: a call, a return and an error on its way out leave    *)
(* ctx->call_frame, the current function and the next statement as their   *)
(* caller needs them (tc_exec_call_function).                              *)
THEOREM ReturnsToItsCaller == Spec => []ContextIsInnermost
  <1>1. RunInv => ContextIsInnermost
    BY ContextFollows
  <1> QED
    BY <1>1, RunInvariant, PTL

-----------------------------------------------------------------------------

(* Each call leads to the calls above it.                                  *)
ChainOf(q, acts) == \A j, k \in 1 .. Len(acts) : j < k => acts[k].f \in LeadsIn(q, acts[j].f)

PrivacyInv == ChainOf(p, active) /\ ParamsArePrivate

(* The functions of which the property speaks.                             *)
OwnsSlots(f) == ~SharesLine(f) /\ ~RecursUnseen(f)

LEMMA PrivateMeans ==
    ASSUME p \in CallPrograms
    PROVE  ParamsArePrivate <=> \A k \in 1 .. Len(active) : OwnsSlots(active[k].f) =>
               \A m \in 1 .. Len(active[k].given) : slots[SlotOf(active[k].f, m)] = active[k].given[m]
  BY DEF ParamsArePrivate, OwnsSlots, FindsItsParams

(* Whether a function owns its slots is a matter of the program.           *)
LEMMA OwnsStays == p' = p => \A f : OwnsSlots(f)' <=> OwnsSlots(f)
  BY DEF OwnsSlots, SharesLine, RecursUnseen, Leads, Functions

(* The parameter symbols on a line are finitely many, and Before puts them *)
(* in a row: the n-th of them exists when there are n.                     *)
LEMMA SymbolsFinite == ASSUME p \in CallPrograms PROVE IsFiniteSet(ParamSymbols)
  <1>1. IsFiniteSet(Functions)
    <2>1. p.n \in Nat
      BY CallProgramsAssumption DEF IsCallProgram
    <2> QED
      BY <2>1, FS_Interval DEF Functions
  <1> DEFINE Of(f) == {<<f, i>> : i \in 1 .. p.params[f]}
             All == {Of(f) : f \in Functions}
  <1>2. ASSUME NEW f \in Functions PROVE IsFiniteSet(Of(f))
    <2>1. p.params[f] \in Nat
      BY ParamsAssumption DEF Functions
    <2>2. IsFiniteSet(1 .. p.params[f])
      <3>1. 1 \in Int /\ p.params[f] \in Int
        BY <2>1
      <3> QED
        BY <3>1, FS_Interval
    <2> DEFINE b == [i \in 1 .. p.params[f] |-> <<f, i>>]
    <2>3. b \in Surjection(1 .. p.params[f], Of(f))
      BY DEF Surjection
    <2> QED
      BY <2>2, <2>3, FS_Surjection DEF ExistsSurjection
  <1>3. IsFiniteSet(All)
    <2> DEFINE b == [f \in Functions |-> Of(f)]
    <2>1. b \in Surjection(Functions, All)
      BY DEF Surjection
    <2> QED
      BY <1>1, <2>1, FS_Surjection DEF ExistsSurjection
  <1>4. IsFiniteSet(UNION All)
    <2>1. \A T \in All : IsFiniteSet(T)
      BY <1>2
    <2> HIDE DEF All
    <2> QED
      BY <1>3, <2>1, FS_UNION
  <1> QED
    BY <1>4 DEF ParamSymbols

UpTo(L, s) == {t \in L : ~Before(s, t)}

LEMMA RankExists ==
    ASSUME p \in CallPrograms, NEW L \in SUBSET ParamSymbols, NEW i \in 1 .. Cardinality(L)
    PROVE  \E s \in L : Cardinality(UpTo(L, s)) = i
  <1>1. IsFiniteSet(L) /\ Cardinality(L) \in Nat
    BY SymbolsFinite, FS_Subset, FS_CardinalityType
  <1>2. \A s \in ParamSymbols : s \in Nat \X Nat
    <2>1. ASSUME NEW s \in ParamSymbols PROVE s \in Nat \X Nat
      <3>1. PICK g \in Functions : s \in {<<g, j>> : j \in 1 .. p.params[g]}
        BY <2>1 DEF ParamSymbols
      <3>2. p.params[g] \in Nat /\ g \in Nat
        <4>1. p.n \in Nat
          BY CallProgramsAssumption DEF IsCallProgram
        <4> QED
          BY <4>1, ParamsAssumption DEF Functions
      <3> QED
        BY <3>1, <3>2
    <2> QED
      BY <2>1
  <1>3. ASSUME NEW s \in L, NEW t \in L, s # t PROVE Before(s, t) \/ Before(t, s)
    <2>1. s \in Nat \X Nat /\ t \in Nat \X Nat
      BY <1>2, <1>3
    <2> QED
      BY <1>3, <2>1 DEF Before
  <1>4. ASSUME NEW s \in L, NEW t \in L, Before(s, t)
        PROVE  UpTo(L, s) \subseteq UpTo(L, t) /\ t \in UpTo(L, t) /\ t \notin UpTo(L, s)
    <2>1. s \in Nat \X Nat /\ t \in Nat \X Nat
      BY <1>2, <1>4
    <2>2. ASSUME NEW u \in L, ~Before(s, u) PROVE ~Before(t, u)
      <3>1. u \in Nat \X Nat
        BY <1>2, <2>2
      <3> QED
        BY <1>4, <2>1, <2>2, <3>1 DEF Before
    <2>3. ~Before(t, t)
      BY <2>1 DEF Before
    <2> QED
      BY <1>4, <2>2, <2>3 DEF UpTo
  <1>5. ASSUME NEW s \in L
        PROVE  IsFiniteSet(UpTo(L, s)) /\ Cardinality(UpTo(L, s)) \in 1 .. Cardinality(L)
    <2>1. UpTo(L, s) \in SUBSET L
      BY DEF UpTo
    <2>2. IsFiniteSet(UpTo(L, s)) /\ Cardinality(UpTo(L, s)) <= Cardinality(L) /\ Cardinality(UpTo(L, s)) \in Nat
      BY <1>1, <2>1, FS_Subset, FS_CardinalityType
    <2>3. s \in UpTo(L, s)
      <3>1. s \in Nat \X Nat
        BY <1>2
      <3> QED
        BY <3>1 DEF UpTo, Before
    <2>4. Cardinality(UpTo(L, s)) # 0
      BY <2>2, <2>3, FS_EmptySet
    <2> QED
      BY <1>1, <2>2, <2>4
  <1>6. ASSUME NEW s \in L, NEW t \in L, Before(s, t)
        PROVE  Cardinality(UpTo(L, s)) # Cardinality(UpTo(L, t))
    <2>1. UpTo(L, s) \in SUBSET UpTo(L, t) /\ UpTo(L, s) # UpTo(L, t)
      BY <1>4, <1>6
    <2> QED
      BY <1>5, <2>1, FS_Subset
  <1> SUFFICES ASSUME \A s \in L : Cardinality(UpTo(L, s)) # i PROVE FALSE
    OBVIOUS
  <1> DEFINE T == (1 .. Cardinality(L)) \ {i}
             rank == [s \in L |-> Cardinality(UpTo(L, s))]
  <1>7. rank \in [L -> T]
    BY <1>5
  <1>8. IsFiniteSet(T) /\ Cardinality(T) = Cardinality(L) - 1
    <2>1. IsFiniteSet(1 .. Cardinality(L)) /\ Cardinality(1 .. Cardinality(L)) = Cardinality(L)
      BY <1>1, FS_Interval
    <2> QED
      BY <2>1, FS_RemoveElement
  <1>9. Cardinality(T) < Cardinality(L)
    BY <1>1, <1>8
  <1>10. PICK x, y \in L : x # y /\ rank[x] = rank[y]
    <2> HIDE DEF T, rank
    <2> QED
      BY <1>1, <1>7, <1>8, <1>9, FS_PigeonHole
  <1>11. Cardinality(UpTo(L, x)) = Cardinality(UpTo(L, y))
    BY <1>10
  <1> QED
    BY <1>3, <1>6, <1>10, <1>11

(* An argument is stored into a parameter slot of the line.                *)
LEMMA SlotOnLine ==
    ASSUME p \in CallPrograms, NEW f \in Functions, NEW i \in 1 .. p.params[f]
    PROVE  /\ ParamSlot(f, i) \in OnLineOf(f)
           /\ Cardinality(UpTo(OnLineOf(f), ParamSlot(f, i))) = i
  <1> DEFINE n == p.params[f]
             T == {<<f, j>> : j \in 1 .. n}
             b == [j \in 1 .. n |-> <<f, j>>]
  <1>1. n \in Nat
    BY ParamsAssumption DEF Functions
  <1>2. T \in SUBSET OnLineOf(f)
    BY DEF OnLineOf, ParamSymbols
  <1>3. Cardinality(T) = n
    <2>1. b \in [1 .. n -> T] /\ (\A x, y \in 1 .. n : b[x] = b[y] => x = y) /\ \A t \in T : \E x \in 1 .. n : b[x] = t
      OBVIOUS
    <2>2. b \in Bijection(1 .. n, T)
      BY <2>1 DEF Bijection, Injection, Surjection, IsInjective
    <2>3. ExistsBijection(1 .. n, T)
      BY <2>2 DEF ExistsBijection
    <2> HIDE DEF T
    <2> QED
      BY <1>1, <2>3, FS_CountingElements
  <1>4. OnLineOf(f) \in SUBSET ParamSymbols
    BY DEF OnLineOf
  <1>5. IsFiniteSet(OnLineOf(f)) /\ Cardinality(OnLineOf(f)) \in Nat
    BY <1>4, SymbolsFinite, FS_Subset, FS_CardinalityType
  <1>6. n <= Cardinality(OnLineOf(f))
    <2> HIDE DEF T
    <2> QED
      BY <1>2, <1>3, <1>5, FS_Subset
  <1>7. i \in 1 .. Cardinality(OnLineOf(f))
    BY <1>1, <1>5, <1>6
  <1>8. \E s \in OnLineOf(f) : Cardinality(UpTo(OnLineOf(f), s)) = i
    BY <1>4, <1>7, RankExists
  <1>9. \E s \in OnLineOf(f) : Cardinality({t \in OnLineOf(f) : ~Before(s, t)}) = i
    BY <1>8 DEF UpTo
  <1> QED
    BY <1>9 DEF ParamSlot, UpTo

(* Of a function that has its line to itself it is the one of its symbol.  *)
LEMMA SlotIsOwn ==
    ASSUME p \in CallPrograms, NEW f \in Functions, ~SharesLine(f), NEW i \in 1 .. p.params[f]
    PROVE  ParamSlot(f, i) = SlotOf(f, i)
  <1>1. p.params[f] \in Nat /\ \A g \in Functions : p.params[g] \in Nat
    BY ParamsAssumption DEF Functions
  <1>2. ASSUME NEW s \in ParamSymbols PROVE s \in OnLineOf(f) <=> \E j \in 1 .. p.params[f] : s = <<f, j>>
    <2>1. PICK g \in Functions : s \in {<<g, j>> : j \in 1 .. p.params[g]}
      BY <1>2 DEF ParamSymbols
    <2>2. PICK j \in 1 .. p.params[g] : s = <<g, j>>
      BY <2>1
    <2>3. p.params[g] # 0
      BY <1>1, <2>1, <2>2
    <2>4. p.line[g] = p.line[f] <=> g = f
      BY <2>3 DEF SharesLine
    <2> QED
      BY <1>2, <2>2, <2>4 DEF OnLineOf
  <1>3. \A j \in 1 .. p.params[f] : <<f, j>> \in ParamSymbols
    BY DEF ParamSymbols
  <1>4. OnLineOf(f) = {<<f, j>> : j \in 1 .. p.params[f]}
    BY <1>2, <1>3 DEF OnLineOf
  <1>5. ASSUME NEW m \in 1 .. p.params[f]
        PROVE  Cardinality(UpTo(OnLineOf(f), <<f, m>>)) = m
    <2> DEFINE T == {<<f, j>> : j \in 1 .. m}
               b == [j \in 1 .. m |-> <<f, j>>]
    <2>1. \A j \in 1 .. p.params[f] : ~Before(<<f, m>>, <<f, j>>) <=> j \in 1 .. m
      BY <1>1 DEF Before, Functions
    <2>2. UpTo(OnLineOf(f), <<f, m>>) = T
      BY <1>1, <1>4, <2>1 DEF UpTo
    <2>3. ExistsBijection(1 .. m, T)
      <3>1. b \in [1 .. m -> T] /\ (\A x, y \in 1 .. m : b[x] = b[y] => x = y) /\ \A t \in T : \E x \in 1 .. m : b[x] = t
        OBVIOUS
      <3>2. b \in Bijection(1 .. m, T)
        BY <3>1 DEF Bijection, Injection, Surjection, IsInjective
      <3> QED
        BY <3>2 DEF ExistsBijection
    <2>4. m \in Nat
      BY <1>1
    <2> HIDE DEF T
    <2> QED
      BY <2>2, <2>3, <2>4, FS_CountingElements
  <1>6. PICK m \in 1 .. p.params[f] : ParamSlot(f, i) = <<f, m>>
    BY <1>4, SlotOnLine
  <1>7. m = i
    BY <1>5, <1>6, SlotOnLine
  <1> QED
    BY <1>6, <1>7 DEF SlotOf

(* A store by a call that shares its line goes to no function that owns    *)
(* its slots.                                                              *)
LEMMA SlotIsOwners ==
    ASSUME p \in CallPrograms, NEW f \in Functions, NEW i \in 1 .. p.params[f],
           NEW g, ~SharesLine(g), NEW m, ParamSlot(f, i) = <<g, m>>
    PROVE  f = g
  <1>1. <<g, m>> \in OnLineOf(f)
    BY SlotOnLine
  <1>2. p.params[f] # 0
    BY ParamsAssumption DEF Functions
  <1> QED
    BY <1>1, <1>2 DEF OnLineOf, SharesLine

(* No function that owns its slots is called twice at a time.              *)
LEMMA CallsDiffer ==
    ASSUME p \in CallPrograms, RecursionVerdict, RunInv, ChainOf(p, active),
           NEW j \in 1 .. Len(active), NEW k \in 1 .. Len(active), j # k, OwnsSlots(active[j].f)
    PROVE  active[j].f # active[k].f
  <1>1. verdict = "accept"
    <2>1. Len(active) # 0
      BY ActFacts DEF RunInv
    <2> QED
      BY <2>1, ActFacts DEF RunInv, RunTypeOK
  <1>2. active[j].f \notin LeadsIn(p, active[j].f)
    BY <1>1 DEF RecursionVerdict, Leads, OwnsSlots, RecursUnseen
  <1>3. j < k \/ k < j
    BY ActFacts DEF RunInv
  <1>4. active[k].f \in LeadsIn(p, active[j].f) \/ active[j].f \in LeadsIn(p, active[k].f)
    BY <1>3 DEF ChainOf
  <1> QED
    BY <1>2, <1>4

(* A store into a parameter slot x by the call on top leaves alone the     *)
(* slots of the others, of functions that own theirs.                      *)
LEMMA StoreIsPrivate ==
    ASSUME p \in CallPrograms, RecursionVerdict, RunInv, PrivacyInv, active # <<>>,
           NEW g \in Seq(ArgValues), NEW i \in 1 .. Len(g), i \in 1 .. p.params[Act.f], NEW x,
           \A m \in 1 .. Len(g) : m # i => m \in 1 .. Len(Act.given) /\ g[m] = Act.given[m],
           OwnsSlots(Act.f) => x = SlotOf(Act.f, i),
           \A h, m : OwnsSlots(h) /\ x = SlotOf(h, m) => Act.f = h,
           p' = p, active' = OnTop(Given(g)), slots' = [slots EXCEPT ![x] = g[i]]
    PROVE  PrivacyInv'
  <1> DEFINE n == Len(active)
  <1>1. n \in Nat \ {0} /\ Act = active[n] /\ Act \in ActRecord /\ Act.f \in Functions
    BY TopContext
  <1>2. Given(g) \in ActRecord /\ Given(g).f = Act.f /\ Given(g).given = g
    BY GivenFacts
  <1>3. /\ Len(active') = n /\ active'[n] = Given(g)
        /\ \A k \in 1 .. n - 1 : active'[k] = active[k]
    BY <1>2, OnTopFacts DEF RunInv
  <1>4. \A k \in 1 .. n : k = n \/ k \in 1 .. n - 1
    BY <1>1
  <1>5. \A k \in 1 .. n : active'[k].f = active[k].f
    BY <1>1, <1>2, <1>3, <1>4
  <1>6. ChainOf(p, active')
    BY <1>3, <1>5 DEF ChainOf, PrivacyInv
  <1>7. \A y \in ParamSymbols : slots'[y] = IF y = x THEN g[i] ELSE slots[y]
    BY DEF RunInv, RunTypeOK
  <1>8. ASSUME NEW k \in 1 .. n, OwnsSlots(active[k].f), NEW m \in 1 .. Len(active'[k].given)
        PROVE  slots'[SlotOf(active'[k].f, m)] = active'[k].given[m]
    <2>1. CASE k = n
      <3>1. active'[k].f = Act.f /\ active'[k].given = g /\ m \in 1 .. Len(g)
        BY <1>2, <1>3, <1>8, <2>1
      <3>2. SlotOf(Act.f, m) \in ParamSymbols
        <4>1. m \in 1 .. p.params[Act.f]
          <5>1. Act.given \in Seq(ArgValues) /\ Len(Act.given) \in Nat /\ Len(Act.given) <= p.params[Act.f]
            BY TopContext, SeqMembers DEF GivenAll
          <5>2. p.params[Act.f] \in Nat
            BY <1>1, ParamsAssumption DEF Functions
          <5>3. m = i \/ m \in 1 .. Len(Act.given)
            BY <3>1
          <5> QED
            BY <5>1, <5>2, <5>3
        <4> QED
          BY <1>1, <4>1 DEF ParamSymbols, SlotOf
      <3>3. SlotOf(Act.f, m) = x <=> m = i
        <4>1. x = SlotOf(Act.f, i)
          BY <1>1, <1>8, <2>1
        <4> QED
          BY <4>1 DEF SlotOf
      <3>4. m # i => slots[SlotOf(Act.f, m)] = Act.given[m] /\ g[m] = Act.given[m]
        <4>1. n \in 1 .. Len(active)
          BY <1>1
        <4>2. \A j \in 1 .. Len(Act.given) : slots[SlotOf(Act.f, j)] = Act.given[j]
          BY <1>1, <1>8, <2>1, <4>1, PrivateMeans DEF PrivacyInv
        <4> QED
          BY <3>1, <4>2
      <3> QED
        BY <1>7, <3>1, <3>2, <3>3, <3>4
    <2>2. CASE k # n
      <3>1. active'[k] = active[k] /\ m \in 1 .. Len(active[k].given)
        BY <1>3, <1>4, <1>8, <2>2
      <3>2. slots[SlotOf(active[k].f, m)] = active[k].given[m]
        BY <1>8, <3>1, PrivateMeans DEF PrivacyInv
      <3>3. active[k].f # Act.f
        <4>1. n \in 1 .. Len(active) /\ ChainOf(p, active)
          BY <1>1 DEF PrivacyInv
        <4> QED
          BY <1>1, <1>8, <2>2, <4>1, CallsDiffer
      <3>4. SlotOf(active[k].f, m) # x
        BY <1>8, <3>3
      <3>5. SlotOf(active[k].f, m) \in ParamSymbols
        <4>1. /\ active[k].f \in Functions /\ active[k].given \in Seq(ArgValues)
              /\ Len(active[k].given) <= p.params[active[k].f]
          BY ActFacts, ActRecordFacts DEF RunInv, GivenOf, GivenAll
        <4>2. p.params[active[k].f] \in Nat
          BY <4>1, ParamsAssumption DEF Functions
        <4>3. m \in 1 .. p.params[active[k].f]
          BY <3>1, <4>1, <4>2
        <4> QED
          BY <4>1, <4>3 DEF ParamSymbols, SlotOf
      <3> QED
        BY <1>7, <3>1, <3>2, <3>4, <3>5
    <2> QED
      BY <2>1, <2>2
  <1>9. ParamsArePrivate'
    BY <1>3, <1>5, <1>8, OwnsStays DEF ParamsArePrivate, FindsItsParams, OwnsSlots, SlotOf
  <1>10. ChainOf(p, active)'
    BY <1>6 DEF ChainOf
  <1> QED
    BY <1>9, <1>10 DEF PrivacyInv

(* Steps that store nothing: the calls keep what they were given, and the  *)
(* calls there are more of lead from one to the next.                      *)
LEMMA KeepsPrivate ==
    ASSUME p \in CallPrograms, PrivacyInv, p' = p, slots' = slots, NEW n \in Nat, Len(active') = n, n <= Len(active), Len(active) \in Nat,
           \A k \in 1 .. n : active'[k].f = active[k].f /\ active'[k].given = active[k].given
    PROVE  PrivacyInv'
  <1>1. \A k \in 1 .. n : k \in 1 .. Len(active)
    OBVIOUS
  <1>2. ChainOf(p, active')
    BY <1>1 DEF ChainOf, PrivacyInv
  <1>3. ASSUME NEW k \in 1 .. n, OwnsSlots(active[k].f), NEW m \in 1 .. Len(active'[k].given)
        PROVE  slots'[SlotOf(active'[k].f, m)] = active'[k].given[m]
    BY <1>1, <1>3, PrivateMeans DEF PrivacyInv
  <1>4. ParamsArePrivate'
    BY <1>3, OwnsStays DEF ParamsArePrivate, FindsItsParams, OwnsSlots, SlotOf
  <1>5. ChainOf(p, active)'
    BY <1>2 DEF ChainOf
  <1> QED
    BY <1>4, <1>5 DEF PrivacyInv

LEMMA PrivateStoreArg ==
    ASSUME p \in CallPrograms, RecursionVerdict, RunInv, PrivacyInv, StoreArg
    PROVE  PrivacyInv'
  <1>1. active # <<>> /\ Len(Act.given) < p.params[Act.f] /\ p' = p
    BY DEF StoreArg
  <1>2. PICK v \in ArgValues :
           /\ slots' = [slots EXCEPT ![ParamSlot(Act.f, Len(Act.given) + 1)] = v]
           /\ active' = OnTop([Act EXCEPT !.given = Append(@, v)])
    BY DEF StoreArg
  <1> DEFINE g == Append(Act.given, v)
             i == Len(Act.given) + 1
  <1>3. Act.given \in Seq(ArgValues) /\ Act.f \in Functions
    BY <1>1, TopContext
  <1>4. p.params[Act.f] \in Nat
    BY <1>3, ParamsAssumption DEF Functions
  <1>5. /\ g \in Seq(ArgValues) /\ Len(g) = i /\ Len(Act.given) \in Nat /\ g[i] = v
        /\ \A m \in 1 .. Len(Act.given) : g[m] = Act.given[m]
    BY <1>3, SeqAppend, SeqMembers
  <1>6. active' = OnTop(Given(g))
    BY <1>2 DEF Given
  <1> HIDE DEF g
  <1>7. i \in 1 .. Len(g) /\ i \in 1 .. p.params[Act.f]
    BY <1>1, <1>4, <1>5
  <1>8. \A m \in 1 .. Len(g) : m # i => m \in 1 .. Len(Act.given)
    BY <1>5
  <1> DEFINE x == ParamSlot(Act.f, i)
  <1>9. OwnsSlots(Act.f) => x = SlotOf(Act.f, i)
    BY <1>3, <1>7, SlotIsOwn DEF OwnsSlots
  <1>10. slots' = [slots EXCEPT ![x] = g[i]]
    BY <1>2, <1>5
  <1>12. \A h, m : OwnsSlots(h) /\ x = SlotOf(h, m) => Act.f = h
    BY <1>3, <1>7, SlotIsOwners DEF OwnsSlots, SlotOf
  <1>11. \A m \in 1 .. Len(g) : m # i => m \in 1 .. Len(Act.given) /\ g[m] = Act.given[m]
    BY <1>5, <1>8
  <1> HIDE DEF i, x
  <1> QED
    BY <1>1, <1>5, <1>6, <1>7, <1>9, <1>10, <1>11, <1>12, StoreIsPrivate

LEMMA PrivateStoreIntoParam ==
    ASSUME p \in CallPrograms, RecursionVerdict, RunInv, PrivacyInv, StoreIntoParam
    PROVE  PrivacyInv'
  <1>1. active # <<>> /\ Act.entered /\ p' = p
    BY DEF StoreIntoParam
  <1>2. PICK i \in 1 .. p.params[Act.f], v \in ArgValues :
           /\ slots' = [slots EXCEPT ![SlotOf(Act.f, i)] = v]
           /\ active' = OnTop([Act EXCEPT !.given[i] = v])
    BY DEF StoreIntoParam
  <1> DEFINE g == [Act.given EXCEPT ![i] = v]
  <1>3. Act.given \in Seq(ArgValues) /\ Len(Act.given) = p.params[Act.f]
    BY <1>1, TopContext DEF GivenAll
  <1>4. g \in Seq(ArgValues) /\ Len(g) = Len(Act.given)
    BY <1>3, SeqChange
  <1>5. g[i] = v /\ \A m \in 1 .. Len(g) : m # i => g[m] = Act.given[m]
    BY <1>3, <1>4
  <1>6. active' = OnTop(Given(g))
    BY <1>2 DEF Given
  <1> HIDE DEF g
  <1>7. i \in 1 .. Len(g) /\ slots' = [slots EXCEPT ![SlotOf(Act.f, i)] = g[i]]
    BY <1>2, <1>3, <1>4, <1>5
  <1>8. \A m \in 1 .. Len(g) : m # i => m \in 1 .. Len(Act.given) /\ g[m] = Act.given[m]
    BY <1>4, <1>5
  <1> DEFINE x == SlotOf(Act.f, i)
  <1>9. OwnsSlots(Act.f) => x = SlotOf(Act.f, i)
    OBVIOUS
  <1>11. \A h, m : OwnsSlots(h) /\ x = SlotOf(h, m) => Act.f = h
    BY DEF SlotOf
  <1>12. i \in 1 .. Len(g) /\ i \in 1 .. p.params[Act.f]
    BY <1>7
  <1>10. slots' = [slots EXCEPT ![x] = g[i]]
    BY <1>7
  <1> HIDE DEF x
  <1> QED
    BY <1>1, <1>4, <1>6, <1>8, <1>9, <1>10, <1>11, <1>12, StoreIsPrivate

(* A call begins with nothing given, and is one its caller leads to.       *)
LEMMA PrivateCallStmt ==
    ASSUME p \in CallPrograms, RunInv, PrivacyInv, CallStmt
    PROVE  PrivacyInv'
  <1> DEFINE n == Len(active)
             acts == OnTop(Taken)
             g == p.calls[current][cursor[2]]
             b == Begin(g)
  <1>1. /\ active # <<>> /\ Act.entered /\ g \in Functions /\ g \in ToSet(p.calls[Act.f])
        /\ active' = Append(acts, b) /\ p' = p /\ slots' = slots
    BY CallStmtFacts
  <1>2. n \in Nat \ {0} /\ Act = active[n] /\ Act.f \in Functions
    BY <1>1, TopContext
  <1>3. Taken \in ActRecord /\ Taken.f = Act.f /\ Taken.given = Act.given
    BY <1>1, TakenFacts
  <1>4. /\ acts \in Seq(ActRecord) /\ Len(acts) = n /\ acts[n] = Taken
        /\ \A k \in 1 .. n - 1 : acts[k] = active[k]
    BY <1>1, <1>3, OnTopFacts DEF RunInv
  <1>5. b.f = g /\ b.given = <<>>
    BY DEF Begin
  <1>6. \A k \in 1 .. n : k = n \/ k \in 1 .. n - 1
    BY <1>2
  <1>7. \A k \in 1 .. n : acts[k].f = active[k].f /\ acts[k].given = active[k].given
    BY <1>2, <1>3, <1>4, <1>6
  <1> HIDE DEF acts, b, g
  <1>8. /\ Len(active') = n + 1 /\ active'[n + 1] = b
        /\ \A k \in 1 .. n : active'[k] = acts[k]
    BY <1>1, <1>4
  <1>9. \A k \in 1 .. n : active'[k].f = active[k].f /\ active'[k].given = active[k].given
    BY <1>7, <1>8
  <1>10. \A k \in 1 .. n + 1 : k = n + 1 \/ k \in 1 .. n
    BY <1>2
  <1>11. \A j \in 1 .. n : g \in LeadsIn(p, active[j].f)
    <2>1. g \in LeadsIn(p, Act.f)
      BY <1>1, <1>2, LeadsFacts DEF Leads
    <2>2. ASSUME NEW j \in 1 .. n, j # n PROVE g \in LeadsIn(p, active[j].f)
      <3>1. active[j].f \in Functions
        BY <2>2, ActFacts, ActRecordFacts DEF RunInv
      <3>2. j < n /\ n \in 1 .. n
        BY <1>2, <2>2
      <3>3. Act.f \in LeadsIn(p, active[j].f)
        BY <1>2, <3>2 DEF PrivacyInv, ChainOf
      <3>4. LeadsIn(p, Act.f) \subseteq LeadsIn(p, active[j].f)
        BY <3>1, <3>3, LeadsOn DEF Leads
      <3> QED
        BY <2>1, <3>4
    <2> QED
      BY <1>2, <2>1, <2>2
  <1>12. ASSUME NEW j \in 1 .. n + 1, NEW k \in 1 .. n + 1, j < k
         PROVE  active'[k].f \in LeadsIn(p, active'[j].f)
    <2>1. j \in 1 .. n /\ active'[j].f = active[j].f
      BY <1>2, <1>9, <1>12
    <2>2. CASE k = n + 1
      BY <1>5, <1>8, <1>11, <2>1, <2>2
    <2>3. CASE k # n + 1
      <3>1. k \in 1 .. n /\ active'[k].f = active[k].f
        BY <1>9, <1>10, <2>3
      <3> QED
        BY <1>12, <2>1, <3>1 DEF PrivacyInv, ChainOf
    <2> QED
      BY <2>2, <2>3
  <1>13. ChainOf(p, active)'
    <2>1. ChainOf(p, active')
      BY <1>8, <1>12 DEF ChainOf
    <2> QED
      BY <1>1, <2>1 DEF ChainOf
  <1>14. ASSUME NEW k \in 1 .. n + 1, OwnsSlots(active'[k].f), NEW m \in 1 .. Len(active'[k].given)
         PROVE  slots'[SlotOf(active'[k].f, m)] = active'[k].given[m]
    <2>1. CASE k = n + 1
      BY <1>5, <1>8, <1>14, <2>1
    <2>2. CASE k # n + 1
      <3>1. k \in 1 .. n /\ active'[k].f = active[k].f /\ active'[k].given = active[k].given
        BY <1>9, <1>10, <2>2
      <3> QED
        BY <1>1, <1>14, <3>1, PrivateMeans DEF PrivacyInv
    <2> QED
      BY <2>1, <2>2
  <1>15. ParamsArePrivate'
    BY <1>1, <1>8, <1>14, OwnsStays DEF ParamsArePrivate, FindsItsParams, OwnsSlots, SlotOf
  <1> QED
    BY <1>13, <1>15 DEF PrivacyInv

LEMMA PrivateHostCall == ASSUME HostCall PROVE PrivacyInv'
  <1>1. PICK g \in Functions : active' = <<Begin(g)>>
    BY DEF HostCall
  <1>2. Begin(g).given = <<>>
    BY DEF Begin
  <1> DEFINE b == Begin(g)
  <1>3. active' = <<b>> /\ b.given = <<>>
    BY <1>1, <1>2
  <1> HIDE DEF b
  <1>4. Len(active') = 1 /\ active'[1] = b /\ Len(b.given) = 0
    BY <1>3
  <1>5. ParamsArePrivate'
    BY <1>4 DEF ParamsArePrivate, FindsItsParams
  <1>6. ChainOf(p, active)'
    BY <1>4 DEF ChainOf
  <1> QED
    BY <1>5, <1>6 DEF PrivacyInv

LEMMA PrivateEndCall == ASSUME p \in CallPrograms, RunInv, PrivacyInv, EndCall PROVE PrivacyInv'
  <1>1. p' = p /\ slots' = slots /\ active # <<>>
    BY DEF EndCall
  <1> DEFINE n == Len(active)
             m == Len(active) - 1
  <1>2. n \in Nat \ {0}
    BY <1>1, TopContext
  <1>3. Len(active') = m /\ \A k \in 1 .. m : active'[k].f = active[k].f /\ active'[k].given = active[k].given
    BY CallEnds
  <1>4. m \in Nat /\ m <= n /\ n \in Nat
    BY <1>2
  <1> HIDE DEF m
  <1> QED
    BY <1>1, <1>3, <1>4, KeepsPrivate

(* The record on top changes but in what the call was given.               *)
LEMMA PrivateTop ==
    ASSUME p \in CallPrograms, RunInv, PrivacyInv, active # <<>>, NEW r \in ActRecord, r.f = Act.f, r.given = Act.given,
           p' = p, slots' = slots, active' = OnTop(r)
    PROVE  PrivacyInv'
  <1> DEFINE n == Len(active)
  <1>1. n \in Nat \ {0} /\ Act = active[n]
    BY TopContext
  <1>2. Len(active') = n /\ active'[n] = r /\ \A k \in 1 .. n - 1 : active'[k] = active[k]
    BY OnTopFacts DEF RunInv
  <1>3. \A k \in 1 .. n : k = n \/ k \in 1 .. n - 1
    BY <1>1
  <1>4. \A k \in 1 .. n : active'[k].f = active[k].f /\ active'[k].given = active[k].given
    BY <1>1, <1>2, <1>3
  <1>5. n \in Nat /\ n <= n
    BY <1>1
  <1> QED
    BY <1>2, <1>4, <1>5, KeepsPrivate

LEMMA StepPrivate ==
    TarjanInv /\ RecursionVerdict /\ RunInv /\ PrivacyInv /\ [Next]_vars => PrivacyInv'
  <1> SUFFICES ASSUME TarjanInv, RecursionVerdict, RunInv, PrivacyInv, [Next]_vars PROVE PrivacyInv'
    OBVIOUS
  <1>0. CheckTypeOK /\ p \in CallPrograms
    BY DEF TarjanInv, CheckTypeOK
  <1>1. CASE CheckRecursion
    <2>1. active' = <<>>
      BY <1>0, <1>1, CheckKeepsRun
    <2> QED
      BY <2>1 DEF PrivacyInv, ParamsArePrivate, FindsItsParams, ChainOf
  <1>2. CASE HostCall
    BY <1>2, PrivateHostCall
  <1>3. CASE CallStmt
    BY <1>0, <1>3, PrivateCallStmt
  <1>4. CASE SkipStmt
    <2>1. active # <<>> /\ Act.entered /\ p' = p /\ slots' = slots /\ active' = OnTop(Taken)
      BY <1>4 DEF SkipStmt, Taken
    <2> QED
      BY <1>0, <2>1, TakenFacts, PrivateTop
  <1>5. CASE StoreArg
    BY <1>0, <1>5, PrivateStoreArg
  <1>6. CASE EnterBody
    <2> DEFINE r == [Act EXCEPT !.entered = TRUE]
    <2>1. active # <<>> /\ p' = p /\ slots' = slots /\ active' = OnTop(r)
      BY <1>6 DEF EnterBody
    <2>2. Act \in ActRecord /\ Act.given \in Seq(ArgValues)
      BY <2>1, TopContext
    <2>3. r \in ActRecord
      BY <2>2, ChangedFacts
    <2>4. r.f = Act.f /\ r.given = Act.given
      BY <2>2 DEF ActRecord
    <2> HIDE DEF r
    <2> QED
      BY <1>0, <2>1, <2>3, <2>4, PrivateTop
  <1>7. CASE StoreIntoParam
    BY <1>0, <1>7, PrivateStoreIntoParam
  <1>8. CASE Fail
    <2> DEFINE r == [Act EXCEPT !.failed = TRUE]
    <2>1. active # <<>> /\ p' = p /\ slots' = slots /\ active' = OnTop(r)
      BY <1>8 DEF Fail
    <2>2. Act \in ActRecord /\ Act.given \in Seq(ArgValues)
      BY <2>1, TopContext
    <2>3. r \in ActRecord
      BY <2>2, ChangedFacts
    <2>4. r.f = Act.f /\ r.given = Act.given
      BY <2>2 DEF ActRecord
    <2> HIDE DEF r
    <2> QED
      BY <1>0, <2>1, <2>3, <2>4, PrivateTop
  <1>9. CASE EndCall
    BY <1>0, <1>9, PrivateEndCall
  <1>10. CASE UNCHANGED vars
    <2>1. p' = p /\ slots' = slots /\ active' = active
      BY <1>10 DEF vars, running
    <2>2. Len(active) \in Nat
      BY ActFacts DEF RunInv
    <2> QED
      BY <1>0, <2>1, <2>2, KeepsPrivate
  <1> QED
    BY <1>1, <1>2, <1>3, <1>4, <1>5, <1>6, <1>7, <1>8, <1>9, <1>10 DEF Next, Rejected

(* For every program: every activation finds in its parameters what its    *)
(* call passed or it has stored since, although all activations of a       *)
(* function share its slots (tc_exec_eval_funcall_args), but for functions *)
(* on whose line another with parameters is defined and library functions  *)
(* that call themselves; and these spoil nobody else's parameters.         *)
THEOREM StaticSlotsAreFrames == Spec => []ParamsArePrivate
  <1>1. Init => PrivacyInv
    BY DEF Init, PrivacyInv, ParamsArePrivate, FindsItsParams, ChainOf
  <1>2. TarjanInv /\ RecursionVerdict /\ RunInv /\ PrivacyInv /\ [Next]_vars => PrivacyInv'
    BY StepPrivate
  <1>3. PrivacyInv => ParamsArePrivate
    BY DEF PrivacyInv
  <1> QED
    BY <1>1, <1>2, <1>3, RunInvariant, PTL DEF Spec
=============================================================================
