---------------------------- MODULE Statics_proofs ----------------------------
(***************************************************************************)
(* Static members: in an accepted program every constant and every static  *)
(* variable has the value its initialiser says, programs are accepted and  *)
(* rejected by the rule of the language, and the failed constant that is   *)
(* reported is the first.                                                  *)
(***************************************************************************)
EXTENDS Statics, FiniteSetTheorems, TLAPS

-----------------------------------------------------------------------------
(* Source order                                                            *)

(* Before is a strict total order of places.                               *)
LEMMA BeforeIsTotal ==
    ASSUME NEW S \in SUBSET (Nat \X Nat)
    PROVE  /\ \A p \in S : ~Before(p, p)
           /\ \A p, q \in S : Before(p, q) => ~Before(q, p)
           /\ \A p, q \in S : p = q \/ Before(p, q) \/ Before(q, p)
           /\ \A p, q, r \in S : Before(p, q) /\ Before(q, r) => Before(p, r)
  <1>1. \A p \in S : p[1] \in Nat /\ p[2] \in Nat
    OBVIOUS
  <1>2. \A p, q \in S : p[1] = q[1] /\ p[2] = q[2] => p = q
    OBVIOUS
  <1>3. \A p \in S : ~Before(p, p)
    BY <1>1 DEF Before
  <1>4. \A p, q \in S : Before(p, q) => ~Before(q, p)
    BY <1>1 DEF Before
  <1>5. \A p, q \in S : p = q \/ Before(p, q) \/ Before(q, p)
    BY <1>1, <1>2 DEF Before
  <1>6. \A p, q, r \in S : Before(p, q) /\ Before(q, r) => Before(p, r)
    BY <1>1 DEF Before
  <1> QED
    BY <1>3, <1>4, <1>5, <1>6

UpTo(S, p) == {q \in S : q = p \/ Before(q, p)}
Sorted(S, s) == s \in [1 .. Cardinality(S) -> S] /\ \A i, j \in DOMAIN s : i < j => Before(s[i], s[j])

(* The number of the places up to a place numbers the places.              *)
LEMMA RanksAreDistinct ==
    ASSUME NEW S \in SUBSET (Nat \X Nat), IsFiniteSet(S)
    PROVE  /\ \A p \in S : Cardinality(UpTo(S, p)) \in 1 .. Cardinality(S)
           /\ \A p, q \in S : Before(p, q) => Cardinality(UpTo(S, p)) < Cardinality(UpTo(S, q))
  <1>1. Cardinality(S) \in Nat
    BY FS_CardinalityType
  <1>2. ASSUME NEW p \in S
        PROVE  /\ UpTo(S, p) \in SUBSET S /\ IsFiniteSet(UpTo(S, p)) /\ p \in UpTo(S, p)
               /\ Cardinality(UpTo(S, p)) \in Nat /\ Cardinality(UpTo(S, p)) <= Cardinality(S)
    <2>1. UpTo(S, p) \in SUBSET S /\ p \in UpTo(S, p)
      BY DEF UpTo
    <2> QED
      BY <2>1, FS_Subset, FS_CardinalityType
  <1>3. ASSUME NEW p \in S
        PROVE  Cardinality(UpTo(S, p)) # 0
    BY <1>2, FS_EmptySet
  <1>4. ASSUME NEW p \in S, NEW q \in S, Before(p, q)
        PROVE  Cardinality(UpTo(S, p)) < Cardinality(UpTo(S, q))
    <2>1. UpTo(S, p) \in SUBSET UpTo(S, q)
      BY <1>4, BeforeIsTotal DEF UpTo
    <2>2. q \in UpTo(S, q) /\ q \notin UpTo(S, p)
      BY <1>4, BeforeIsTotal DEF UpTo
    <2>3. Cardinality(UpTo(S, p)) <= Cardinality(UpTo(S, q))
      BY <1>2, <2>1, FS_Subset
    <2>4. Cardinality(UpTo(S, p)) # Cardinality(UpTo(S, q))
      BY <1>2, <2>1, <2>2, FS_Subset
    <2> QED
      BY <1>2, <2>3, <2>4
  <1> QED
    BY <1>1, <1>2, <1>3, <1>4

(* So a finite set of places can be put in source order.                   *)
LEMMA OrderExists ==
    ASSUME NEW S \in SUBSET (Nat \X Nat), IsFiniteSet(S)
    PROVE  \E s : Sorted(S, s)
  <1> DEFINE n == Cardinality(S)
             rank == [p \in S |-> Cardinality(UpTo(S, p))]
             s == [i \in 1 .. n |-> CHOOSE p \in S : rank[p] = i]
  <1>1. n \in Nat /\ IsFiniteSet(1 .. n) /\ Cardinality(1 .. n) = n
    BY FS_CardinalityType, FS_Interval
  <1>2. rank \in [S -> 1 .. n]
    BY RanksAreDistinct
  <1>3. \A p, q \in S : Before(p, q) => rank[p] < rank[q]
    BY RanksAreDistinct
  <1> HIDE DEF rank
  <1>4. \A p, q \in S : rank[p] \in Nat
    BY <1>1, <1>2
  <1>5. \A p, q \in S : rank[p] = rank[q] => p = q
    BY <1>3, <1>4, BeforeIsTotal
  <1>6. rank \in Injection(S, 1 .. n)
    BY <1>2, <1>5 DEF Injection, IsInjective
  <1>7. rank \in Surjection(S, 1 .. n)
    BY <1>1, <1>6, FS_Injection
  <1>8. \A i \in 1 .. n : \E p \in S : rank[p] = i
    BY <1>7 DEF Surjection
  <1>9. \A i \in 1 .. n : s[i] \in S /\ rank[s[i]] = i
    BY <1>8
  <1>10. s \in [1 .. n -> S] /\ DOMAIN s = 1 .. n
    BY <1>9
  <1> HIDE DEF s
  <1>11. ASSUME NEW i \in 1 .. n, NEW j \in 1 .. n, i < j
         PROVE  Before(s[i], s[j])
    <2>1. s[i] \in S /\ s[j] \in S /\ rank[s[i]] = i /\ rank[s[j]] = j
      BY <1>9
    <2>2. s[i] # s[j] /\ ~Before(s[j], s[i])
      BY <1>1, <1>3, <1>11, <2>1
    <2> QED
      BY <2>1, <2>2, BeforeIsTotal
  <1>12. Sorted(S, s)
    BY <1>10, <1>11 DEF Sorted
  <1> QED
    BY <1>12

(* InSourceOrder lists the places, each once, in source order.             *)
LEMMA SourceOrder ==
    ASSUME NEW S \in SUBSET (Nat \X Nat), IsFiniteSet(S), NEW s, s = InSourceOrder(S)
    PROVE  /\ s \in Seq(S) /\ Len(s) \in Nat
           /\ \A p : p \in S <=> \E i \in 1 .. Len(s) : s[i] = p
           /\ \A i, j \in 1 .. Len(s) : i < j => Before(s[i], s[j]) /\ s[i] # s[j]
  <1> DEFINE n == Cardinality(S)
  <1>1. n \in Nat /\ IsFiniteSet(1 .. n) /\ Cardinality(1 .. n) = n
    BY FS_CardinalityType, FS_Interval
  <1>2. Sorted(S, s)
    <2>1. \E t \in [1 .. n -> S] : \A i, j \in DOMAIN t : i < j => Before(t[i], t[j])
      BY OrderExists DEF Sorted
    <2> QED
      BY <2>1 DEF Sorted, InSourceOrder
  <1>3. s \in [1 .. n -> S] /\ DOMAIN s = 1 .. n
    BY <1>2 DEF Sorted
  <1>4. s \in Seq(S) /\ Len(s) = n
    BY <1>1, <1>3
  <1>5. \A i, j \in 1 .. n : i < j => Before(s[i], s[j]) /\ s[i] # s[j]
    BY <1>2, <1>3, BeforeIsTotal DEF Sorted
  <1>6. \A i, j \in 1 .. n : s[i] = s[j] => i = j
    BY <1>1, <1>5
  <1>7. s \in Injection(1 .. n, S)
    BY <1>3, <1>6 DEF Injection, IsInjective
  <1>8. s \in Surjection(1 .. n, S)
    BY <1>1, <1>7, FS_Injection
  <1>9. \A p : p \in S <=> \E i \in 1 .. n : s[i] = p
    BY <1>3, <1>8 DEF Surjection
  <1> QED
    BY <1>1, <1>4, <1>5, <1>9

-----------------------------------------------------------------------------
(* Programs                                                                *)

LEMMA Declared ==
    ASSUME IsStaticsProgram(program), NEW p \in Places
    PROVE  /\ p \in Nat \X Nat /\ p[1] \in 1 .. Len(program) /\ Len(program) \in Nat
           /\ Decl(p) \in Declarations(program)
           /\ Decl(p).kind \in Kinds /\ Decl(p).lhs \in Operands(p) /\ Decl(p).rhs \in Operands(p)
  <1>1. program \in Seq(Seq(Declarations(program)))
    BY DEF IsStaticsProgram
  <1>2. PICK f \in DOMAIN program : p \in {<<f, i>> : i \in DOMAIN program[f]}
    BY DEF Places, PlacesOf
  <1>3. PICK i \in DOMAIN program[f] : p = <<f, i>>
    BY <1>2
  <1>4. Len(program) \in Nat /\ f \in 1 .. Len(program) /\ program[f] \in Seq(Declarations(program))
    BY <1>1
  <1>5. i \in 1 .. Len(program[f]) /\ Len(program[f]) \in Nat /\ program[f][i] \in Declarations(program)
    BY <1>4
  <1>6. p \in Nat \X Nat /\ p[1] = f /\ Decl(p) = program[f][i]
    BY <1>3, <1>4, <1>5 DEF Decl
  <1>7. Decl(p).kind \in Kinds
    BY <1>5, <1>6 DEF Declarations
  <1> QED
    BY <1>4, <1>5, <1>6, <1>7 DEF Operands

LEMMA Operand ==
    ASSUME IsStaticsProgram(program), NEW p \in Places, NEW o \in Operands(p)
    PROVE  /\ o.source \in Sources
           /\ o.source = "literal" => o.value \in Nat
           /\ o.source # "literal" => o.of \in Places
           /\ o.source \in {"member", "field"} => o.of[1] = p[1]
           /\ o.source \in {"import", "import_field"} => o.of[1] # p[1]
  <1>1. Decl(p) \in Declarations(program)
    BY Declared
  <1>2. o \in OperandsIn(program)
    BY <1>1 DEF Operands, Declarations
  <1>3. /\ o.source \in Sources
        /\ o.source = "literal" => o.value \in Nat
        /\ o.source # "literal" => o.of \in Places
    BY <1>2 DEF OperandsIn, Sources, Places
  <1>4. o \in {program[p[1]][p[2]].lhs, program[p[1]][p[2]].rhs}
    BY DEF Operands, Decl
  <1> QED
    BY <1>3, <1>4 DEF IsStaticsProgram, Places

LEMMA PlacesAreFinite ==
    ASSUME IsStaticsProgram(program)
    PROVE  IsFiniteSet(Places) /\ Places \in SUBSET (Nat \X Nat)
  <1> DEFINE row == [f \in DOMAIN program |-> {<<f, i>> : i \in DOMAIN program[f]}]
             rows == {row[f] : f \in DOMAIN program}
  <1>1. program \in Seq(Seq(Declarations(program)))
    BY DEF IsStaticsProgram
  <1>2. IsFiniteSet(DOMAIN program)
    <2>1. DOMAIN program = 1 .. Len(program) /\ Len(program) \in Nat
      BY <1>1
    <2> QED
      BY <2>1, FS_Interval
  <1>3. ASSUME NEW f \in DOMAIN program
        PROVE  IsFiniteSet(row[f])
    <2>1. program[f] \in Seq(Declarations(program))
      BY <1>1
    <2>2. DOMAIN program[f] = 1 .. Len(program[f]) /\ Len(program[f]) \in Nat
      BY <2>1
    <2>3. IsFiniteSet(DOMAIN program[f])
      <3> DEFINE n == Len(program[f])
      <3>1. n \in Int /\ 1 \in Int
        BY <2>2
      <3> HIDE DEF n
      <3>2. IsFiniteSet(1 .. n)
        BY <3>1, FS_Interval
      <3> QED
        BY <2>2, <3>2 DEF n
    <2> DEFINE place == [i \in DOMAIN program[f] |-> <<f, i>>]
    <2>4. place \in Surjection(DOMAIN program[f], row[f])
      BY DEF Surjection
    <2> QED
      BY <2>3, <2>4, FS_Surjection
  <1>4. row \in Surjection(DOMAIN program, rows)
    BY DEF Surjection
  <1>5. IsFiniteSet(rows)
    BY <1>2, <1>4, FS_Surjection
  <1>6. IsFiniteSet(UNION rows)
    BY <1>3, <1>5, FS_UNION
  <1>7. Places = UNION rows
    BY DEF Places, PlacesOf
  <1>8. Places \in SUBSET (Nat \X Nat)
    BY Declared
  <1> QED
    BY <1>6, <1>7, <1>8

(* What a declaration depends on are at most two lets of its module.       *)
LEMMA DependenciesAre ==
    ASSUME IsStaticsProgram(program), NEW p \in Places
    PROVE  /\ IsFiniteSet(Dependencies(p))
           /\ \A q \in Dependencies(p) : q \in Lets /\ q[1] = p[1]
           /\ \A o \in Operands(p) : Collects(p, o) /\ o.of \in Lets => o.of \in Dependencies(p)
           /\ \A q \in Dependencies(p) :
                \E o \in Operands(p) : o.of = q /\ o.source \in {"member", "field"}
  <1>1. Dependencies(p) \in SUBSET Places
    BY DEF Dependencies, Lets
  <1>2. IsFiniteSet(Dependencies(p))
    BY <1>1, PlacesAreFinite, FS_Subset
  <1>3. \A q \in Dependencies(p) :
            \E o \in Operands(p) : o.of = q /\ o.source \in {"member", "field"}
    BY DEF Dependencies, Collects
  <1>4. \A q \in Dependencies(p) : q \in Lets /\ q[1] = p[1]
    BY <1>3, Operand DEF Dependencies
  <1>5. \A o \in Operands(p) : Collects(p, o) /\ o.of \in Lets => o.of \in Dependencies(p)
    BY DEF Dependencies
  <1> QED
    BY <1>2, <1>3, <1>4, <1>5

LEMMA SameProgram ==
    ASSUME program' = program
    PROVE  /\ Places' = Places /\ Lets' = Lets /\ StaticVars' = StaticVars
           /\ \A p : /\ Decl(p)' = Decl(p) /\ Operands(p)' = Operands(p)
                     /\ Dependencies(p)' = Dependencies(p) /\ ImportsLate(p)' = ImportsLate(p)
                     /\ Legal(p)' = Legal(p) /\ Overtakes(p)' = Overtakes(p)
           /\ \A f : LetsOf(f)' = LetsOf(f)
           /\ \A p, o : /\ LegalOperand(p, o)' = LegalOperand(p, o)
                        /\ Unseen(p, o)' = Unseen(p, o)
  BY DEF Places, Lets, StaticVars, Decl, Operands, Dependencies, Collects, LetsOf, LegalOperand,
         Unseen, Legal, Overtakes, ImportsLate

LEMMA LetsAndVars ==
    ASSUME IsStaticsProgram(program)
    PROVE  /\ \A p \in Places : p \in Lets \/ p \in StaticVars
           /\ \A p \in Lets : p \in Places /\ p \notin StaticVars /\ Decl(p).kind = "let"
           /\ \A p \in StaticVars : p \in Places /\ p \notin Lets /\ Decl(p).kind = "var"
           /\ \A f : LetsOf(f) \in SUBSET Lets
  <1>1. \A p \in Places : Decl(p).kind \in {"let", "var"}
    BY Declared DEF Kinds
  <1> QED
    BY <1>1 DEF Lets, StaticVars, LetsOf

-----------------------------------------------------------------------------
(* The invariant                                                           *)

Done == DOMAIN constant \cup failed
Waits(x) == \E i \in 1 .. Len(queue) : queue[i] = x
Free == {p \in LetsOf(file) : Dependencies(p) = {}}
Stages == {"graph", "evaluate", "check", "prepare", "rejected", "failed", "crashed", "running"}

Shape ==
    /\ program \in Programs /\ stage \in Stages /\ file \in Nat \ {0}
    /\ queue \in Seq(Places)
    /\ DOMAIN constant \in SUBSET Lets /\ \A p \in DOMAIN constant : constant[p] \in Nat
    /\ failed \in SUBSET Lets /\ DOMAIN constant \cap failed = {}
    /\ pending \in SUBSET failed /\ \A x, y \in pending : x = y
    /\ DOMAIN slot \in SUBSET StaticVars /\ \A p \in DOMAIN slot : slot[p] \in Nat
    /\ stage \notin {"rejected", "failed"} => report = None
    /\ stage # "rejected" /\ failed # {} => pending # {}

(* The modules are evaluated one after the other.                          *)
Visited ==
    /\ stage \in {"graph", "evaluate"} => \A p \in Lets : p[1] < file => p \in Done
    /\ stage = "graph" => \A p \in Done : p[1] < file
    /\ stage = "evaluate" => \A p \in Done : p[1] <= file
    /\ stage \in {"check", "prepare", "failed", "crashed", "running"} => Lets \in SUBSET Done

(* The queue has the lets whose dependencies are all done.                 *)
Released ==
    stage = "evaluate" =>
        /\ \A p \in LetsOf(file) : \A q \in Dependencies(p) : Before(q, p)
        /\ degree \in [LetsOf(file) -> Nat]
        /\ \A p \in LetsOf(file) : degree[p] = Cardinality(Dependencies(p) \ Done)
        /\ \A i \in 1 .. Len(queue) : queue[i] \in LetsOf(file) /\ queue[i] \notin Done
        /\ \A i, j \in 1 .. Len(queue) : i < j => queue[i] # queue[j]
        /\ \A p \in LetsOf(file) : p \in Done \/ Waits(p) <=> Dependencies(p) \in SUBSET Done

(* Those that depend on none come first, in source order.                  *)
FreeFirst ==
    stage = "evaluate" =>
        \A i \in 1 .. Len(queue) : queue[i] \in Free =>
            /\ \A j \in 1 .. Len(queue) : j < i => queue[j] \in Free /\ Before(queue[j], queue[i])
            /\ \A q \in Done : q \in LetsOf(file) => Before(q, queue[i])

(* No constant is from a value that was not there, but for late imports.   *)
FromConstants ==
    failed = {} =>
        \A p \in DOMAIN constant : ~ImportsLate(p) =>
            /\ \A o \in Operands(p) : o.source # "literal" => o.of \in DOMAIN constant
            /\ constant[p] = Result(p)

LegalSoFar ==
    \A p \in DOMAIN constant : \A o \in Operands(p) :
        LegalOperand(p, o) \/ (Unseen(p, o) /\ o.of # p)

(* A failed constant names one that failed, or the pending one is not      *)
(* after it.                                                               *)
Derived(p) == \E o \in Operands(p) : o.source \notin {"literal", "import"} /\ o.of \in failed
Explained ==
    stage # "rejected" =>
        /\ \A x \in pending : Ready(x)
        /\ \A p \in failed : Legal(p) /\ ~Overtakes(p) =>
                Derived(p) \/ \A x \in pending : x[2] <= p[2]

(* The static vars that have been checked and prepared are those before    *)
(* the queue.                                                              *)
VarsInOrder ==
    stage \in {"check", "prepare"} =>
        /\ \A i \in 1 .. Len(queue) : queue[i] \in StaticVars
        /\ \A i, j \in 1 .. Len(queue) : i < j => Before(queue[i], queue[j])
VarsAllowed ==
    /\ stage = "check" =>
        \A p \in StaticVars : Waits(p) \/ \A o \in Operands(p) : OperandAllowed(p, o)
    /\ Accepted => \A p \in StaticVars : \A o \in Operands(p) : OperandAllowed(p, o)
VarsPrepared ==
    /\ stage \in {"graph", "evaluate", "check"} => slot = <<>>
    /\ stage = "prepare" => \A p \in StaticVars : p \in DOMAIN slot <=> ~Waits(p)
    /\ Accepted => \A p \in DOMAIN slot : Means(p, slot[p])

(* In an accepted program no evaluation failed.                            *)
NoneFailed == Accepted => failed = {}

IInv ==
    /\ Shape /\ Visited /\ Released /\ FreeFirst /\ FromConstants /\ LegalSoFar /\ Explained
    /\ VarsInOrder /\ VarsAllowed /\ VarsPrepared /\ NoneFailed

-----------------------------------------------------------------------------
(* The queue                                                               *)

LEMMA HeadAndTail ==
    ASSUME NEW S, NEW s \in Seq(S), s # <<>>
    PROVE  /\ Len(s) \in Nat \ {0} /\ Head(s) = s[1] /\ Head(s) \in S
           /\ Tail(s) \in Seq(S) /\ Len(Tail(s)) = Len(s) - 1
           /\ \A i \in 1 .. Len(s) - 1 : Tail(s)[i] = s[i + 1]
  OBVIOUS

(* The queue without its first and with others behind it.                  *)
Follows(s, t, u) ==
    /\ Len(u) = Len(s) - 1 + Len(t) /\ Len(s) \in Nat \ {0} /\ Len(t) \in Nat
    /\ \A i \in 1 .. Len(u) :
        \/ i \in 1 .. Len(s) - 1 /\ u[i] = s[i + 1]
        \/ i - (Len(s) - 1) \in 1 .. Len(t) /\ u[i] = t[i - (Len(s) - 1)]
    /\ \A x : (\E i \in 1 .. Len(u) : u[i] = x) <=>
        (\E i \in 2 .. Len(s) : s[i] = x) \/ (\E i \in 1 .. Len(t) : t[i] = x)
LEMMA TailThenMore ==
    ASSUME NEW S, NEW s \in Seq(S), s # <<>>, NEW t \in Seq(S), NEW u, u = Tail(s) \o t
    PROVE  u \in Seq(S) /\ Follows(s, t, u)
  <1>1. /\ Len(s) \in Nat \ {0} /\ Len(t) \in Nat /\ Tail(s) \in Seq(S) /\ Len(Tail(s)) = Len(s) - 1
        /\ \A i \in 1 .. Len(s) - 1 : Tail(s)[i] = s[i + 1]
    OBVIOUS
  <1>2. u \in Seq(S) /\ Len(u) = Len(s) - 1 + Len(t)
    BY <1>1
  <1>3. \A i \in 1 .. Len(u) :
            u[i] = IF i <= Len(s) - 1 THEN Tail(s)[i] ELSE t[i - (Len(s) - 1)]
    BY <1>1, <1>2
  <1>4. \A i \in 1 .. Len(u) :
            \/ i \in 1 .. Len(s) - 1 /\ u[i] = s[i + 1]
            \/ i - (Len(s) - 1) \in 1 .. Len(t) /\ u[i] = t[i - (Len(s) - 1)]
    BY <1>1, <1>2, <1>3
  <1>5. ASSUME NEW i \in 2 .. Len(s)
        PROVE  \E j \in 1 .. Len(u) : u[j] = s[i]
    <2>1. i - 1 \in 1 .. Len(u) /\ i - 1 \in 1 .. Len(s) - 1 /\ (i - 1) + 1 = i
      BY <1>1, <1>2
    <2>2. u[i - 1] = Tail(s)[i - 1]
      BY <1>3, <2>1
    <2>3. Tail(s)[i - 1] = s[(i - 1) + 1]
      BY <1>1, <2>1
    <2> QED
      BY <2>1, <2>2, <2>3
  <1>6. ASSUME NEW i \in 1 .. Len(t)
        PROVE  \E j \in 1 .. Len(u) : u[j] = t[i]
    <2>1. i + (Len(s) - 1) \in 1 .. Len(u) /\ (i + (Len(s) - 1)) - (Len(s) - 1) = i
          /\ ~(i + (Len(s) - 1) <= Len(s) - 1)
      BY <1>1, <1>2
    <2> QED
      BY <1>3, <2>1
  <1>7. \A i \in 1 .. Len(s) - 1 : i + 1 \in 2 .. Len(s)
    BY <1>1
  <1>8. ASSUME NEW i \in 1 .. Len(u)
        PROVE  (\E j \in 2 .. Len(s) : s[j] = u[i]) \/ (\E j \in 1 .. Len(t) : t[j] = u[i])
    BY <1>4, <1>7
  <1>9. \A x : (\E i \in 1 .. Len(u) : u[i] = x) <=>
            (\E i \in 2 .. Len(s) : s[i] = x) \/ (\E i \in 1 .. Len(t) : t[i] = x)
    <2> TAKE x
    <2>1. ASSUME NEW i \in 1 .. Len(u), u[i] = x
          PROVE  (\E j \in 2 .. Len(s) : s[j] = x) \/ (\E j \in 1 .. Len(t) : t[j] = x)
      BY <1>8, <2>1
    <2>2. ASSUME NEW i \in 2 .. Len(s), s[i] = x
          PROVE  \E j \in 1 .. Len(u) : u[j] = x
      BY <1>5, <2>2
    <2>3. ASSUME NEW i \in 1 .. Len(t), t[i] = x
          PROVE  \E j \in 1 .. Len(u) : u[j] = x
      BY <1>6, <2>3
    <2> QED
      BY <2>1, <2>2, <2>3
  <1> QED
    BY <1>1, <1>2, <1>4, <1>9 DEF Follows

-----------------------------------------------------------------------------
(* A let is taken from the queue                                           *)

(* The lets that are released are those for which p was the last.          *)
LEMMA ReleasedOnes ==
    ASSUME IInv, IsStaticsProgram(program), stage = "evaluate", queue # <<>>,
           NEW p, p = Head(queue), NEW q \in LetsOf(file)
    PROVE  /\ p \in LetsOf(file) /\ p \notin Done /\ Dependencies(p) \in SUBSET Done /\ Waits(p)
           /\ (p \in Dependencies(q) /\ degree[q] = 1) <=>
                (Dependencies(q) \in SUBSET (Done \cup {p}) /\ ~(Dependencies(q) \in SUBSET Done))
           /\ p \in Dependencies(q) =>
                /\ degree[q] \in Nat \ {0}
                /\ degree[q] - 1 = Cardinality(Dependencies(q) \ (Done \cup {p}))
           /\ p \notin Dependencies(q) =>
                degree[q] = Cardinality(Dependencies(q) \ (Done \cup {p}))
  <1> USE DEF IInv
  <1>1. Len(queue) \in Nat \ {0} /\ p = queue[1]
    BY HeadAndTail DEF Shape
  <1>2. 1 \in 1 .. Len(queue)
    BY <1>1
  <1>3. p \in LetsOf(file) /\ p \notin Done /\ Waits(p)
    BY <1>1, <1>2 DEF Released, Waits
  <1>4. Dependencies(p) \in SUBSET Done
    BY <1>3 DEF Released
  <1> DEFINE left == Dependencies(q) \ Done
  <1>5. q \in Places
    BY LetsAndVars
  <1>6. IsFiniteSet(left) /\ left \in SUBSET Dependencies(q)
    BY <1>5, DependenciesAre, FS_Subset
  <1>7. degree[q] = Cardinality(left) /\ degree[q] \in Nat
    BY DEF Released
  <1>8. left \ {p} = Dependencies(q) \ (Done \cup {p})
    OBVIOUS
  <1>9. p \in Dependencies(q) <=> p \in left
    BY <1>3
  <1> HIDE DEF left
  <1>10. Cardinality(left \ {p}) = IF p \in left THEN Cardinality(left) - 1 ELSE Cardinality(left)
    BY <1>6, FS_RemoveElement
  <1>11. p \in left => Cardinality(left) # 0
    BY <1>6, FS_EmptySet
  <1>12. Cardinality(left) = 1 /\ p \in left => left = {p}
    BY <1>6, FS_Singleton
  <1>13. left = {p} => Cardinality(left) = 1
    BY FS_Singleton
  <1>14. left = {p} <=> (Dependencies(q) \in SUBSET (Done \cup {p}) /\ ~(Dependencies(q) \in SUBSET Done))
    BY <1>3 DEF left
  <1>15. (p \in Dependencies(q) /\ degree[q] = 1) <=> left = {p}
    BY <1>7, <1>9, <1>12, <1>13
  <1>16. p \in Dependencies(q) =>
            /\ degree[q] \in Nat \ {0}
            /\ degree[q] - 1 = Cardinality(Dependencies(q) \ (Done \cup {p}))
    BY <1>7, <1>8, <1>9, <1>10, <1>11
  <1>17. p \notin Dependencies(q) => degree[q] = Cardinality(Dependencies(q) \ (Done \cup {p}))
    BY <1>7, <1>8, <1>9, <1>10
  <1> QED
    BY <1>3, <1>4, <1>14, <1>15, <1>16, <1>17

(* The queue after it.                                                     *)
LEMMA QueueAfter ==
    ASSUME IInv, IsStaticsProgram(program), stage = "evaluate", queue # <<>>,
           NEW p, p = Head(queue), Release(p)
    PROVE  /\ queue' \in Seq(Places) /\ Len(queue) \in Nat \ {0} /\ Len(queue') \in Nat /\ p = queue[1]
           /\ \A i \in 1 .. Len(queue') :
                \/ i + 1 \in 2 .. Len(queue) /\ queue'[i] = queue[i + 1]
                \/ /\ ~(i + 1 \in 2 .. Len(queue))
                   /\ queue'[i] \in LetsOf(file) /\ p \in Dependencies(queue'[i])
                   /\ degree[queue'[i]] = 1
           /\ \A i, j \in 1 .. Len(queue') :
                i < j /\ ~(i + 1 \in 2 .. Len(queue)) => queue'[i] # queue'[j]
           /\ \A x : (\E i \in 1 .. Len(queue') : queue'[i] = x) <=>
                \/ \E i \in 2 .. Len(queue) : queue[i] = x
                \/ x \in LetsOf(file) /\ p \in Dependencies(x) /\ degree[x] = 1
  <1> DEFINE T == {q \in DOMAIN degree : p \in Dependencies(q) /\ degree[q] = 1}
             t == InSourceOrder(T)
             n == Len(queue) - 1
  <1>1. DOMAIN degree = LetsOf(file)
    BY DEF IInv, Released
  <1>2. T \in SUBSET Places
    BY <1>1, LetsAndVars
  <1>3. T \in SUBSET (Nat \X Nat) /\ IsFiniteSet(T)
    BY <1>2, PlacesAreFinite, FS_Subset
  <1>4. /\ t \in Seq(T) /\ Len(t) \in Nat
        /\ \A x : x \in T <=> \E i \in 1 .. Len(t) : t[i] = x
        /\ \A i, j \in 1 .. Len(t) : i < j => Before(t[i], t[j]) /\ t[i] # t[j]
    <2> HIDE DEF T
    <2> QED
      BY <1>3, SourceOrder
  <1>5. queue' = Tail(queue) \o t
    BY DEF Release
  <1>6. t \in Seq(Places)
    BY <1>2, <1>4
  <1>7. \A x : x \in T <=> x \in LetsOf(file) /\ p \in Dependencies(x) /\ degree[x] = 1
    BY <1>1
  <1> HIDE DEF T, t
  <1>8. /\ queue' \in Seq(Places) /\ Len(queue') = n + Len(t)
        /\ Len(queue) \in Nat \ {0} /\ Len(t) \in Nat
        /\ \A i \in 1 .. Len(queue') :
                \/ i \in 1 .. n /\ queue'[i] = queue[i + 1]
                \/ i - n \in 1 .. Len(t) /\ queue'[i] = t[i - n]
        /\ \A x : (\E i \in 1 .. Len(queue') : queue'[i] = x) <=>
                (\E i \in 2 .. Len(queue) : queue[i] = x) \/ (\E i \in 1 .. Len(t) : t[i] = x)
    <2>1. queue \in Seq(Places)
      BY DEF IInv, Shape
    <2>2. queue' \in Seq(Places) /\ Follows(queue, t, queue')
      BY <1>5, <1>6, <2>1, TailThenMore
    <2> QED
      BY <2>2 DEF Follows
  <1>9. p = queue[1]
    BY HeadAndTail DEF IInv, Shape
  <1>10. \A i \in 1 .. Len(queue') : i + 1 \in 2 .. Len(queue) <=> i \in 1 .. n
    BY <1>8
  <1>11. \A i \in 1 .. Len(queue') : i - n \in 1 .. Len(t) => ~(i \in 1 .. n)
    BY <1>8
  <1>12. ASSUME NEW i \in 1 .. Len(queue'), i - n \in 1 .. Len(t), queue'[i] = t[i - n]
         PROVE  queue'[i] \in LetsOf(file) /\ p \in Dependencies(queue'[i]) /\ degree[queue'[i]] = 1
    BY <1>4, <1>7, <1>12
  <1>13. \A i \in 1 .. Len(queue') :
                \/ i + 1 \in 2 .. Len(queue) /\ queue'[i] = queue[i + 1]
                \/ /\ ~(i + 1 \in 2 .. Len(queue))
                   /\ queue'[i] \in LetsOf(file) /\ p \in Dependencies(queue'[i])
                   /\ degree[queue'[i]] = 1
    BY <1>8, <1>10, <1>11, <1>12
  <1>14. ASSUME NEW i \in 1 .. Len(queue'), NEW j \in 1 .. Len(queue'), i < j, ~(i + 1 \in 2 .. Len(queue))
         PROVE  queue'[i] # queue'[j]
    <2>1. i - n \in 1 .. Len(t) /\ queue'[i] = t[i - n]
      BY <1>8, <1>10, <1>14
    <2>2. ~(j \in 1 .. n)
      BY <1>8, <1>10, <1>14
    <2>3. j - n \in 1 .. Len(t) /\ queue'[j] = t[j - n]
      BY <1>8, <2>2
    <2>4. i - n < j - n
      BY <1>8, <1>14
    <2>5. t[i - n] # t[j - n]
      BY <1>4, <2>1, <2>3, <2>4
    <2> QED
      BY <2>1, <2>3, <2>5
  <1>15. \A x : (\E i \in 1 .. Len(queue') : queue'[i] = x) <=>
                \/ \E i \in 2 .. Len(queue) : queue[i] = x
                \/ x \in LetsOf(file) /\ p \in Dependencies(x) /\ degree[x] = 1
    BY <1>4, <1>7, <1>8
  <1>16. Len(queue') \in Nat
    BY <1>8
  <1> QED
    BY <1>8, <1>9, <1>13, <1>14, <1>15, <1>16

(* It leaves the queue as it was found.                                    *)
LEMMA TakenReleased ==
    ASSUME IInv, IsStaticsProgram(program), stage = "evaluate", queue # <<>>,
           NEW p, p = Head(queue), Release(p),
           program' = program, stage' = stage, file' = file, Done' = Done \cup {p}
    PROVE  Released'
  <1> DEFINE L == LetsOf(file)
  <1>1. /\ \A x : Dependencies(x)' = Dependencies(x)
        /\ LetsOf(file)' = L
    BY SameProgram
  <1>2. /\ p \in L /\ p \notin Done /\ Dependencies(p) \in SUBSET Done
        /\ \A x \in L : degree[x] = 1 /\ p \in Dependencies(x) <=>
                Dependencies(x) \in SUBSET (Done \cup {p}) /\ ~(Dependencies(x) \in SUBSET Done)
        /\ \A x \in L : p \in Dependencies(x) =>
                /\ degree[x] \in Nat \ {0}
                /\ degree[x] - 1 = Cardinality(Dependencies(x) \ (Done \cup {p}))
        /\ \A x \in L : p \notin Dependencies(x) =>
                degree[x] = Cardinality(Dependencies(x) \ (Done \cup {p}))
    <2>1. p \in L
      BY ReleasedOnes DEF IInv, Released, Shape
    <2> QED
      BY <2>1, ReleasedOnes
  <1>3. /\ Len(queue) \in Nat \ {0} /\ Len(queue') \in Nat /\ p = queue[1]
        /\ \A i \in 1 .. Len(queue') :
                \/ i + 1 \in 2 .. Len(queue) /\ queue'[i] = queue[i + 1]
                \/ /\ ~(i + 1 \in 2 .. Len(queue))
                   /\ queue'[i] \in L /\ p \in Dependencies(queue'[i])
                   /\ degree[queue'[i]] = 1
        /\ \A i, j \in 1 .. Len(queue') :
                i < j /\ ~(i + 1 \in 2 .. Len(queue)) => queue'[i] # queue'[j]
        /\ \A x : (\E i \in 1 .. Len(queue') : queue'[i] = x) <=>
                \/ \E i \in 2 .. Len(queue) : queue[i] = x
                \/ x \in L /\ p \in Dependencies(x) /\ degree[x] = 1
    BY QueueAfter
  <1>4. /\ \A x \in L : \A y \in Dependencies(x) : Before(y, x)
        /\ degree \in [L -> Nat]
        /\ \A i \in 1 .. Len(queue) : queue[i] \in L /\ queue[i] \notin Done
        /\ \A i, j \in 1 .. Len(queue) : i < j => queue[i] # queue[j]
        /\ \A x \in L : x \in Done \/ Waits(x) <=> Dependencies(x) \in SUBSET Done
    BY DEF IInv, Released
  <1>5. \A i \in 2 .. Len(queue) :
            i \in 1 .. Len(queue) /\ Waits(queue[i]) /\ queue[i] # p /\ queue[i] \in L /\ queue[i] \notin Done
    <2> TAKE i \in 2 .. Len(queue)
    <2>1. i \in 1 .. Len(queue) /\ 1 \in 1 .. Len(queue) /\ 1 < i
      BY <1>3
    <2> QED
      BY <1>3, <1>4, <2>1 DEF Waits
  <1>6. degree' = [x \in L |-> IF p \in Dependencies(x) THEN degree[x] - 1 ELSE degree[x]]
    BY <1>4 DEF Release
  <1>7. \A x \in L : p \in Dependencies(x) /\ degree[x] = 1 => x \notin Done /\ x # p
    BY <1>2, <1>4
  <1> HIDE DEF L
  <1>8. degree' \in [L -> Nat]
    <2>1. \A x \in L : degree[x] \in Nat
      BY <1>4
    <2>2. ASSUME NEW x \in L, p \in Dependencies(x)
          PROVE  degree[x] - 1 \in Nat
      <3>1. degree[x] \in Nat \ {0}
        BY <1>2, <2>2
      <3> QED
        BY <3>1
    <2> QED
      BY <1>6, <2>1, <2>2
  <1>9. \A x \in L : degree'[x] = Cardinality(Dependencies(x) \ (Done \cup {p}))
    BY <1>2, <1>6
  <1>10. \A i \in 1 .. Len(queue') : queue'[i] \in L /\ queue'[i] \notin Done \cup {p}
    BY <1>3, <1>5, <1>7
  <1>11. ASSUME NEW i \in 1 .. Len(queue'), NEW j \in 1 .. Len(queue'), i < j
         PROVE  queue'[i] # queue'[j]
    <2>1. CASE ~(i + 1 \in 2 .. Len(queue))
      BY <1>3, <1>11, <2>1
    <2>2. CASE i + 1 \in 2 .. Len(queue) /\ j + 1 \in 2 .. Len(queue)
      <3>1. queue'[i] = queue[i + 1] /\ queue'[j] = queue[j + 1] /\ i + 1 < j + 1
            /\ i + 1 \in 1 .. Len(queue) /\ j + 1 \in 1 .. Len(queue)
        BY <1>3, <1>5, <1>11, <2>2
      <3> QED
        BY <1>4, <3>1
    <2>3. CASE i + 1 \in 2 .. Len(queue) /\ ~(j + 1 \in 2 .. Len(queue))
      <3>1. queue'[i] = queue[i + 1] /\ queue'[j] \in L /\ p \in Dependencies(queue'[j])
            /\ degree[queue'[j]] = 1
        BY <1>3, <2>3
      <3>2. Waits(queue'[i]) /\ queue'[i] \in L
        BY <1>5, <2>3, <3>1
      <3>3. Dependencies(queue'[i]) \in SUBSET Done
        BY <1>4, <3>2
      <3> QED
        BY <1>2, <3>1, <3>3
    <2> QED
      BY <2>1, <2>2, <2>3
  <1>12. ASSUME NEW x \in L
         PROVE  x \in Done \cup {p} \/ (\E i \in 1 .. Len(queue') : queue'[i] = x)
                    <=> Dependencies(x) \in SUBSET (Done \cup {p})
    <2>1. Waits(x) => x = p \/ \E i \in 2 .. Len(queue) : queue[i] = x
      BY <1>3 DEF Waits
    <2>2. (\E i \in 2 .. Len(queue) : queue[i] = x) => Waits(x)
      BY <1>5
    <2> QED
      BY <1>2, <1>3, <1>4, <2>1, <2>2
  <1>13. /\ \A x \in L : \A y \in Dependencies(x)' : Before(y, x)
         /\ \A x \in L : degree'[x] = Cardinality(Dependencies(x)' \ Done')
         /\ \A x \in L : x \in Done' \/ Waits(x)' <=> Dependencies(x)' \in SUBSET Done'
    <2>1. \A x : Dependencies(x)' = Dependencies(x)
      BY <1>1
    <2>2. \A x : Waits(x)' <=> \E i \in 1 .. Len(queue') : queue'[i] = x
      BY DEF Waits
    <2> QED
      BY <1>4, <1>9, <1>12, <2>1, <2>2
  <1>14. /\ LetsOf(file)' = L /\ degree' \in [L -> Nat]
         /\ \A i \in 1 .. Len(queue') : queue'[i] \in L /\ queue'[i] \notin Done'
         /\ \A i, j \in 1 .. Len(queue') : i < j => queue'[i] # queue'[j]
    BY <1>1, <1>8, <1>10, <1>11
  <1> QED
    BY <1>13, <1>14 DEF Released

LEMMA TakenFreeFirst ==
    ASSUME IInv, IsStaticsProgram(program), stage = "evaluate", queue # <<>>,
           NEW p, p = Head(queue), Release(p),
           program' = program, stage' = stage, file' = file, Done' = Done \cup {p}
    PROVE  FreeFirst' /\ Visited'
  <1>1. /\ Free' = Free /\ LetsOf(file)' = LetsOf(file) /\ Lets' = Lets
        /\ \A x : x \in Free => Dependencies(x) = {}
    BY SameProgram DEF Free
  <1>2. p \in LetsOf(file)
    BY HeadAndTail DEF IInv, Released, Shape
  <1>3. /\ Len(queue) \in Nat \ {0} /\ Len(queue') \in Nat /\ p = queue[1]
        /\ \A i \in 1 .. Len(queue') :
                \/ i + 1 \in 2 .. Len(queue) /\ queue'[i] = queue[i + 1]
                \/ ~(i + 1 \in 2 .. Len(queue)) /\ p \in Dependencies(queue'[i])
    BY QueueAfter
  <1>4. \A i \in 1 .. Len(queue) : queue[i] \in Free =>
            /\ \A j \in 1 .. Len(queue) : j < i => queue[j] \in Free /\ Before(queue[j], queue[i])
            /\ \A q \in Done : q \in LetsOf(file) => Before(q, queue[i])
    BY DEF IInv, FreeFirst
  <1>5. ASSUME NEW i \in 1 .. Len(queue'), queue'[i] \in Free
        PROVE  /\ \A j \in 1 .. Len(queue') : j < i => queue'[j] \in Free /\ Before(queue'[j], queue'[i])
               /\ \A q \in Done \cup {p} : q \in LetsOf(file) => Before(q, queue'[i])
    <2>1. i + 1 \in 2 .. Len(queue) /\ queue'[i] = queue[i + 1]
      BY <1>1, <1>3, <1>5
    <2>2. i + 1 \in 1 .. Len(queue) /\ 1 \in 1 .. Len(queue) /\ 1 < i + 1
      BY <1>3, <2>1
    <2>3. Before(p, queue'[i])
      BY <1>3, <1>4, <1>5, <2>1, <2>2
    <2>4. \A q \in Done : q \in LetsOf(file) => Before(q, queue'[i])
      BY <1>4, <1>5, <2>1, <2>2
    <2>5. ASSUME NEW j \in 1 .. Len(queue'), j < i
          PROVE  queue'[j] \in Free /\ Before(queue'[j], queue'[i])
      <3>1. j + 1 \in 1 .. Len(queue) /\ j + 1 \in 2 .. Len(queue) /\ j + 1 < i + 1
        BY <1>3, <2>1, <2>5
      <3>2. queue[j + 1] \in Free /\ Before(queue[j + 1], queue[i + 1])
        BY <1>4, <1>5, <2>1, <2>2, <3>1
      <3>3. queue'[j] = queue[j + 1]
        BY <1>3, <3>1
      <3> QED
        BY <2>1, <3>2, <3>3
    <2> QED
      BY <2>3, <2>4, <2>5
  <1>6. FreeFirst'
    BY <1>1, <1>5 DEF FreeFirst
  <1>7. file \in Nat /\ p[1] = file
    BY <1>2 DEF LetsOf, IInv, Shape
  <1>8. Visited'
    BY <1>1, <1>7 DEF IInv, Visited
  <1> QED
    BY <1>6, <1>8

-----------------------------------------------------------------------------
(* A let whose evaluation stops                                            *)

(* What is not imported late has been evaluated.                           *)
LEMMA ImportsAreDone ==
    ASSUME IInv, IsStaticsProgram(program), stage = "evaluate",
           NEW p \in LetsOf(file), ~ImportsLate(p), NEW o \in Operands(p),
           o.source \in {"import", "import_field"}, o.of \in Lets
    PROVE  o.of \in Done
  <1>1. p \in Places /\ p[1] = file /\ file \in Nat
    BY LetsAndVars DEF LetsOf, IInv, Shape
  <1>2. o.of[1] # file /\ o.of[1] \in Nat
    BY <1>1, Operand, LetsAndVars, PlacesAreFinite
  <1>3. ~(o.of[1] > file)
    BY <1>1 DEF ImportsLate
  <1>4. o.of[1] < file
    BY <1>1, <1>2, <1>3
  <1> QED
    BY <1>4 DEF IInv, Visited

LEMMA HeadOfQueue ==
    ASSUME IInv, IsStaticsProgram(program), stage = "evaluate", queue # <<>>, NEW p, p = Head(queue)
    PROVE  /\ p \in LetsOf(file) /\ p \in Lets /\ p \in Places /\ p[1] = file /\ file \in Nat
           /\ Decl(p).kind = "let" /\ p \notin Done /\ Dependencies(p) \in SUBSET Done
           /\ Len(queue) \in Nat \ {0} /\ p = queue[1]
  <1>1. Len(queue) \in Nat \ {0} /\ p = queue[1]
    BY HeadAndTail DEF IInv, Shape
  <1>2. 1 \in 1 .. Len(queue)
    BY <1>1
  <1>3. p \in LetsOf(file) /\ p \notin Done /\ Waits(p)
    BY <1>1, <1>2 DEF IInv, Released, Waits
  <1>4. Dependencies(p) \in SUBSET Done
    BY <1>3 DEF IInv, Released
  <1>5. p \in Lets /\ p \in Places /\ p[1] = file /\ Decl(p).kind = "let" /\ file \in Nat
    BY <1>3, LetsAndVars DEF LetsOf, IInv, Shape
  <1> QED
    BY <1>1, <1>3, <1>4, <1>5

(* A legal let stops at a let that failed.                                 *)
LEMMA Stops ==
    ASSUME IInv, IsStaticsProgram(program), stage = "evaluate", queue # <<>>,
           NEW p, p = Head(queue), ~Ready(p), Legal(p), ~Overtakes(p)
    PROVE  /\ StopsAt(p) \in Operands(p) /\ StopsAt(p).source \notin {"literal", "import"}
           /\ StopsAt(p).of \in failed
  <1> DEFINE o == StopsAt(p)
  <1>1. /\ p \in LetsOf(file) /\ p \in Places /\ p[1] = file /\ Decl(p).kind = "let"
        /\ Dependencies(p) \in SUBSET Done /\ Len(queue) \in Nat \ {0} /\ p = queue[1]
    BY HeadOfQueue
  <1>2. o \in Operands(p) /\ ~Available(o)
    BY DEF StopsAt, Operands, Ready
  <1> HIDE DEF o
  <1>3. o.source \in Sources \ {"literal"} /\ o.of \in Places
    BY <1>1, <1>2, Operand DEF Available
  <1>4. LegalOperand(p, o)
    BY <1>2 DEF Legal
  <1>5. o.of \in Lets /\ (o.source \in {"member", "field"} => Before(o.of, p))
    BY <1>1, <1>3, <1>4 DEF LegalOperand
  <1>6. o.source # "import" /\ o.of \notin DOMAIN constant
    BY <1>2, <1>3, <1>5 DEF Available, HasValue
  <1>7. CASE o.source = "import_field"
    <2>1. ~ImportsLate(p)
      BY DEF Overtakes
    <2>2. o.of \in Done
      BY <1>1, <1>2, <1>5, <1>7, <2>1, ImportsAreDone
    <2> QED
      BY <1>2, <1>3, <1>6, <2>2 DEF Done, o
  <1>8. CASE Collects(p, o)
    <2>1. o.of \in Done
      BY <1>1, <1>2, <1>5, <1>8, DependenciesAre
    <2> QED
      BY <1>2, <1>3, <1>6, <2>1 DEF Done, o
  <1>9. CASE o.source = "member" /\ ~Collects(p, o)
    <2>1. Dependencies(o.of) = {}
      BY <1>2, <1>5, <1>9 DEF Overtakes, Collects
    <2>2. o.of[1] = file
      BY <1>1, <1>2, <1>9, Operand
    <2>3. o.of \in Free /\ o.of \in LetsOf(file)
      BY <1>5, <2>1, <2>2 DEF Free, LetsOf
    <2>4. o.of \in Done \/ Waits(o.of)
      BY <2>1, <2>3 DEF IInv, Released
    <2>5. ~Waits(o.of)
      <3> SUFFICES ASSUME NEW i \in 1 .. Len(queue), queue[i] = o.of
                   PROVE  FALSE
        BY DEF Waits
      <3>1. Before(o.of, p)
        BY <1>5, <1>9
      <3>2. i # 1
        BY <1>1, <1>3, <3>1, PlacesAreFinite, BeforeIsTotal
      <3>3. 1 \in 1 .. Len(queue) /\ 1 < i
        BY <1>1, <3>2
      <3>4. Before(p, o.of)
        BY <1>1, <2>3, <3>3 DEF IInv, FreeFirst
      <3> QED
        BY <1>1, <1>3, <3>1, <3>4, PlacesAreFinite, BeforeIsTotal
    <2> QED
      BY <1>2, <1>3, <1>6, <2>4, <2>5 DEF Done, o
  <1> QED
    BY <1>3, <1>6, <1>7, <1>8, <1>9 DEF Sources, Collects

(* An operand that has its value is a legal one, or an exception.          *)
LEMMA ReadyIsLegal ==
    ASSUME IInv, IsStaticsProgram(program), stage = "evaluate", queue # <<>>,
           NEW p, p = Head(queue), Ready(p), NEW o \in Operands(p)
    PROVE  LegalOperand(p, o) \/ (Unseen(p, o) /\ o.of # p)
  <1>1. /\ p \in LetsOf(file) /\ p \in Places /\ p[1] = file /\ Decl(p).kind = "let"
        /\ p \notin Done /\ Dependencies(p) \in SUBSET Done /\ Len(queue) \in Nat \ {0} /\ p = queue[1]
    BY HeadOfQueue
  <1>2. /\ o.source \in Sources
        /\ o.source \in {"member", "field"} => o.of[1] = p[1]
    BY <1>1, Operand
  <1>3. CASE o.source = "literal"
    BY <1>3 DEF LegalOperand
  <1>4. CASE o.source \in {"import", "import_field"}
    BY <1>4 DEF LegalOperand, Ready, Available
  <1>5. CASE o.source \in {"member", "field"}
    <2>1. o.of \in Lets /\ o.of \in Done /\ o.of # p /\ o.of \in LetsOf(file)
      BY <1>1, <1>2, <1>5 DEF Ready, Available, HasValue, Done, LetsOf
    <2>2. CASE Collects(p, o)
      <3>1. o.of \in Dependencies(p)
        BY <1>1, <2>1, <2>2, DependenciesAre
      <3>2. Before(o.of, p)
        BY <1>1, <3>1 DEF IInv, Released
      <3> QED
        BY <1>5, <2>1, <3>2 DEF LegalOperand
    <2>3. CASE ~Collects(p, o) /\ Dependencies(p) = {}
      <3>1. p \in Free /\ 1 \in 1 .. Len(queue)
        BY <1>1, <2>3 DEF Free
      <3>2. Before(o.of, p)
        BY <1>1, <2>1, <3>1 DEF IInv, FreeFirst
      <3> QED
        BY <1>5, <2>1, <3>2 DEF LegalOperand
    <2>4. CASE ~Collects(p, o) /\ Dependencies(p) # {}
      BY <1>1, <1>5, <2>1, <2>4 DEF Unseen, Collects
    <2> QED
      BY <2>2, <2>3, <2>4
  <1> QED
    BY <1>2, <1>3, <1>4, <1>5 DEF Sources

-----------------------------------------------------------------------------
(* The values as constants are added                                       *)

LEMMA SourceNeeded ==
    \A o : Available(o)' <=> (o.source # "literal" =>
        o.of \in Lets' /\ (o.source # "import" => o.of \in DOMAIN constant'))
  BY DEF Available, HasValue

LEMMA ReadyLater ==
    ASSUME program' = program, DOMAIN constant \in SUBSET DOMAIN constant'
    PROVE  \A x : Ready(x) => Ready(x)'
  <1>1. \A o : Available(o) => Available(o)'
    BY SameProgram, SourceNeeded DEF Available, HasValue
  <1>2. \A x : Operands(x)' = Operands(x)
    BY SameProgram
  <1> QED
    BY <1>1, <1>2 DEF Ready

Given(p) == \A o \in Operands(p) : o.source # "literal" => o.of \in DOMAIN constant
LEMMA SameResult ==
    ASSUME program' = program, \A x \in DOMAIN constant : x \in DOMAIN constant' /\ constant'[x] = constant[x],
           NEW p, Given(p)
    PROVE  Result(p)' = Result(p)
  <1>1. Decl(p)' = Decl(p)
    BY SameProgram
  <1>2. ASSUME NEW o \in Operands(p)
        PROVE  ValueOf(o)' = ValueOf(o)
    <2>1. CASE o.source = "literal"
      BY <2>1 DEF ValueOf
    <2>2. CASE o.source # "literal"
      <3>1. o.of \in DOMAIN constant /\ o.of \in DOMAIN constant' /\ constant'[o.of] = constant[o.of]
        BY <2>2 DEF Given
      <3>2. ValueOf(o) = constant[o.of]
        BY <2>2, <3>1 DEF ValueOf, HasValue
      <3>3. ValueOf(o)' = constant'[o.of]
        BY <2>2, <3>1 DEF ValueOf, HasValue
      <3> QED
        BY <3>1, <3>2, <3>3
    <2> QED
      BY <2>1, <2>2
  <1>3. ValueOf(Decl(p).lhs)' = ValueOf(Decl(p).lhs) /\ ValueOf(Decl(p).rhs)' = ValueOf(Decl(p).rhs)
    BY <1>1, <1>2 DEF Operands
  <1> QED
    BY <1>1, <1>3 DEF Result

LEMMA ResultIsNatural ==
    ASSUME IInv, IsStaticsProgram(program), NEW p \in Places
    PROVE  Result(p) \in Nat
  <1>1. ASSUME NEW o \in Operands(p)
        PROVE  ValueOf(o) \in Nat
    BY Operand DEF ValueOf, HasValue, IInv, Shape
  <1>2. ValueOf(Decl(p).lhs) \in Nat /\ ValueOf(Decl(p).rhs) \in Nat
    BY <1>1 DEF Operands
  <1> QED
    BY <1>2 DEF Result

-----------------------------------------------------------------------------
(* The steps of the evaluation                                             *)

LEMMA EvaluateLetKeeps ==
    ASSUME IInv, IsStaticsProgram(program), EvaluateLet
    PROVE  IInv'
  <1> DEFINE p == Head(queue)
  <1>1. /\ stage = "evaluate" /\ queue # <<>> /\ Ready(p) /\ Result(p) <= Limit
        /\ constant' = Put(constant, p, Result(p)) /\ Release(p)
        /\ UNCHANGED <<program, stage, file, failed, pending, report, slot>>
    BY DEF EvaluateLet
  <1>2. /\ p \in LetsOf(file) /\ p \in Lets /\ p \in Places /\ p \notin Done
    BY <1>1, HeadOfQueue
  <1>3. Result(p) \in Nat
    BY <1>2, ResultIsNatural
  <1>4. queue' \in Seq(Places)
    BY <1>1, QueueAfter
  <1>5. \A o \in Operands(p) : LegalOperand(p, o) \/ (Unseen(p, o) /\ o.of # p)
    BY <1>1, ReadyIsLegal
  <1>6. ASSUME failed = {}, ~ImportsLate(p)
        PROVE  Given(p)
    <2> SUFFICES ASSUME NEW o \in Operands(p), o.source # "literal"
                 PROVE  o.of \in DOMAIN constant
      BY DEF Given
    <2>1. o.of \in Lets /\ (o.source # "import" => o.of \in DOMAIN constant)
      BY <1>1 DEF Ready, Available, HasValue
    <2>2. o.source = "import" => o.of \in Done
      BY <1>1, <1>2, <1>6, <2>1, ImportsAreDone
    <2> QED
      BY <1>6, <2>1, <2>2 DEF Done
  <1> HIDE DEF p
  <1>7. /\ DOMAIN constant' = DOMAIN constant \cup {p} /\ constant'[p] = Result(p)
        /\ \A x \in DOMAIN constant : x # p /\ constant'[x] = constant[x]
    BY <1>1, <1>2 DEF Put, Done
  <1>8. Done' = Done \cup {p}
    BY <1>1, <1>7 DEF Done
  <1>9. Released' /\ FreeFirst' /\ Visited'
    BY <1>1, <1>8, TakenReleased, TakenFreeFirst DEF p
  <1>10. /\ Places' = Places /\ Lets' = Lets /\ StaticVars' = StaticVars
         /\ \A x : /\ Operands(x)' = Operands(x) /\ ImportsLate(x)' = ImportsLate(x)
                   /\ Legal(x)' = Legal(x) /\ Overtakes(x)' = Overtakes(x)
         /\ \A x, o : LegalOperand(x, o)' = LegalOperand(x, o) /\ Unseen(x, o)' = Unseen(x, o)
    BY <1>1, SameProgram
  <1>11. Shape'
    <2>1. /\ DOMAIN constant' \in SUBSET Lets' /\ \A x \in DOMAIN constant' : constant'[x] \in Nat
          /\ DOMAIN constant' \cap failed' = {}
      BY <1>1, <1>2, <1>3, <1>7, <1>10 DEF IInv, Shape, Done
    <2> QED
      BY <1>1, <1>4, <1>10, <2>1 DEF IInv, Shape
  <1>12. FromConstants'
    <2> SUFFICES ASSUME failed = {}, NEW x \in DOMAIN constant', ~ImportsLate(x)
                 PROVE  /\ \A o \in Operands(x) : o.source # "literal" => o.of \in DOMAIN constant'
                        /\ constant'[x] = Result(x)'
      BY <1>1, <1>10 DEF FromConstants
    <2>1. Given(x)
      BY <1>6, <1>7 DEF Given, IInv, FromConstants
    <2>2. Result(x)' = Result(x)
      BY <1>1, <1>7, <2>1, SameResult
    <2>3. constant'[x] = Result(x)
      BY <1>7 DEF IInv, FromConstants
    <2> QED
      BY <1>7, <2>1, <2>2, <2>3 DEF Given
  <1>13. LegalSoFar'
    BY <1>5, <1>7, <1>10 DEF IInv, LegalSoFar
  <1>14. Explained'
    <2>1. \A x \in pending : Ready(x)'
      BY <1>1, <1>7, ReadyLater DEF IInv, Explained
    <2>2. \A x : Derived(x)' = Derived(x)
      BY <1>1, <1>10 DEF Derived
    <2> QED
      BY <1>1, <1>10, <2>1, <2>2 DEF IInv, Explained
  <1>15. VarsInOrder' /\ VarsAllowed' /\ VarsPrepared' /\ NoneFailed'
    BY <1>1 DEF VarsInOrder, VarsAllowed, VarsPrepared, NoneFailed, Accepted, IInv
  <1> QED
    BY <1>9, <1>11, <1>12, <1>13, <1>14, <1>15 DEF IInv

LEMMA DeferLetKeeps ==
    ASSUME IInv, IsStaticsProgram(program), DeferLet
    PROVE  IInv'
  <1> DEFINE p == Head(queue)
  <1>1. /\ stage = "evaluate" /\ queue # <<>> /\ Ready(p)
        /\ pending' = Defer(p) /\ failed' = failed \cup {p} /\ Release(p)
        /\ UNCHANGED <<program, stage, file, constant, report, slot>>
    BY DEF DeferLet
  <1>2. /\ p \in LetsOf(file) /\ p \in Lets /\ p \in Places /\ p \notin Done
    BY <1>1, HeadOfQueue
  <1>3. queue' \in Seq(Places)
    BY <1>1, QueueAfter
  <1> HIDE DEF p
  <1>4. Done' = Done \cup {p}
    BY <1>1 DEF Done
  <1>5. Released' /\ FreeFirst' /\ Visited'
    BY <1>1, <1>4, TakenReleased, TakenFreeFirst DEF p
  <1>6. /\ Places' = Places /\ Lets' = Lets /\ StaticVars' = StaticVars
        /\ \A x : /\ Operands(x)' = Operands(x)
                  /\ Legal(x)' = Legal(x) /\ Overtakes(x)' = Overtakes(x)
        /\ \A x, o : LegalOperand(x, o)' = LegalOperand(x, o) /\ Unseen(x, o)' = Unseen(x, o)
    BY <1>1, SameProgram
  <1>7. p[2] \in Nat /\ \A x \in failed : x[2] \in Nat
    BY <1>2, PlacesAreFinite, LetsAndVars DEF IInv, Shape
  <1>8. /\ pending' \in SUBSET failed' /\ pending' # {} /\ \A x, y \in pending' : x = y
        /\ pending' = {p} \/ pending' = pending
        /\ \A x \in pending' : x[2] <= p[2] /\ \A y \in pending : x[2] <= y[2]
    <2>1. CASE \A q \in pending : p[2] < q[2]
      BY <1>1, <1>7, <2>1 DEF Defer, IInv, Shape
    <2>2. CASE ~(\A q \in pending : p[2] < q[2])
      <3>1. pending' = pending
        BY <1>1, <2>2 DEF Defer
      <3>2. PICK q \in pending : ~(p[2] < q[2])
        BY <2>2
      <3>3. \A x \in pending : x = q
        BY <3>2 DEF IInv, Shape
      <3>4. q \in failed
        BY <3>2 DEF IInv, Shape
      <3>5. q[2] <= p[2] /\ q[2] <= q[2]
        BY <1>7, <3>2, <3>4
      <3> QED
        BY <1>1, <3>1, <3>3, <3>4, <3>5
    <2> QED
      BY <2>1, <2>2
  <1>9. Shape'
    <2>1. failed' \in SUBSET Lets' /\ DOMAIN constant \cap failed' = {}
      BY <1>1, <1>2, <1>6 DEF IInv, Shape, Done
    <2> QED
      BY <1>1, <1>3, <1>6, <1>8, <2>1 DEF IInv, Shape
  <1>10. FromConstants'
    BY <1>1 DEF FromConstants
  <1>11. LegalSoFar'
    BY <1>1, <1>6 DEF IInv, LegalSoFar
  <1>12. Explained'
    <2>1. \A x \in pending' : Ready(x)'
      <3>1. \A x \in pending' : Ready(x)
        BY <1>1, <1>8 DEF IInv, Explained, p
      <3> QED
        BY <1>1, <3>1, ReadyLater
    <2>2. ASSUME NEW x \in failed', Legal(x), ~Overtakes(x)
          PROVE  Derived(x)' \/ \A y \in pending' : y[2] <= x[2]
      <3>1. CASE x = p
        BY <1>8, <3>1
      <3>2. CASE x \in failed /\ Derived(x)
        BY <1>1, <1>6, <3>2 DEF Derived
      <3>3. CASE x \in failed /\ \A y \in pending : y[2] <= x[2]
        <4>1. PICK z \in pending : TRUE
          BY <1>1, <3>3 DEF IInv, Shape
        <4>2. z \in failed /\ z[2] <= x[2] /\ \A y \in pending' : y[2] <= z[2]
          BY <1>8, <3>3, <4>1 DEF IInv, Shape
        <4>3. \A y \in pending' : y[2] \in Nat
          BY <1>1, <1>7, <1>8
        <4> QED
          BY <1>7, <3>3, <4>2, <4>3
      <3> QED
        BY <1>1, <2>2, <3>1, <3>2, <3>3 DEF IInv, Explained
    <2> QED
      BY <1>6, <2>1, <2>2 DEF Explained
  <1>13. VarsInOrder' /\ VarsAllowed' /\ VarsPrepared' /\ NoneFailed'
    BY <1>1 DEF VarsInOrder, VarsAllowed, VarsPrepared, NoneFailed, Accepted, IInv
  <1> QED
    BY <1>5, <1>9, <1>10, <1>11, <1>12, <1>13 DEF IInv

LEMMA WithholdLetKeeps ==
    ASSUME IInv, IsStaticsProgram(program), WithholdLet
    PROVE  IInv'
  <1> DEFINE p == Head(queue)
  <1>1. /\ stage = "evaluate" /\ queue # <<>> /\ ~Ready(p) /\ pending # {}
        /\ failed' = failed \cup {p} /\ Release(p)
        /\ UNCHANGED <<program, stage, file, constant, pending, report, slot>>
    BY DEF WithholdLet, SeemsWithheld
  <1>2. /\ p \in LetsOf(file) /\ p \in Lets /\ p \in Places /\ p \notin Done
    BY <1>1, HeadOfQueue
  <1>3. queue' \in Seq(Places)
    BY <1>1, QueueAfter
  <1>4. Legal(p) /\ ~Overtakes(p) => Derived(p)
    BY <1>1, Stops DEF Derived
  <1> HIDE DEF p
  <1>5. Done' = Done \cup {p}
    BY <1>1 DEF Done
  <1>6. Released' /\ FreeFirst' /\ Visited'
    BY <1>1, <1>5, TakenReleased, TakenFreeFirst DEF p
  <1>7. /\ Places' = Places /\ Lets' = Lets /\ StaticVars' = StaticVars
        /\ \A x : /\ Operands(x)' = Operands(x)
                  /\ Legal(x)' = Legal(x) /\ Overtakes(x)' = Overtakes(x)
        /\ \A x, o : LegalOperand(x, o)' = LegalOperand(x, o) /\ Unseen(x, o)' = Unseen(x, o)
    BY <1>1, SameProgram
  <1>8. Shape'
    <2>1. failed' \in SUBSET Lets' /\ DOMAIN constant \cap failed' = {}
      BY <1>1, <1>2, <1>7 DEF IInv, Shape, Done
    <2> QED
      BY <1>1, <1>3, <1>7, <2>1 DEF IInv, Shape
  <1>9. FromConstants'
    BY <1>1 DEF FromConstants
  <1>10. LegalSoFar'
    BY <1>1, <1>7 DEF IInv, LegalSoFar
  <1>11. Explained'
    <2>1. \A x \in pending' : Ready(x)'
      BY <1>1, ReadyLater DEF IInv, Explained
    <2>2. \A x : Derived(x) => Derived(x)'
      BY <1>1, <1>7 DEF Derived
    <2> QED
      BY <1>1, <1>4, <1>7, <2>1, <2>2 DEF IInv, Explained
  <1>12. VarsInOrder' /\ VarsAllowed' /\ VarsPrepared' /\ NoneFailed'
    BY <1>1 DEF VarsInOrder, VarsAllowed, VarsPrepared, NoneFailed, Accepted, IInv
  <1> QED
    BY <1>6, <1>8, <1>9, <1>10, <1>11, <1>12 DEF IInv

(* What has been evaluated stays as it is.                                 *)
LEMMA ConstantsKept ==
    ASSUME IInv, program' = program, constant' = constant, failed' = failed
    PROVE  FromConstants' /\ LegalSoFar' /\ Done' = Done
  <1>1. /\ Lets' = Lets
        /\ \A x : Operands(x)' = Operands(x) /\ ImportsLate(x)' = ImportsLate(x)
        /\ \A x, o : LegalOperand(x, o)' = LegalOperand(x, o) /\ Unseen(x, o)' = Unseen(x, o)
    BY SameProgram
  <1>2. FromConstants'
    <2> SUFFICES ASSUME failed = {}, NEW x \in DOMAIN constant, ~ImportsLate(x)
                 PROVE  /\ \A o \in Operands(x)' : o.source # "literal" => o.of \in DOMAIN constant
                        /\ constant[x] = Result(x)'
      BY <1>1 DEF FromConstants
    <2>1. Given(x) /\ constant[x] = Result(x)
      BY DEF Given, IInv, FromConstants
    <2>2. Result(x)' = Result(x)
      BY <2>1, SameResult
    <2> QED
      BY <1>1, <2>1, <2>2 DEF Given
  <1>3. LegalSoFar'
    BY <1>1 DEF IInv, LegalSoFar
  <1> QED
    BY <1>2, <1>3 DEF Done

LEMMA ExplainedKept ==
    ASSUME IInv, stage # "rejected", program' = program, constant' = constant, failed' = failed, pending' = pending
    PROVE  Explained'
  <1>1. \A x \in pending : Ready(x)'
    BY ReadyLater DEF IInv, Explained
  <1>2. \A x : /\ Operands(x)' = Operands(x)
               /\ Legal(x)' = Legal(x) /\ Overtakes(x)' = Overtakes(x)
    BY SameProgram
  <1>3. \A x : Derived(x)' = Derived(x)
    BY <1>2 DEF Derived
  <1> QED
    BY <1>1, <1>2, <1>3 DEF IInv, Explained

LEMMA RejectionKeeps ==
    ASSUME IInv, stage' = "rejected", pending' \in SUBSET pending,
           UNCHANGED <<program, file, queue, constant, failed, slot>>
    PROVE  IInv'
  <1>1. Places' = Places /\ Lets' = Lets /\ StaticVars' = StaticVars
    BY SameProgram
  <1>2. Shape'
    BY <1>1 DEF IInv, Shape, Stages
  <1>3. FromConstants' /\ LegalSoFar'
    BY ConstantsKept
  <1>4. Visited' /\ Released' /\ FreeFirst' /\ Explained'
    BY DEF Visited, Released, FreeFirst, Explained
  <1>5. VarsInOrder' /\ VarsAllowed' /\ VarsPrepared' /\ NoneFailed'
    BY DEF VarsInOrder, VarsAllowed, VarsPrepared, NoneFailed, Accepted
  <1> QED
    BY <1>2, <1>3, <1>4, <1>5 DEF IInv

LEMMA BuildGraphKeeps ==
    ASSUME IInv, IsStaticsProgram(program), BuildGraph
    PROVE  IInv'
  <1>1. /\ stage = "graph" /\ stage' = "evaluate"
        /\ \A p \in LetsOf(file) : ~LooksAhead(p)
        /\ degree' = [p \in LetsOf(file) |-> Cardinality(Dependencies(p))]
        /\ queue' = InSourceOrder(Free)
        /\ UNCHANGED <<program, file, constant, failed, pending, report, slot>>
    BY DEF BuildGraph, Free
  <1>2. /\ Places' = Places /\ Lets' = Lets /\ StaticVars' = StaticVars
        /\ LetsOf(file)' = LetsOf(file)
        /\ \A x : Dependencies(x)' = Dependencies(x)
    BY <1>1, SameProgram
  <1>3. Free \in SUBSET Places /\ Free \in SUBSET LetsOf(file)
    BY LetsAndVars DEF Free
  <1>4. /\ queue' \in Seq(Free) /\ Len(queue') \in Nat
        /\ \A p : p \in Free <=> \E i \in 1 .. Len(queue') : queue'[i] = p
        /\ \A i, j \in 1 .. Len(queue') : i < j => Before(queue'[i], queue'[j]) /\ queue'[i] # queue'[j]
    <2>1. Free \in SUBSET (Nat \X Nat) /\ IsFiniteSet(Free)
      BY <1>3, PlacesAreFinite, FS_Subset
    <2> DEFINE F == Free
               s == InSourceOrder(F)
    <2>2. queue' = s /\ F \in SUBSET (Nat \X Nat) /\ IsFiniteSet(F)
      BY <1>1, <2>1
    <2> HIDE DEF F
    <2>3. /\ s \in Seq(F) /\ Len(s) \in Nat
          /\ \A p : p \in F <=> \E i \in 1 .. Len(s) : s[i] = p
          /\ \A i, j \in 1 .. Len(s) : i < j => Before(s[i], s[j]) /\ s[i] # s[j]
      BY <2>2, SourceOrder
    <2> HIDE DEF s
    <2> QED
      BY <2>2, <2>3 DEF F
  <1>5. queue' \in Seq(Places)
    BY <1>3, <1>4
  <1>6. FromConstants' /\ LegalSoFar' /\ Done' = Done /\ Explained'
    BY <1>1, ConstantsKept, ExplainedKept
  <1>7. Shape'
    BY <1>1, <1>2, <1>5 DEF IInv, Shape, Stages
  <1>8. file \in Nat /\ \A p \in LetsOf(file) : p \in Places /\ p \notin Done /\ p[1] = file
    <2>1. file \in Nat /\ \A p \in LetsOf(file) : p \in Places /\ p[1] = file
      BY LetsAndVars DEF LetsOf, IInv, Shape
    <2> QED
      BY <1>1, <2>1 DEF IInv, Visited
  <1>9. Visited'
    <2>1. \A p \in Done : p[1] \in Nat /\ p[1] < file
      BY <1>1, LetsAndVars, PlacesAreFinite DEF IInv, Visited, Done, Shape
    <2>2. \A p \in Done : p[1] <= file
      BY <1>8, <2>1
    <2> QED
      BY <1>1, <1>2, <1>6, <2>2 DEF IInv, Visited
  <1>10. \A p \in LetsOf(file) : \A q \in Dependencies(p) : Before(q, p) /\ q \in LetsOf(file)
    <2> SUFFICES ASSUME NEW p \in LetsOf(file), NEW q \in Dependencies(p)
                 PROVE  Before(q, p) /\ q \in LetsOf(file)
      OBVIOUS
    <2>1. p \in Places /\ q \in Lets /\ q[1] = p[1] /\ p[1] = file /\ q \in Places
      BY <1>8, DependenciesAre, LetsAndVars
    <2>2. ~(q[2] >= p[2]) /\ p[2] \in Nat /\ q[2] \in Nat
      BY <1>1, <2>1, PlacesAreFinite DEF LooksAhead
    <2> QED
      BY <2>1, <2>2 DEF Before, LetsOf
  <1>11. \A p \in LetsOf(file) : /\ Dependencies(p) \ Done = Dependencies(p)
                                 /\ Cardinality(Dependencies(p)) \in Nat
                                 /\ (Dependencies(p) \in SUBSET Done <=> Dependencies(p) = {})
    <2>1. \A p \in LetsOf(file) : Cardinality(Dependencies(p)) \in Nat
      BY <1>8, DependenciesAre, FS_CardinalityType
    <2>2. \A p \in LetsOf(file) : \A q \in Dependencies(p) : q \notin Done
      BY <1>8, <1>10
    <2> QED
      BY <2>1, <2>2
  <1>12. Released'
    <2>1. degree' \in [LetsOf(file) -> Nat]
      BY <1>1, <1>11
    <2>2. \A p \in LetsOf(file) : degree'[p] = Cardinality(Dependencies(p)' \ Done')
      BY <1>1, <1>2, <1>6, <1>11
    <2>3. \A i \in 1 .. Len(queue') : queue'[i] \in LetsOf(file) /\ queue'[i] \notin Done'
      BY <1>3, <1>4, <1>6, <1>8
    <2>4. \A p \in LetsOf(file) : p \in Done' \/ Waits(p)' <=> Dependencies(p)' \in SUBSET Done'
      <3>1. \A p : Waits(p)' <=> p \in Free
        BY <1>4 DEF Waits
      <3> QED
        BY <1>2, <1>6, <1>8, <1>11, <3>1 DEF Free
    <2>5. \A p \in LetsOf(file) : \A q \in Dependencies(p)' : Before(q, p)
      BY <1>2, <1>10
    <2> QED
      BY <1>2, <1>4, <2>1, <2>2, <2>3, <2>4, <2>5 DEF Released
  <1>13. FreeFirst'
    <2>1. Free' = Free
      BY <1>2 DEF Free
    <2>2. \A q \in Done' : q \notin LetsOf(file)'
      BY <1>2, <1>6, <1>8
    <2> QED
      BY <1>4, <2>1, <2>2 DEF FreeFirst
  <1>14. VarsInOrder' /\ VarsAllowed' /\ VarsPrepared' /\ NoneFailed'
    BY <1>1 DEF VarsInOrder, VarsAllowed, VarsPrepared, NoneFailed, Accepted, IInv
  <1> QED
    BY <1>6, <1>7, <1>9, <1>12, <1>13, <1>14 DEF IInv

LEMMA VarsQueued ==
    ASSUME IsStaticsProgram(program), NEW s, s = InSourceOrder(StaticVars)
    PROVE  /\ s \in Seq(StaticVars) /\ Len(s) \in Nat
           /\ \A p : p \in StaticVars <=> \E i \in 1 .. Len(s) : s[i] = p
           /\ \A i, j \in 1 .. Len(s) : i < j => Before(s[i], s[j])
  <1> DEFINE V == StaticVars
  <1>1. V \in SUBSET Places
    BY LetsAndVars
  <1>2. s = InSourceOrder(V)
    OBVIOUS
  <1> HIDE DEF V
  <1>3. V \in SUBSET (Nat \X Nat) /\ IsFiniteSet(V)
    BY <1>1, PlacesAreFinite, FS_Subset
  <1>4. /\ s \in Seq(V) /\ Len(s) \in Nat
        /\ \A p : p \in V <=> \E i \in 1 .. Len(s) : s[i] = p
        /\ \A i, j \in 1 .. Len(s) : i < j => Before(s[i], s[j])
    BY <1>2, <1>3, SourceOrder
  <1> QED
    BY <1>4 DEF V

LEMMA EndModuleKeeps ==
    ASSUME IInv, IsStaticsProgram(program), EndModule
    PROVE  IInv'
  <1>1. /\ stage = "evaluate" /\ queue = <<>>
        /\ UNCHANGED <<program, degree, constant, failed, pending, slot>>
    BY DEF EndModule
  <1>2. CASE ~(LetsOf(file) \subseteq DOMAIN constant \cup failed)
    BY <1>1, <1>2, RejectionKeeps DEF EndModule, Reject
  <1>3. CASE LetsOf(file) \in SUBSET Done
    <2>1. /\ Places' = Places /\ Lets' = Lets /\ StaticVars' = StaticVars
      BY <1>1, SameProgram
    <2>2. FromConstants' /\ LegalSoFar' /\ Done' = Done
      BY <1>1, ConstantsKept
    <2>3. file \in Nat \ {0} /\ \A p \in Lets : p[1] \in 1 .. Len(program) /\ Len(program) \in Nat
      BY LetsAndVars, Declared DEF IInv, Shape
    <2>4. \A p \in Lets : p[1] <= file => p \in Done
      BY <1>1, <1>3, <2>3 DEF IInv, Visited, LetsOf
    <2>5. \A p \in Done : p \in Lets
      BY DEF IInv, Shape, Done
    <2>6. CASE file < Len(program)
      <3>1. /\ file' = file + 1 /\ stage' = "graph" /\ queue' = queue /\ report' = report
        BY <1>3, <2>6 DEF EndModule, Done
      <3>2. Shape'
        <4>1. file' \in Nat \ {0}
          BY <2>3, <3>1
        <4> QED
          BY <1>1, <2>1, <3>1, <4>1 DEF IInv, Shape, Stages
      <3>3. Visited'
        <4>1. \A p \in Lets' : p[1] < file' => p \in Done'
          BY <2>1, <2>2, <2>3, <2>4, <3>1
        <4>2. \A p \in Done' : p[1] < file'
          BY <1>1, <2>2, <2>3, <2>5, <3>1 DEF IInv, Visited
        <4> QED
          BY <3>1, <4>1, <4>2 DEF Visited
      <3>4. Released' /\ FreeFirst'
        BY <3>1 DEF Released, FreeFirst
      <3>5. Explained'
        BY <1>1, ExplainedKept
      <3>6. VarsInOrder' /\ VarsAllowed' /\ VarsPrepared' /\ NoneFailed'
        BY <1>1, <3>1 DEF VarsInOrder, VarsAllowed, VarsPrepared, NoneFailed, Accepted, IInv
      <3> QED
        BY <2>2, <3>2, <3>3, <3>4, <3>5, <3>6 DEF IInv
    <2>7. CASE ~(file < Len(program))
      <3>1. /\ file' = file /\ stage' = "check" /\ queue' = InSourceOrder(StaticVars) /\ report' = report
        BY <1>3, <2>7 DEF EndModule, Done
      <3>2. /\ queue' \in Seq(StaticVars) /\ Len(queue') \in Nat
            /\ \A p : p \in StaticVars <=> \E i \in 1 .. Len(queue') : queue'[i] = p
            /\ \A i, j \in 1 .. Len(queue') : i < j => Before(queue'[i], queue'[j])
        BY <3>1, VarsQueued
      <3>3. Shape'
        <4>1. queue' \in Seq(Places')
          BY <2>1, <3>2, LetsAndVars
        <4> QED
          BY <1>1, <2>1, <3>1, <4>1 DEF IInv, Shape, Stages
      <3>4. Visited'
        <4>1. Lets' \in SUBSET Done'
          BY <2>1, <2>2, <2>3, <2>4, <2>7
        <4> QED
          BY <3>1, <4>1 DEF Visited
      <3>5. Released' /\ FreeFirst'
        BY <3>1 DEF Released, FreeFirst
      <3>6. Explained'
        BY <1>1, ExplainedKept
      <3>7. VarsInOrder'
        BY <2>1, <3>2 DEF VarsInOrder
      <3>8. VarsAllowed'
        <4>1. \A p \in StaticVars' : Waits(p)'
          BY <2>1, <3>2 DEF Waits
        <4> QED
          BY <3>1, <4>1 DEF VarsAllowed, Accepted
      <3>9. VarsPrepared' /\ NoneFailed'
        BY <1>1, <3>1 DEF VarsPrepared, NoneFailed, Accepted, IInv
      <3> QED
        BY <2>2, <3>3, <3>4, <3>5, <3>6, <3>7, <3>8, <3>9 DEF IInv
    <2> QED
      BY <2>6, <2>7
  <1> QED
    BY <1>2, <1>3 DEF Done

-----------------------------------------------------------------------------
(* The steps on the static vars                                            *)

LEMMA VarTaken ==
    ASSUME IInv, stage \in {"check", "prepare"}, queue # <<>>, queue' = Tail(queue), program' = program,
           IsStaticsProgram(program), NEW p, p = Head(queue)
    PROVE  /\ p \in StaticVars /\ p \in Places /\ queue' \in Seq(Places)
           /\ \A i \in 1 .. Len(queue') : queue'[i] \in StaticVars
           /\ \A i, j \in 1 .. Len(queue') : i < j => Before(queue'[i], queue'[j])
           /\ \A x : Waits(x) <=> x = p \/ Waits(x)'
           /\ \A x : Waits(x)' => Before(p, x) /\ x # p
  <1>1. /\ Len(queue) \in Nat \ {0} /\ p = queue[1] /\ queue' \in Seq(Places)
        /\ Len(queue') = Len(queue) - 1
        /\ \A i \in 1 .. Len(queue) - 1 : queue'[i] = queue[i + 1]
    BY HeadAndTail DEF IInv, Shape
  <1>2. /\ \A i \in 1 .. Len(queue) : queue[i] \in StaticVars
        /\ \A i, j \in 1 .. Len(queue) : i < j => Before(queue[i], queue[j])
    BY DEF IInv, VarsInOrder
  <1>3. 1 \in 1 .. Len(queue)
    BY <1>1
  <1>4. p \in StaticVars /\ p \in Places
    BY <1>1, <1>2, <1>3, LetsAndVars
  <1>5. \A i \in 1 .. Len(queue') :
            i + 1 \in 1 .. Len(queue) /\ 1 < i + 1 /\ queue'[i] = queue[i + 1]
    BY <1>1
  <1>6. \A i \in 1 .. Len(queue') : queue'[i] \in StaticVars /\ Before(p, queue'[i])
    BY <1>1, <1>2, <1>3, <1>5
  <1>7. \A i, j \in 1 .. Len(queue') : i < j => Before(queue'[i], queue'[j])
    <2> TAKE i, j \in 1 .. Len(queue')
    <2>1. i < j => i + 1 < j + 1
      BY <1>1
    <2> QED
      BY <1>2, <1>5, <2>1
  <1>8. \A x : Waits(x)' <=> \E i \in 1 .. Len(queue') : queue'[i] = x
    BY DEF Waits
  <1>9. \A x : Waits(x)' => Before(p, x) /\ x # p /\ Waits(x)
    <2> TAKE x
    <2> HAVE Waits(x)'
    <2>1. PICK i \in 1 .. Len(queue') : queue'[i] = x
      BY <1>8
    <2>2. Before(p, x) /\ x \in StaticVars
      BY <1>6, <2>1
    <2> QED
      BY <1>4, <1>5, <2>1, <2>2, PlacesAreFinite, BeforeIsTotal, LetsAndVars DEF Waits
  <1>10. \A x : Waits(x) => x = p \/ Waits(x)'
    <2> TAKE x
    <2> HAVE Waits(x)
    <2>1. PICK i \in 1 .. Len(queue) : queue[i] = x
      BY DEF Waits
    <2>2. CASE i = 1
      BY <1>1, <2>1, <2>2
    <2>3. CASE i # 1
      <3>1. i - 1 \in 1 .. Len(queue') /\ i - 1 \in 1 .. Len(queue) - 1 /\ (i - 1) + 1 = i
        BY <1>1, <2>3
      <3>2. queue'[i - 1] = x
        BY <1>1, <2>1, <3>1
      <3> QED
        BY <1>8, <3>1, <3>2
    <2> QED
      BY <2>2, <2>3
  <1>11. Waits(p)
    BY <1>1, <1>3 DEF Waits
  <1> QED
    BY <1>1, <1>4, <1>6, <1>7, <1>9, <1>10, <1>11

(* What is right while the static vars are treated and does not depend on  *)
(* them.                                                                   *)
LEMMA VarStepKeeps ==
    ASSUME IInv, IsStaticsProgram(program), stage \in {"check", "prepare"},
           stage' \in {"check", "prepare", "failed", "crashed", "running"},
           UNCHANGED <<program, constant, failed, pending>>
    PROVE  /\ Visited' /\ Released' /\ FreeFirst' /\ FromConstants' /\ LegalSoFar' /\ Explained'
           /\ Places' = Places /\ Lets' = Lets /\ StaticVars' = StaticVars
           /\ \A x : Operands(x)' = Operands(x) /\ Decl(x)' = Decl(x)
           /\ \A x, o : OperandAllowed(x, o)' = OperandAllowed(x, o)
  <1>1. /\ Places' = Places /\ Lets' = Lets /\ StaticVars' = StaticVars
        /\ \A x : Operands(x)' = Operands(x) /\ Decl(x)' = Decl(x)
    BY SameProgram
  <1>2. FromConstants' /\ LegalSoFar' /\ Done' = Done /\ Explained'
    BY ConstantsKept, ExplainedKept
  <1>3. Visited'
    BY <1>1, <1>2 DEF IInv, Visited
  <1>4. Released' /\ FreeFirst'
    BY DEF Released, FreeFirst
  <1>5. \A x, o : OperandAllowed(x, o)' = OperandAllowed(x, o)
    BY DEF OperandAllowed
  <1> QED
    BY <1>1, <1>2, <1>3, <1>4, <1>5

LEMMA CheckVarKeeps ==
    ASSUME IInv, IsStaticsProgram(program), CheckVar
    PROVE  IInv'
  <1> DEFINE p == Head(queue)
  <1>1. /\ stage = "check" /\ stage' = "check" /\ queue # <<>> /\ queue' = Tail(queue)
        /\ \A o \in Operands(p) : OperandAllowed(p, o)
        /\ UNCHANGED <<program, file, degree, constant, failed, pending, report, slot>>
    BY DEF CheckVar
  <1>2. /\ Visited' /\ Released' /\ FreeFirst' /\ FromConstants' /\ LegalSoFar' /\ Explained'
        /\ Places' = Places /\ Lets' = Lets /\ StaticVars' = StaticVars
        /\ \A x : Operands(x)' = Operands(x)
        /\ \A x, o : OperandAllowed(x, o)' = OperandAllowed(x, o)
    BY <1>1, VarStepKeeps
  <1>3. /\ queue' \in Seq(Places)
        /\ \A i \in 1 .. Len(queue') : queue'[i] \in StaticVars
        /\ \A i, j \in 1 .. Len(queue') : i < j => Before(queue'[i], queue'[j])
        /\ \A x : Waits(x) <=> x = p \/ Waits(x)'
    BY <1>1, VarTaken
  <1> HIDE DEF p
  <1>4. Shape'
    BY <1>1, <1>2, <1>3 DEF IInv, Shape
  <1>5. VarsInOrder'
    BY <1>2, <1>3 DEF VarsInOrder
  <1>6. VarsAllowed'
    <2>1. \A x \in StaticVars : Waits(x)' \/ \A o \in Operands(x) : OperandAllowed(x, o)
      BY <1>1, <1>3 DEF IInv, VarsAllowed
    <2> QED
      BY <1>1, <1>2, <2>1 DEF VarsAllowed, Accepted
  <1>7. VarsPrepared' /\ NoneFailed'
    BY <1>1 DEF VarsPrepared, NoneFailed, Accepted, IInv
  <1> QED
    BY <1>2, <1>4, <1>5, <1>6, <1>7 DEF IInv

LEMMA AcceptKeeps ==
    ASSUME IInv, IsStaticsProgram(program), Accept
    PROVE  IInv'
  <1>1. /\ stage = "check" /\ stage' = "prepare" /\ queue = <<>> /\ pending = {}
        /\ queue' = InSourceOrder(StaticVars)
        /\ UNCHANGED <<program, file, degree, constant, failed, pending, report, slot>>
    BY DEF Accept
  <1>2. /\ Visited' /\ Released' /\ FreeFirst' /\ FromConstants' /\ LegalSoFar' /\ Explained'
        /\ Places' = Places /\ Lets' = Lets /\ StaticVars' = StaticVars
        /\ \A x : Operands(x)' = Operands(x)
        /\ \A x, o : OperandAllowed(x, o)' = OperandAllowed(x, o)
    BY <1>1, VarStepKeeps
  <1>3. /\ queue' \in Seq(StaticVars) /\ Len(queue') \in Nat
        /\ \A p : p \in StaticVars <=> \E i \in 1 .. Len(queue') : queue'[i] = p
        /\ \A i, j \in 1 .. Len(queue') : i < j => Before(queue'[i], queue'[j])
    BY <1>1, VarsQueued
  <1>4. Shape'
    <2>1. queue' \in Seq(Places)
      BY <1>3, LetsAndVars
    <2> QED
      BY <1>1, <1>2, <2>1 DEF IInv, Shape, Stages
  <1>5. VarsInOrder'
    BY <1>2, <1>3 DEF VarsInOrder
  <1>6. VarsAllowed'
    <2>1. \A x : ~Waits(x)
      BY <1>1 DEF Waits
    <2> QED
      BY <1>1, <1>2, <2>1 DEF IInv, VarsAllowed
  <1>7. VarsPrepared'
    <2>1. slot' = <<>> /\ DOMAIN slot' = {}
      BY <1>1 DEF IInv, VarsPrepared
    <2>2. \A x \in StaticVars : Waits(x)'
      BY <1>3 DEF Waits
    <2> QED
      BY <1>1, <1>2, <2>1, <2>2 DEF VarsPrepared
  <1>8. NoneFailed'
    BY <1>1 DEF NoneFailed, IInv, Shape
  <1> QED
    BY <1>2, <1>4, <1>5, <1>6, <1>7, <1>8 DEF IInv

(* Adding a slot leaves what the others mean.                              *)
LEMMA MeaningKept ==
    ASSUME IInv, IsStaticsProgram(program), program' = program, constant' = constant,
           DOMAIN slot \in SUBSET DOMAIN slot', \A x \in DOMAIN slot : slot'[x] = slot[x],
           NEW p, NEW v, Means(p, v)
    PROVE  Means(p, v)'
  <1>1. Decl(p)' = Decl(p)
    BY SameProgram
  <1>2. ASSUME NEW o, Holds(o)
        PROVE  Holds(o)' /\ Meaning(o)' = Meaning(o)
    BY <1>2 DEF Holds, Meaning
  <1> QED
    BY <1>1, <1>2 DEF Means

LEMMA InitStaticVarKeeps ==
    ASSUME IInv, IsStaticsProgram(program), InitStaticVar
    PROVE  IInv'
  <1> DEFINE p == Head(queue)
             v == InitialValue(p)
  <1>1. /\ stage = "prepare" /\ stage' = "prepare" /\ queue # <<>> /\ queue' = Tail(queue)
        /\ slot' = Put(slot, p, v)
        /\ UNCHANGED <<program, file, degree, constant, failed, pending, report>>
    BY DEF InitStaticVar
  <1>2. /\ Visited' /\ Released' /\ FreeFirst' /\ FromConstants' /\ LegalSoFar' /\ Explained'
        /\ Places' = Places /\ Lets' = Lets /\ StaticVars' = StaticVars
        /\ \A x : Operands(x)' = Operands(x)
        /\ \A x, o : OperandAllowed(x, o)' = OperandAllowed(x, o)
    BY <1>1, VarStepKeeps
  <1>3. /\ p \in StaticVars /\ p \in Places /\ queue' \in Seq(Places)
        /\ \A i \in 1 .. Len(queue') : queue'[i] \in StaticVars
        /\ \A i, j \in 1 .. Len(queue') : i < j => Before(queue'[i], queue'[j])
        /\ \A x : Waits(x) <=> x = p \/ Waits(x)'
        /\ \A x : Waits(x)' => Before(p, x) /\ x # p
    BY <1>1, VarTaken
  <1>4. Lets \in SUBSET DOMAIN constant
    BY <1>1 DEF IInv, Visited, NoneFailed, Done, Accepted
  <1>5. ASSUME NEW o \in Operands(p)
        PROVE  Holds(o) /\ Loaded(o) = Meaning(o) /\ Loaded(o) \in Nat
    <2>1. OperandAllowed(p, o)
      BY <1>1, <1>3 DEF IInv, VarsAllowed, Accepted
    <2>2. CASE o.source = "literal"
      BY <1>3, <2>2, Operand DEF Holds, Loaded, Meaning
    <2>3. CASE o.source # "literal"
      <3>1. o.source \in {"member", "field"} /\ o.of[2] < p[2]
        BY <2>1, <2>3 DEF OperandAllowed
      <3>2. o.of \in Places /\ o.of[1] = p[1]
        BY <1>3, <2>3, <3>1, Operand
      <3>3. Before(o.of, p)
        BY <3>1, <3>2 DEF Before
      <3>4. ~Waits(o.of)
        BY <1>3, <3>2, <3>3, PlacesAreFinite, BeforeIsTotal
      <3>5. o.of \in DOMAIN constant \cup DOMAIN slot
        BY <1>1, <1>4, <3>2, <3>4, LetsAndVars DEF IInv, VarsPrepared
      <3>6. CASE o.of \in DOMAIN constant
        <4>1. constant[o.of] \in Nat /\ o.of \notin DOMAIN slot
          BY <3>6, LetsAndVars DEF IInv, Shape
        <4>2. Loaded(o) = constant[o.of] /\ Meaning(o) = constant[o.of]
          BY <2>3, <3>6, <4>1 DEF Loaded, Meaning, HasValue
        <4> QED
          BY <3>5, <4>1, <4>2 DEF Holds
      <3>7. CASE o.of \notin DOMAIN constant /\ o.of \in DOMAIN slot
        <4>1. slot[o.of] \in Nat
          BY <3>7 DEF IInv, Shape
        <4>2. Loaded(o) = slot[o.of] /\ Meaning(o) = slot[o.of]
          BY <2>3, <3>7 DEF Loaded, Meaning, HasValue
        <4> QED
          BY <3>5, <4>1, <4>2 DEF Holds
      <3> QED
        BY <3>5, <3>6, <3>7
    <2> QED
      BY <2>2, <2>3
  <1>6. /\ Holds(Decl(p).lhs) /\ Loaded(Decl(p).lhs) = Meaning(Decl(p).lhs) /\ Loaded(Decl(p).lhs) \in Nat
        /\ Holds(Decl(p).rhs) /\ Loaded(Decl(p).rhs) = Meaning(Decl(p).rhs) /\ Loaded(Decl(p).rhs) \in Nat
    BY <1>5 DEF Operands
  <1>7. Means(p, v) /\ v \in Nat
    BY <1>6 DEF Means, InitialValue
  <1>8. p \notin DOMAIN slot
    <2>1. Waits(p)
      BY <1>3
    <2> QED
      BY <1>1, <1>3, <2>1 DEF IInv, VarsPrepared
  <1> HIDE DEF p, v
  <1>9. /\ DOMAIN slot' = DOMAIN slot \cup {p} /\ slot'[p] = v
        /\ \A x \in DOMAIN slot : slot'[x] = slot[x]
    BY <1>1, <1>8 DEF Put
  <1>10. Shape'
    <2>1. DOMAIN slot' \in SUBSET StaticVars /\ \A x \in DOMAIN slot' : slot'[x] \in Nat
      BY <1>3, <1>7, <1>9 DEF IInv, Shape
    <2> QED
      BY <1>1, <1>2, <1>3, <2>1 DEF IInv, Shape
  <1>11. VarsInOrder'
    BY <1>2, <1>3 DEF VarsInOrder
  <1>12. VarsAllowed' /\ NoneFailed'
    BY <1>1, <1>2 DEF IInv, VarsAllowed, NoneFailed, Accepted
  <1>13. VarsPrepared'
    <2>1. \A x \in StaticVars : x \in DOMAIN slot' <=> ~Waits(x)'
      BY <1>1, <1>3, <1>9 DEF IInv, VarsPrepared
    <2>2. ASSUME NEW x \in DOMAIN slot', NEW w, w = slot'[x]
          PROVE  Means(x, w)'
      <3>1. Means(x, w)
        BY <1>1, <1>7, <1>9, <2>2 DEF IInv, VarsPrepared, Accepted
      <3>2. DOMAIN slot \in SUBSET DOMAIN slot'
        BY <1>9
      <3> QED
        BY <1>1, <1>9, <3>1, <3>2, MeaningKept
    <2>3. \A x \in DOMAIN slot' : Means(x, slot[x])'
      BY <2>2 DEF Means
    <2> QED
      BY <1>1, <1>2, <2>1, <2>3 DEF VarsPrepared
  <1> QED
    BY <1>2, <1>10, <1>11, <1>12, <1>13 DEF IInv

(* The program fails, crashes or starts.                                   *)
LEMMA EndKeeps ==
    ASSUME IInv, IsStaticsProgram(program), FailStaticVar \/ CrashStaticVar \/ Start
    PROVE  IInv'
  <1>1. /\ stage = "prepare" /\ stage' \in {"failed", "crashed", "running"}
        /\ stage' # "failed" => report' = report
        /\ UNCHANGED <<program, file, degree, queue, constant, failed, pending, slot>>
    BY DEF FailStaticVar, CrashStaticVar, Start
  <1>2. /\ Visited' /\ Released' /\ FreeFirst' /\ FromConstants' /\ LegalSoFar' /\ Explained'
        /\ Places' = Places /\ Lets' = Lets /\ StaticVars' = StaticVars
        /\ \A x : Operands(x)' = Operands(x)
        /\ \A x, o : OperandAllowed(x, o)' = OperandAllowed(x, o)
    BY <1>1, VarStepKeeps
  <1>3. Shape'
    BY <1>1, <1>2 DEF IInv, Shape, Stages
  <1>4. VarsInOrder'
    BY <1>1 DEF VarsInOrder
  <1>5. VarsAllowed' /\ NoneFailed'
    BY <1>1, <1>2 DEF IInv, VarsAllowed, NoneFailed, Accepted
  <1>6. VarsPrepared'
    <2>1. ASSUME NEW x \in DOMAIN slot', NEW w, w = slot'[x]
          PROVE  Means(x, w)'
      <3>1. Means(x, w)
        BY <1>1, <2>1 DEF IInv, VarsPrepared, Accepted
      <3> QED
        BY <1>1, <3>1, MeaningKept
    <2>2. \A x \in DOMAIN slot' : Means(x, slot[x])'
      BY <2>1 DEF Means
    <2> QED
      BY <1>1, <2>2 DEF VarsPrepared
  <1> QED
    BY <1>2, <1>3, <1>4, <1>5, <1>6 DEF IInv

-----------------------------------------------------------------------------
(* The invariant is inductive                                              *)

LEMMA ProgramIsOne ==
    ASSUME IInv
    PROVE  IsStaticsProgram(program)
  BY ProgramsAssumption DEF IInv, Shape

LEMMA InitiallyIInv ==
    ASSUME Init
    PROVE  IInv
  <1> USE DEF Init
  <1>1. DOMAIN constant = {} /\ DOMAIN slot = {} /\ Done = {}
    BY DEF Done
  <1>2. IsStaticsProgram(program)
    BY ProgramsAssumption
  <1>3. Visited
    <2>1. \A p \in Lets : ~(p[1] < file)
      BY <1>2, Declared, LetsAndVars
    <2> QED
      BY <1>1, <2>1 DEF Visited
  <1>4. Shape
    BY <1>1 DEF Shape, Stages, None
  <1>5. Released /\ FreeFirst /\ FromConstants /\ LegalSoFar /\ Explained
    BY <1>1 DEF Released, FreeFirst, FromConstants, LegalSoFar, Explained
  <1>6. VarsInOrder /\ VarsAllowed /\ VarsPrepared /\ NoneFailed
    BY <1>1 DEF VarsInOrder, VarsAllowed, VarsPrepared, NoneFailed, Accepted
  <1> QED
    BY <1>3, <1>4, <1>5, <1>6 DEF IInv

LEMMA StutterKeeps ==
    ASSUME IInv, UNCHANGED vars
    PROVE  IInv'
  <1>1. UNCHANGED <<program, stage, file, degree, queue, constant, failed, pending, report, slot>>
    BY DEF vars
  <1>2. /\ Places' = Places /\ Lets' = Lets /\ StaticVars' = StaticVars
        /\ LetsOf(file)' = LetsOf(file)
        /\ \A x : Operands(x)' = Operands(x) /\ Dependencies(x)' = Dependencies(x)
    BY <1>1, SameProgram
  <1>3. FromConstants' /\ LegalSoFar' /\ Done' = Done
    BY <1>1, ConstantsKept
  <1>4. Explained'
    <2>1. CASE stage = "rejected"
      BY <1>1, <2>1 DEF Explained
    <2> QED
      BY <1>1, <2>1, ExplainedKept
  <1>5. Shape' /\ Visited'
    BY <1>1, <1>2, <1>3 DEF IInv, Shape, Visited
  <1>6. /\ \A x : Waits(x)' <=> Waits(x)
        /\ Free' = Free
        /\ \A x, o : OperandAllowed(x, o)' = OperandAllowed(x, o)
    BY <1>1, <1>2 DEF Waits, Free, OperandAllowed
  <1>7. FreeFirst'
    BY <1>1, <1>2, <1>3, <1>6 DEF IInv, FreeFirst
  <1>8. Released'
    <2> SUFFICES ASSUME stage = "evaluate"
                 PROVE  Released'
      BY <1>1 DEF Released
    <2>1. \A x \in LetsOf(file) :
             /\ \A y \in Dependencies(x)' : Before(y, x)
             /\ degree'[x] = Cardinality(Dependencies(x)' \ Done')
             /\ x \in Done' \/ Waits(x)' <=> Dependencies(x)' \in SUBSET Done'
      <3>1. \A x \in LetsOf(file) :
             /\ \A y \in Dependencies(x) : Before(y, x)
             /\ degree[x] = Cardinality(Dependencies(x) \ Done)
             /\ x \in Done \/ Waits(x) <=> Dependencies(x) \in SUBSET Done
        BY DEF IInv, Released
      <3>2. \A x : Dependencies(x)' = Dependencies(x)
        BY <1>2
      <3> QED
        BY <1>1, <1>3, <1>6, <3>1, <3>2
    <2>2. /\ degree' \in [LetsOf(file) -> Nat]
          /\ \A i \in 1 .. Len(queue') : queue'[i] \in LetsOf(file) /\ queue'[i] \notin Done'
          /\ \A i, j \in 1 .. Len(queue') : i < j => queue'[i] # queue'[j]
      BY <1>1, <1>3 DEF IInv, Released
    <2>3. LetsOf(file)' = LetsOf(file)
      BY <1>2
    <2> QED
      BY <2>1, <2>2, <2>3 DEF Released
  <1>9. VarsInOrder' /\ VarsAllowed' /\ NoneFailed'
    BY <1>1, <1>2, <1>6 DEF IInv, VarsInOrder, VarsAllowed, NoneFailed, Accepted
  <1>10. VarsPrepared'
    <2>1. ASSUME NEW x, NEW w, Means(x, w)
          PROVE  Means(x, w)'
      BY <1>1, <2>1, SameProgram DEF Means, Holds, Meaning
    <2>2. ASSUME Accepted, NEW x \in DOMAIN slot', NEW w, w = slot'[x]
          PROVE  Means(x, w)'
      BY <1>1, <2>1, <2>2 DEF IInv, VarsPrepared
    <2>3. Accepted => \A x \in DOMAIN slot' : Means(x, slot[x])'
      BY <2>2 DEF Means
    <2> QED
      BY <1>1, <1>2, <1>6, <2>3 DEF IInv, VarsPrepared, Accepted
  <1> QED
    BY <1>3, <1>4, <1>5, <1>7, <1>8, <1>9, <1>10 DEF IInv

LEMMA StepKeeps ==
    ASSUME IInv, [Next]_vars
    PROVE  IInv'
  <1>1. IsStaticsProgram(program)
    BY ProgramIsOne
  <1>2. CASE BuildGraph
    BY <1>1, <1>2, BuildGraphKeeps
  <1>3. CASE RejectLookAhead
    BY <1>3, RejectionKeeps DEF RejectLookAhead, Reject
  <1>4. CASE EvaluateLet
    BY <1>1, <1>4, EvaluateLetKeeps
  <1>5. CASE DeferLet
    BY <1>1, <1>5, DeferLetKeeps
  <1>6. CASE WithholdLet
    BY <1>1, <1>6, WithholdLetKeeps
  <1>7. CASE RejectLet
    BY <1>7, RejectionKeeps DEF RejectLet, Reject
  <1>8. CASE EndModule
    BY <1>1, <1>8, EndModuleKeeps
  <1>9. CASE CheckVar
    BY <1>1, <1>9, CheckVarKeeps
  <1>10. CASE RejectVar
    BY <1>10, RejectionKeeps DEF RejectVar, Reject
  <1>11. CASE Flush
    BY <1>11, RejectionKeeps DEF Flush
  <1>12. CASE Accept
    BY <1>1, <1>12, AcceptKeeps
  <1>13. CASE InitStaticVar
    BY <1>1, <1>13, InitStaticVarKeeps
  <1>14. CASE FailStaticVar \/ CrashStaticVar \/ Start
    BY <1>1, <1>14, EndKeeps
  <1>15. CASE UNCHANGED vars
    BY <1>15, StutterKeeps
  <1> QED
    BY <1>2, <1>3, <1>4, <1>5, <1>6, <1>7, <1>8, <1>9, <1>10, <1>11, <1>12, <1>13, <1>14, <1>15 DEF Next

-----------------------------------------------------------------------------
(* What is reported                                                        *)

JustRejected ==
    report # None /\ report.phase = "SEM" =>
        \A x : x = report.place => ~Legal(x) \/ Overtakes(x)
FirstFailure ==
    report # None /\ report.phase = "CT" =>
        \A x : x = report.place =>
            /\ FailsAlone(x)
            /\ \A p \in Lets : FailsAlone(p) /\ Legal(p) /\ ~Overtakes(p) => x[2] <= p[2]

(* When the queue is empty nothing is left: "circular static let           *)
(* dependency" is never reported.                                          *)
LEMMA NothingIsLeft ==
    ASSUME IInv, IsStaticsProgram(program), stage = "evaluate", queue = <<>>
    PROVE  LetsOf(file) \in SUBSET Done
  <1> DEFINE U == LetsOf(file) \ Done
             s == InSourceOrder(U)
  <1>1. U \in SUBSET Places /\ U \in SUBSET LetsOf(file)
    BY LetsAndVars
  <1>2. \A x \in LetsOf(file) : x \in U \/ x \in Done
    OBVIOUS
  <1>3. \A x \in U : x \notin Done
    OBVIOUS
  <1> HIDE DEF U
  <1>4. U \in SUBSET (Nat \X Nat) /\ IsFiniteSet(U)
    BY <1>1, PlacesAreFinite, FS_Subset
  <1>5. /\ s \in Seq(U) /\ Len(s) \in Nat
        /\ \A p : p \in U <=> \E i \in 1 .. Len(s) : s[i] = p
        /\ \A i, j \in 1 .. Len(s) : i < j => Before(s[i], s[j])
    BY <1>4, SourceOrder
  <1> HIDE DEF s
  <1>6. SUFFICES ASSUME U # {}
                 PROVE  FALSE
    BY <1>2
  <1>7. 1 \in 1 .. Len(s)
    BY <1>5, <1>6
  <1>8. s[1] \in U
    BY <1>5, <1>7
  <1>9. ASSUME NEW q \in Dependencies(s[1])
        PROVE  q \in Done
    <2>1. s[1] \in LetsOf(file) /\ s[1] \in Places
      BY <1>1, <1>8
    <2>2. q \in LetsOf(file) /\ Before(q, s[1])
      BY <2>1, DependenciesAre DEF IInv, Released, LetsOf
    <2>3. ASSUME q \in U
          PROVE  FALSE
      <3>1. PICK i \in 1 .. Len(s) : s[i] = q
        BY <1>5, <2>3
      <3>2. i = 1 \/ Before(s[1], q)
        BY <1>5, <1>7, <3>1
      <3> QED
        BY <1>4, <1>8, <2>2, <2>3, <3>1, <3>2, BeforeIsTotal
    <2> QED
      BY <1>2, <2>2, <2>3
  <1>10. s[1] \in Done \/ Waits(s[1])
    BY <1>1, <1>8, <1>9 DEF IInv, Released
  <1> QED
    BY <1>3, <1>8, <1>10 DEF Waits

LEMMA RejectionsAreJust ==
    ASSUME IInv, JustRejected, [Next]_vars
    PROVE  JustRejected'
  <1>1. IsStaticsProgram(program)
    BY ProgramIsOne
  <1>2. program' = program
    BY DEF Next, vars, BuildGraph, RejectLookAhead, EvaluateLet, DeferLet, WithholdLet, RejectLet, EndModule,
           CheckVar, RejectVar, Flush, Accept, InitStaticVar, FailStaticVar, CrashStaticVar, Start
  <1>3. ASSUME NEW p, Reject(p), ~Legal(p) \/ Overtakes(p)
        PROVE  JustRejected'
    BY <1>2, <1>3, SameProgram DEF JustRejected, Reject, Diagnostic
  <1>4. ASSUME report' = report
        PROVE  JustRejected'
    BY <1>2, <1>4, SameProgram DEF JustRejected
  <1>5. ASSUME NEW p \in Places, NEW o \in Operands(p), o.source \in {"member", "field"}, ~(o.of[2] < p[2])
        PROVE  ~Legal(p)
    <2>1. o.of \in Places /\ o.of[1] = p[1] /\ p \in Nat \X Nat /\ o.of \in Nat \X Nat
      BY <1>1, <1>5, Operand, PlacesAreFinite
    <2>2. ~Before(o.of, p)
      BY <1>5, <2>1 DEF Before
    <2> QED
      BY <1>5, <2>2 DEF Legal, LegalOperand
  <1>6. CASE RejectLookAhead
    <2>1. PICK p \in LetsOf(file) : LooksAhead(p) /\ Reject(p)
      BY <1>6 DEF RejectLookAhead
    <2>2. PICK q \in Dependencies(p) : q[2] >= p[2]
      BY <2>1 DEF LooksAhead
    <2>3. p \in Places /\ q \in Places
      BY <1>1, <2>1, LetsAndVars, DependenciesAre
    <2>4. PICK o \in Operands(p) : o.of = q /\ o.source \in {"member", "field"}
      BY <1>1, <2>3, DependenciesAre
    <2>5. q[2] \in Nat /\ p[2] \in Nat
      BY <1>1, <2>3, PlacesAreFinite
    <2> QED
      BY <1>3, <1>5, <2>1, <2>2, <2>3, <2>4, <2>5
  <1>7. CASE RejectLet
    <2> DEFINE p == Head(queue)
    <2>1. /\ stage = "evaluate" /\ queue # <<>> /\ ~Ready(p) /\ ~Withheld(StopsAt(p))
          /\ Reject(p)
      BY <1>7 DEF RejectLet
    <2>2. Legal(p) /\ ~Overtakes(p) => StopsAt(p).of \in failed
      BY <1>1, <2>1, Stops
    <2>3. failed # {} => pending # {}
      BY <2>1 DEF IInv, Shape
    <2>4. ~Legal(p) \/ Overtakes(p)
      BY <2>1, <2>2, <2>3 DEF Withheld
    <2> QED
      BY <1>3, <2>1, <2>4
  <1>8. CASE EndModule
    <2>1. LetsOf(file) \in SUBSET Done
      BY <1>1, <1>8, NothingIsLeft DEF EndModule
    <2>2. report' = report
      BY <1>8, <2>1 DEF EndModule, Done
    <2> QED
      BY <1>4, <2>2
  <1>9. CASE RejectVar
    <2> DEFINE p == Head(queue)
    <2>1. /\ stage = "check" /\ queue # <<>> /\ Reject(p)
      BY <1>9 DEF RejectVar
    <2>2. PICK o \in Operands(p) : ~OperandAllowed(p, o)
      BY <1>9 DEF RejectVar
    <2>3. p \in StaticVars /\ p \in Places /\ Decl(p).kind = "var"
      <3>1. Len(queue) \in Nat \ {0} /\ p = queue[1]
        BY <2>1, HeadAndTail DEF IInv, Shape
      <3>2. p \in StaticVars
        BY <2>1, <3>1 DEF IInv, VarsInOrder
      <3> QED
        BY <1>1, <3>2, LetsAndVars
    <2>4. o.source \in Sources
      BY <1>1, <2>2, <2>3, Operand
    <2>5. CASE o.source \in {"member", "field"}
      BY <1>3, <1>5, <2>1, <2>2, <2>3, <2>5 DEF OperandAllowed
    <2>6. CASE o.source \in {"import", "import_field"}
      <3>1. Overtakes(p)
        BY <2>2, <2>3, <2>6 DEF Overtakes
      <3> QED
        BY <1>3, <2>1, <3>1
    <2>7. o.source # "literal"
      BY <2>2 DEF OperandAllowed
    <2> QED
      BY <2>4, <2>5, <2>6, <2>7 DEF Sources
  <1>10. CASE Flush \/ FailStaticVar
    <2>1. report'.phase \in {"CT", "RT"}
      BY <1>10 DEF Flush, FailStaticVar, Diagnostic
    <2> QED
      BY <2>1 DEF JustRejected
  <1>11. CASE \/ BuildGraph \/ EvaluateLet \/ DeferLet \/ WithholdLet \/ CheckVar \/ Accept
              \/ InitStaticVar \/ CrashStaticVar \/ Start \/ UNCHANGED vars
    BY <1>4, <1>11 DEF vars, BuildGraph, EvaluateLet, DeferLet, WithholdLet, CheckVar, Accept,
                       InitStaticVar, CrashStaticVar, Start
  <1> QED
    BY <1>6, <1>7, <1>8, <1>9, <1>10, <1>11 DEF Next

LEMMA FailureIsFirst ==
    ASSUME IInv, FirstFailure, [Next]_vars
    PROVE  FirstFailure'
  <1>1. IsStaticsProgram(program)
    BY ProgramIsOne
  <1>2. CASE Flush
    <2>1. /\ stage = "check" /\ UNCHANGED <<program, constant, failed>>
      BY <1>2 DEF Flush
    <2>2. PICK x \in pending : report' = Diagnostic("CT", x)
      BY <1>2 DEF Flush
    <2>3. /\ Lets' = Lets /\ \A p : Operands(p)' = Operands(p) /\ Legal(p)' = Legal(p) /\ Overtakes(p)' = Overtakes(p)
      BY <2>1, SameProgram
    <2>4. \A o : Available(o)' <=> Available(o)
      BY <2>1, <2>3 DEF Available, HasValue
    <2>5. \A p : FailsAlone(p)' <=> FailsAlone(p)
      BY <2>1, <2>3, <2>4 DEF FailsAlone, Ready
    <2>6. FailsAlone(x)
      BY <2>1 DEF FailsAlone, IInv, Shape, Explained
    <2>7. ASSUME NEW p \in Lets, FailsAlone(p), Legal(p), ~Overtakes(p)
          PROVE  x[2] <= p[2]
      <3>1. ~Derived(p)
        BY <2>7 DEF Derived, FailsAlone, Ready, Available, HasValue, IInv, Shape
      <3> QED
        BY <2>1, <2>7, <3>1 DEF IInv, Explained, FailsAlone
    <2>8. report'.place = x
      BY <2>2 DEF Diagnostic
    <2> QED
      BY <2>3, <2>5, <2>6, <2>7, <2>8 DEF FirstFailure
  <1>3. CASE report' # report /\ ~Flush
    <2>1. report'.phase \in {"SEM", "RT"}
      BY <1>3 DEF Next, vars, BuildGraph, RejectLookAhead, EvaluateLet, DeferLet, WithholdLet, RejectLet,
                  EndModule, CheckVar, RejectVar, Accept, InitStaticVar, FailStaticVar, CrashStaticVar,
                  Start, Reject, Diagnostic
    <2> QED
      BY <2>1 DEF FirstFailure
  <1>4. CASE report' = report /\ report # None
    <2>1. UNCHANGED vars
      <3>1. stage \in {"rejected", "failed"}
        BY <1>4 DEF IInv, Shape
      <3> QED
        BY <3>1 DEF Next, BuildGraph, RejectLookAhead, EvaluateLet, DeferLet, WithholdLet, RejectLet,
                    EndModule, CheckVar, RejectVar, Flush, Accept, InitStaticVar, FailStaticVar,
                    CrashStaticVar, Start
    <2>2. UNCHANGED <<program, constant, failed, report>>
      BY <2>1 DEF vars
    <2>3. /\ Lets' = Lets /\ \A p : Operands(p)' = Operands(p) /\ Legal(p)' = Legal(p) /\ Overtakes(p)' = Overtakes(p)
      BY <2>2, SameProgram
    <2>4. \A o : Available(o)' <=> Available(o)
      BY <2>2, <2>3 DEF Available, HasValue
    <2>5. \A p : FailsAlone(p)' <=> FailsAlone(p)
      BY <2>2, <2>3, <2>4 DEF FailsAlone, Ready
    <2> QED
      BY <2>2, <2>3, <2>5 DEF FirstFailure
  <1>5. CASE report' = report /\ report = None
    BY <1>5 DEF FirstFailure, None
  <1> QED
    BY <1>2, <1>3, <1>4, <1>5

-----------------------------------------------------------------------------
(* The theorems                                                            *)

(* What holds in every reachable state.                                    *)
LEMMA Invariance == Spec => [](IInv /\ JustRejected /\ FirstFailure)
  <1>1. Init => IInv /\ JustRejected /\ FirstFailure
    BY InitiallyIInv DEF Init, JustRejected, FirstFailure
  <1>2. ASSUME IInv /\ JustRejected /\ FirstFailure, [Next]_vars
        PROVE  (IInv /\ JustRejected /\ FirstFailure)'
    BY <1>2, StepKeeps, RejectionsAreJust, FailureIsFirst
  <1> QED
    BY <1>1, <1>2, PTL DEF Spec

(* In an accepted program every static let has a value, and each static    *)
(* let and each prepared static var is what its initialiser says.          *)
THEOREM StaticsHoldTheirMeaning == Spec => []StaticsAreRight
  <1>1. IInv => StaticsAreRight
    <2> SUFFICES ASSUME IInv, Accepted
                 PROVE  StaticsAreRight
      BY DEF StaticsAreRight
    <2>1. failed = {} /\ Lets = DOMAIN constant
      BY DEF IInv, NoneFailed, Visited, Accepted, Done, Shape
    <2>2. ASSUME NEW p \in Lets, ~ImportsLate(p)
          PROVE  Means(p, constant[p])
      <3>1. /\ \A o \in Operands(p) : o.source # "literal" => o.of \in DOMAIN constant
            /\ constant[p] = Result(p)
        BY <2>1, <2>2 DEF IInv, FromConstants
      <3>2. \A o \in Operands(p) : Holds(o) /\ ValueOf(o) = Meaning(o)
        BY <3>1 DEF Holds, ValueOf, HasValue, Meaning
      <3> QED
        BY <3>1, <3>2 DEF Means, Result, Operands
    <2>3. \A p \in DOMAIN slot : Means(p, slot[p])
      BY DEF IInv, VarsPrepared
    <2> QED
      BY <2>1, <2>2, <2>3 DEF StaticsAreRight
  <1> QED
    BY <1>1, Invariance, PTL

(* A program is accepted when its declarations are legal, but for the      *)
(* operands that the graph of the static lets does not see, and it is      *)
(* rejected for a declaration that is not, but for the known exceptions.   *)
THEOREM VerdictFollowsTheRule == Spec => []LegalityVerdict
  <1>1. IInv /\ JustRejected => LegalityVerdict
    <2> SUFFICES ASSUME IInv, JustRejected
                 PROVE  LegalityVerdict
      OBVIOUS
    <2>1. IsStaticsProgram(program)
      BY ProgramIsOne
    <2>2. ASSUME Accepted, NEW p \in Places, NEW o \in Operands(p)
          PROVE  LegalOperand(p, o) \/ (Unseen(p, o) /\ o.of # p)
      <3>1. CASE p \in Lets
        <4>1. p \in DOMAIN constant
          BY <2>2, <3>1 DEF IInv, NoneFailed, Visited, Accepted, Done
        <4> QED
          BY <4>1 DEF IInv, LegalSoFar
      <3>2. CASE p \in StaticVars
        <4>1. OperandAllowed(p, o)
          BY <2>2, <3>2 DEF IInv, VarsAllowed
        <4>2. CASE o.source = "literal"
          BY <4>2 DEF LegalOperand
        <4>3. CASE o.source # "literal"
          <5>1. o.source \in {"member", "field"} /\ o.of[2] < p[2] /\ o.of[1] = p[1]
            BY <2>1, <4>1, <4>3, Operand DEF OperandAllowed
          <5>2. Before(o.of, p)
            BY <5>1 DEF Before
          <5>3. Decl(p).kind = "var"
            BY <2>1, <3>2, LetsAndVars
          <5> QED
            BY <5>1, <5>2, <5>3 DEF LegalOperand
        <4> QED
          BY <4>2, <4>3
      <3> QED
        BY <2>1, <3>1, <3>2, LetsAndVars
    <2>3. report # None /\ report.phase = "SEM" => ~Legal(report.place) \/ Overtakes(report.place)
      BY DEF JustRejected
    <2> QED
      BY <2>2, <2>3 DEF LegalityVerdict
  <1> QED
    BY <1>1, Invariance, PTL

(* The failed constant that is reported is the first in source order of    *)
(* those that are legal and not derived from another.                      *)
THEOREM FirstFailureIsReported == Spec => []EarliestFailure
  <1>1. FirstFailure => EarliestFailure
    BY DEF FirstFailure, EarliestFailure
  <1> QED
    BY <1>1, Invariance, PTL
=============================================================================
