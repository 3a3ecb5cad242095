------------------------- MODULE AcceptedRun_proofs -------------------------
(***************************************************************************)
(* Theorems about the executor and what the analyzer has accepted, for     *)
(* every well-formed function body.                                        *)
(***************************************************************************)
EXTENDS AcceptedRun, FiniteSetTheorems, WellFoundedInduction, TLAPS

(* Induction as a fact about sets: a set of naturals has a least element.  *)
LEMMA LeastElement ==
    ASSUME NEW S, S \subseteq Nat, S # {}
    PROVE  \E m \in S : \A k \in S : m <= k
  <1>1. IsWellFoundedOn(OpToRel(<, Nat), Nat)
    BY NatLessThanWellFounded
  <1>2. PICK m \in S : \A y \in S : ~(<<y, m>> \in OpToRel(<, Nat))
    BY <1>1, WFMin
  <1>3. \A y \in S : ~(y < m)
    BY <1>2 DEF OpToRel
  <1>4. \A y \in S : m <= y
    BY <1>3
  <1> QED
    BY <1>4

(* And a bounded one a greatest.                                           *)
LEMMA GreatestElement ==
    ASSUME NEW S, NEW b \in Int, S \subseteq Int, S # {}, \A k \in S : k <= b
    PROVE  \E m \in S : \A k \in S : k <= m
  <1> DEFINE T == {b - k : k \in S}
  <1>0. T \subseteq Nat
    OBVIOUS
  <1>1. T \subseteq Nat /\ T # {}
    BY <1>0
  <1>2. PICK t \in T : \A u \in T : t <= u
    BY <1>1, LeastElement
  <1>3. PICK m \in S : t = b - m
    BY <1>2
  <1>4. \A k \in S : t <= b - k
    BY <1>2
  <1>5. \A k \in S : k <= m
    BY <1>3, <1>4
  <1> QED
    BY <1>3, <1>5

-----------------------------------------------------------------------------

Composite(p) == OfKind(p, {"if", "while"})

(* The blocks statement k holds.                                           *)
Arms(p, k) == {ThenBlock(p, k)} \cup (IF p.kind[k] = "if" THEN {ElseBlock(p, k)} ELSE {})

Inside(b, c) == c[1] <= b[1] /\ b[2] <= c[2]

IsInnermost(p, i) ==
    BlockOf(p, i) \in Enclosing(p, i) /\ \A c \in Enclosing(p, i) : Inside(BlockOf(p, i), c)

LEMMA Indices ==
    ASSUME NEW p, WellFormed(p), NEW i \in Stmts(p)
    PROVE  /\ p.n \in Nat /\ i \in Nat /\ 1 <= i /\ i <= p.n
           /\ p.end[i] \in Int /\ i < p.end[i]
           /\ p.mid[i] \in Int /\ i < p.mid[i] /\ p.mid[i] <= p.end[i]
           /\ p.kind[i] \in Kinds
           /\ p.kind[i] \notin {"if", "while"} => p.end[i] = i + 1
           /\ p.kind[i] # "if" => p.mid[i] = p.end[i]
  BY DEF WellFormed, Stmts

LEMMA BlocksOf ==
    ASSUME NEW p, NEW b
    PROVE  b \in Blocks(p) <=> b = BodyBlock(p) \/ \E k \in Composite(p) : b \in Arms(p, k)
  BY DEF Blocks, Composite, Arms, OfKind

LEMMA ArmBounds ==
    ASSUME NEW p, WellFormed(p), NEW k \in Composite(p), NEW b \in Arms(p, k)
    PROVE  /\ k \in Stmts(p) /\ k \in Nat
           /\ b[1] \in Int /\ b[2] \in Int /\ k < b[1] /\ b[1] <= b[2] /\ b[2] <= p.end[k]
           /\ b = <<b[1], b[2]>>
  <1>1. k \in Stmts(p)
    BY DEF Composite, OfKind
  <1> QED
    BY <1>1, Indices DEF Arms, ThenBlock, ElseBlock

LEMMA BlockBounds ==
    ASSUME NEW p, WellFormed(p), NEW b \in Blocks(p)
    PROVE  b[1] \in Int /\ b[2] \in Int /\ 1 <= b[1] /\ b[1] <= b[2] /\ b = <<b[1], b[2]>>
  <1>1. CASE b = BodyBlock(p)
    BY <1>1 DEF BodyBlock, WellFormed
  <1>2. CASE \E k \in Composite(p) : b \in Arms(p, k)
    <2>1. PICK k \in Composite(p) : b \in Arms(p, k)
      BY <1>2
    <2>2. k \in Stmts(p)
      BY DEF Composite, OfKind
    <2> QED
      BY <2>1, <2>2, ArmBounds, Indices
  <1> QED
    BY <1>1, <1>2, BlocksOf

(* Two blocks around a statement: one is inside the other, with the        *)
(* statement that holds it.                                                *)
Nested(p, i) ==
    \A k \in Composite(p) : \A c \in Arms(p, k) : \A b \in Blocks(p) :
        InBlock(i, b) /\ InBlock(i, c) /\ b # c =>
            \/ Inside(c, b) /\ b[1] <= k
            \/ b # BodyBlock(p) /\ Inside(b, c) /\ c[1] < b[1]

LEMMA InnerBounds ==
    ASSUME NEW p, WellFormed(p), NEW k \in Stmts(p), IsInnermost(p, k)
    PROVE  \A c \in Blocks(p) : InBlock(k, c) => p.end[k] <= c[2]
  <1> SUFFICES ASSUME NEW c \in Blocks(p), InBlock(k, c) PROVE p.end[k] <= c[2]
    OBVIOUS
  <1>1. c \in Enclosing(p, k) /\ BlockOf(p, k) \in Blocks(p)
    BY DEF Enclosing, IsInnermost
  <1>2. BlockOf(p, k)[2] <= c[2] /\ c[2] \in Int /\ BlockOf(p, k)[2] \in Int
    BY <1>1, BlockBounds DEF IsInnermost, Inside
  <1>3. p.end[k] <= BlockOf(p, k)[2] /\ p.end[k] \in Int
    BY <1>2 DEF WellFormed
  <1> QED
    BY <1>2, <1>3

LEMMA ArmsDisjoint ==
    ASSUME NEW p, WellFormed(p), NEW k \in Composite(p), NEW b \in Arms(p, k), NEW c \in Arms(p, k),
           NEW i \in Int, InBlock(i, b), InBlock(i, c)
    PROVE  b = c
  <1>1. k \in Stmts(p) /\ p.mid[k] \in Int
    BY Indices DEF Composite, OfKind
  <1> QED
    BY <1>1, Indices DEF Arms, ThenBlock, ElseBlock, InBlock

(* Of two composites whose arms both have i, the later one is in the arm.  *)
LEMMA OwnerInside ==
    ASSUME NEW p, WellFormed(p), NEW i \in Stmts(p), \A k \in Stmts(p) : k < i => IsInnermost(p, k),
           NEW j \in Composite(p), NEW k \in Composite(p), j < k,
           NEW b \in Arms(p, j), NEW c \in Arms(p, k), InBlock(i, b), InBlock(i, c)
    PROVE  b[1] <= k /\ Inside(c, b)
  <1>0. /\ j \in Stmts(p) /\ k \in Stmts(p) /\ i \in Int /\ j \in Int /\ k \in Int /\ 1 <= j
        /\ p.end[j] \in Int /\ p.end[k] \in Int
    BY Indices DEF Composite, OfKind
  <1>1. /\ b[1] \in Int /\ b[2] \in Int /\ j < b[1] /\ b[2] <= p.end[j]
        /\ c[1] \in Int /\ c[2] \in Int /\ k < c[1] /\ c[2] <= p.end[k]
    BY ArmBounds
  <1>2. b[1] <= i /\ i < b[2] /\ c[1] <= i /\ i < c[2]
    BY DEF InBlock
  <1>3. k < i /\ IsInnermost(p, k) /\ i < p.end[k]
    BY <1>0, <1>1, <1>2
  <1>4. b[1] <= k
    <2> SUFFICES ASSUME k < b[1] PROVE FALSE
      BY <1>0, <1>1
    <2>1. b = ElseBlock(p, j) /\ p.kind[j] = "if"
      BY <1>0, <1>1 DEF Arms, ThenBlock
    <2>2. ThenBlock(p, j) \in Blocks(p) /\ InBlock(k, ThenBlock(p, j))
      BY <2>1, <1>0, Indices, BlocksOf DEF Arms, ThenBlock, ElseBlock, InBlock
    <2>3. p.end[k] <= p.mid[j] /\ b[1] = p.mid[j] /\ p.mid[j] \in Int
      BY <1>0, <1>3, <2>1, <2>2, InnerBounds, Indices DEF ThenBlock, ElseBlock
    <2> QED
      BY <1>0, <1>1, <1>2, <1>3, <2>3
  <1>5. b \in Blocks(p) /\ InBlock(k, b)
    BY <1>0, <1>1, <1>2, <1>3, <1>4, BlocksOf DEF InBlock
  <1>6. p.end[k] <= b[2]
    BY <1>0, <1>3, <1>5, InnerBounds
  <1> QED
    BY <1>0, <1>1, <1>4, <1>6 DEF Inside

LEMMA NestedBelow ==
    ASSUME NEW p, WellFormed(p), NEW i \in Stmts(p), \A k \in Stmts(p) : k < i => IsInnermost(p, k)
    PROVE  Nested(p, i)
  <1> SUFFICES ASSUME NEW k \in Composite(p), NEW c \in Arms(p, k), NEW b \in Blocks(p),
                      InBlock(i, b), InBlock(i, c), b # c
               PROVE  \/ Inside(c, b) /\ b[1] <= k
                      \/ b # BodyBlock(p) /\ Inside(b, c) /\ c[1] < b[1]
    BY DEF Nested
  <1>0. /\ k \in Stmts(p) /\ i \in Int /\ k \in Int /\ 1 <= k /\ p.end[k] \in Int
        /\ c[1] \in Int /\ c[2] \in Int /\ k < c[1] /\ c[2] <= p.end[k] /\ c[1] <= i /\ i < c[2]
    BY Indices, ArmBounds DEF Composite, OfKind, InBlock
  <1>1. CASE b = BodyBlock(p)
    <2>1. IsInnermost(p, k) /\ InBlock(k, b)
      BY <1>0, <1>1, Indices DEF BodyBlock, InBlock
    <2>2. p.end[k] <= b[2] /\ b[1] = 1 /\ b[2] \in Int
      BY <1>0, <1>1, <2>1, InnerBounds, Indices DEF BodyBlock
    <2> QED
      BY <1>0, <2>2 DEF Inside
  <1>2. CASE \E j \in Composite(p) : b \in Arms(p, j)
    <2>1. PICK j \in Composite(p) : b \in Arms(p, j)
      BY <1>2
    <2>2. j \in Int /\ b[1] \in Int /\ j < b[1] /\ j \in Stmts(p) /\ 1 <= j
      BY <2>1, ArmBounds, Indices
    <2>3. j # k
      BY <1>0, <2>1, ArmsDisjoint
    <2>4. CASE j < k
      BY <2>1, <2>4, OwnerInside
    <2>5. CASE k < j
      <3>1. c[1] <= j /\ Inside(b, c)
        BY <2>1, <2>5, OwnerInside
      <3>2. b # BodyBlock(p)
        BY <2>2 DEF BodyBlock
      <3> QED
        BY <1>0, <2>2, <3>1, <3>2
    <2> QED
      BY <1>0, <2>2, <2>3, <2>4, <2>5
  <1> QED
    BY <1>1, <1>2, BlocksOf

LEMMA InnermostBelow ==
    ASSUME NEW p, WellFormed(p), NEW i \in Stmts(p), \A k \in Stmts(p) : k < i => IsInnermost(p, k)
    PROVE  IsInnermost(p, i)
  <1> DEFINE starts == {b[1] : b \in Enclosing(p, i)}
  <1>0. i \in Int /\ Nested(p, i)
    BY Indices, NestedBelow
  <1>1. \A b \in Enclosing(p, i) : b \in Blocks(p) /\ InBlock(i, b) /\ b[1] \in Int /\ b[1] <= i /\ Inside(b, b)
    BY BlockBounds DEF Enclosing, InBlock, Inside
  <1>2. BodyBlock(p) \in Enclosing(p, i)
    BY BlocksOf, Indices DEF Enclosing, BodyBlock, InBlock
  <1>3. starts \subseteq Int /\ \A x \in starts : x <= i
    BY <1>1
  <1>4. PICK m \in starts : \A x \in starts : x <= m
    <2>1. BodyBlock(p)[1] \in starts
      BY <1>2
    <2> QED
      BY <1>0, <1>3, <2>1, GreatestElement
  <1>5. PICK b \in Enclosing(p, i) : m = b[1]
    BY <1>4
  <1>6. ASSUME NEW c \in Enclosing(p, i)
        PROVE  c[1] <= b[1] /\ Inside(b, c)
    <2>1. c[1] <= b[1]
      BY <1>4, <1>5
    <2>2. CASE b = c
      BY <1>1, <2>2, <2>1
    <2>3. CASE b # c /\ b = BodyBlock(p)
      <3>1. PICK k \in Composite(p) : c \in Arms(p, k)
        BY <1>1, <2>3, BlocksOf
      <3>2. Inside(c, b) /\ b[1] <= k /\ k < c[1] /\ k \in Int /\ c[1] \in Int
        BY <1>0, <1>1, <2>3, <3>1, ArmBounds DEF Nested
      <3> QED
        BY <1>1, <2>1, <3>2
    <2>4. CASE b # c /\ b # BodyBlock(p)
      <3>1. PICK k \in Composite(p) : b \in Arms(p, k)
        BY <1>1, <2>4, BlocksOf
      <3>2. Inside(b, c) \/ (Inside(c, b) /\ b[1] < c[1])
        BY <1>0, <1>1, <2>4, <3>1 DEF Nested
      <3> QED
        BY <1>1, <2>1, <3>2
    <2> QED
      BY <2>2, <2>3, <2>4
  <1>7. \E x \in Enclosing(p, i) : \A c \in Enclosing(p, i) : x[1] >= c[1] /\ x[2] <= c[2]
    <2>1. \A c \in Enclosing(p, i) : b[1] >= c[1] /\ b[2] <= c[2]
      BY <1>1, <1>6 DEF Inside
    <2> QED
      BY <1>5, <2>1
  <1>8. /\ BlockOf(p, i) \in Enclosing(p, i)
        /\ \A c \in Enclosing(p, i) : BlockOf(p, i)[1] >= c[1] /\ BlockOf(p, i)[2] <= c[2]
    BY <1>7 DEF BlockOf
  <1> QED
    BY <1>1, <1>8 DEF IsInnermost, Inside

(* BlockOf is the innermost block around a statement, and the blocks       *)
(* around a statement are nested, as the parser makes them.                *)
LEMMA InnermostBlock ==
    ASSUME NEW p, WellFormed(p), NEW i \in Stmts(p)
    PROVE  IsInnermost(p, i) /\ Nested(p, i)
  <1> DEFINE bad == {k \in Stmts(p) : ~IsInnermost(p, k)}
  <1>1. bad = {}
    <2> SUFFICES ASSUME bad # {} PROVE FALSE
      OBVIOUS
    <2>1. bad \subseteq Nat
      BY DEF Stmts
    <2>2. PICK m \in bad : \A k \in bad : m <= k
      BY <2>1, LeastElement
    <2>3. m \in Stmts(p) /\ \A k \in Stmts(p) : k < m => IsInnermost(p, k)
      BY <2>1, <2>2, Indices
    <2> QED
      BY <2>2, <2>3, InnermostBelow
  <1> QED
    BY <1>1, NestedBelow

LEMMA BlockOfFacts ==
    ASSUME NEW p, WellFormed(p), NEW i \in Stmts(p)
    PROVE  /\ BlockOf(p, i) \in Blocks(p) /\ InBlock(i, BlockOf(p, i))
           /\ \A c \in Blocks(p) : InBlock(i, c) => Inside(BlockOf(p, i), c)
  BY InnermostBlock DEF IsInnermost, Enclosing

(* No statement reaches out of a block it is in.                           *)
LEMMA EndInBlock ==
    ASSUME NEW p, WellFormed(p), NEW i \in Stmts(p), NEW c \in Blocks(p), InBlock(i, c)
    PROVE  p.end[i] <= c[2]
  BY InnermostBlock, InnerBounds

LEMMA ArmInBlock ==
    ASSUME NEW p, WellFormed(p), NEW k \in Composite(p), NEW a \in Arms(p, k),
           NEW c \in Blocks(p), InBlock(k, c)
    PROVE  Inside(a, c) /\ c[1] <= k /\ k < a[1] /\ a \in Blocks(p)
  <1>1. k \in Stmts(p) /\ k \in Int /\ a[1] \in Int /\ a[2] \in Int /\ k < a[1] /\ a[2] <= p.end[k]
    BY ArmBounds
  <1>2. p.end[k] <= c[2] /\ c[1] <= k /\ c[1] \in Int /\ c[2] \in Int /\ p.end[k] \in Int
    BY <1>1, EndInBlock, BlockBounds, Indices DEF InBlock
  <1> QED
    BY <1>1, <1>2, BlocksOf DEF Inside

LEMMA BlockInBody ==
    ASSUME NEW p, WellFormed(p), NEW b \in Blocks(p)
    PROVE  Inside(b, BodyBlock(p)) /\ \A i \in Int : InBlock(i, b) => i \in Stmts(p)
  <1>1. b[1] \in Int /\ b[2] \in Int /\ 1 <= b[1] /\ p.n \in Nat
    BY BlockBounds DEF WellFormed
  <1>2. b[2] <= p.n + 1
    <2>1. CASE b = BodyBlock(p)
      BY <2>1, <1>1 DEF BodyBlock
    <2>2. CASE \E k \in Composite(p) : b \in Arms(p, k)
      <3>1. PICK k \in Composite(p) : b \in Arms(p, k)
        BY <2>2
      <3>2. k \in Stmts(p) /\ InBlock(k, BodyBlock(p)) /\ BodyBlock(p) \in Blocks(p)
        BY <1>1, <3>1, ArmBounds, Indices, BlocksOf DEF BodyBlock, InBlock
      <3>3. Inside(b, BodyBlock(p))
        BY <3>1, <3>2, ArmInBlock
      <3> QED
        BY <1>1, <3>3 DEF Inside, BodyBlock
    <2> QED
      BY <2>1, <2>2, BlocksOf
  <1> QED
    BY <1>1, <1>2 DEF Inside, BodyBlock, InBlock, Stmts

LEMMA InsideBoth ==
    ASSUME NEW p, WellFormed(p), NEW b \in Blocks(p), NEW c \in Blocks(p), Inside(b, c), Inside(c, b)
    PROVE  b = c
  BY BlockBounds DEF Inside

(* What stands in a block and in no arm of a statement of the block is in  *)
(* its list, and the other way round.                                      *)
LEMMA DirectIn ==
    ASSUME NEW p, WellFormed(p), NEW i \in Stmts(p), NEW b \in Blocks(p), InBlock(i, b),
           \A k \in Composite(p) : InBlock(k, b) => \A c \in Arms(p, k) : ~InBlock(i, c)
    PROVE  BlockOf(p, i) = b
  <1> DEFINE B == BlockOf(p, i)
  <1>0. B \in Blocks(p) /\ InBlock(i, B) /\ Inside(B, b)
    BY BlockOfFacts
  <1> SUFFICES ASSUME B # b PROVE FALSE
    OBVIOUS
  <1>1. CASE B = BodyBlock(p)
    BY <1>0, <1>1, BlockInBody, InsideBoth
  <1>2. CASE \E k \in Composite(p) : B \in Arms(p, k)
    <2>1. PICK k \in Composite(p) : B \in Arms(p, k)
      BY <1>2
    <2>2. Nested(p, i)
      BY InnermostBlock
    <2>3. Inside(b, B) \/ b[1] <= k
      BY <1>0, <2>1, <2>2 DEF Nested
    <2>4. b[1] <= k
      BY <1>0, <2>3, InsideBoth
    <2>5. k < i /\ k \in Int /\ i < b[2] /\ i \in Int /\ b[2] \in Int
      BY <1>0, <2>1, ArmBounds, Indices, BlockBounds DEF InBlock
    <2>6. InBlock(k, b)
      BY <2>4, <2>5 DEF InBlock
    <2> QED
      BY <1>0, <2>1, <2>6
  <1> QED
    BY <1>0, <1>1, <1>2, BlocksOf

LEMMA NotInArm ==
    ASSUME NEW p, WellFormed(p), NEW i \in Stmts(p), NEW k \in Composite(p), InBlock(k, BlockOf(p, i)),
           NEW c \in Arms(p, k)
    PROVE  ~InBlock(i, c)
  <1> SUFFICES ASSUME InBlock(i, c) PROVE FALSE
    OBVIOUS
  <1>1. c \in Blocks(p) /\ BlockOf(p, i) \in Blocks(p) /\ Inside(BlockOf(p, i), c)
    BY BlocksOf, BlockOfFacts
  <1>2. BlockOf(p, i)[1] <= k /\ k < c[1] /\ c[1] <= BlockOf(p, i)[1]
    BY <1>1, ArmBounds DEF Inside, InBlock
  <1> QED
    BY <1>1, <1>2, BlockBounds, ArmBounds

(* The arms of a statement are all of it but its head.                     *)
LEMMA ArmsCover ==
    ASSUME NEW p, WellFormed(p), NEW k \in Stmts(p), NEW x \in Int, k < x, x < p.end[k]
    PROVE  k \in Composite(p) /\ \E c \in Arms(p, k) : InBlock(x, c)
  <1>1. p.kind[k] \in {"if", "while"} /\ k \in Composite(p)
    BY Indices DEF Composite, OfKind
  <1>2. CASE x < p.mid[k]
    <2>1. InBlock(x, ThenBlock(p, k))
      BY <1>2, Indices DEF ThenBlock, InBlock
    <2> QED
      BY <1>1, <2>1 DEF Arms
  <1>3. CASE p.mid[k] <= x
    <2>1. p.kind[k] = "if"
      BY <1>1, <1>3, Indices
    <2>2. InBlock(x, ElseBlock(p, k))
      BY <1>3, Indices DEF ElseBlock, InBlock
    <2> QED
      BY <1>1, <2>1, <2>2 DEF Arms
  <1> QED
    BY <1>2, <1>3, Indices

LEMMA FirstOfBlock ==
    ASSUME NEW p, WellFormed(p), NEW b \in Blocks(p), b[1] < b[2]
    PROVE  b[1] \in Stmts(p) /\ BlockOf(p, b[1]) = b /\ InBlock(b[1], b)
  <1>1. b[1] \in Int /\ b[2] \in Int /\ InBlock(b[1], b)
    BY BlockBounds DEF InBlock
  <1>2. b[1] \in Stmts(p)
    BY <1>1, BlockInBody
  <1>3. ASSUME NEW k \in Composite(p), InBlock(k, b), NEW c \in Arms(p, k)
        PROVE  ~InBlock(b[1], c)
    BY <1>1, <1>3, ArmBounds DEF InBlock
  <1> QED
    BY <1>1, <1>2, <1>3, DirectIn

(* Statements of one list follow one another.                              *)
LEMMA SiblingsApart ==
    ASSUME NEW p, WellFormed(p), NEW j \in Stmts(p), NEW x \in Stmts(p),
           BlockOf(p, j) = BlockOf(p, x), j < x
    PROVE  p.end[j] <= x
  <1> SUFFICES ASSUME x < p.end[j] PROVE FALSE
    BY Indices
  <1>1. j \in Composite(p) /\ \E c \in Arms(p, j) : InBlock(x, c)
    BY ArmsCover, Indices
  <1>2. InBlock(j, BlockOf(p, x))
    BY BlockOfFacts
  <1> QED
    BY <1>1, <1>2, NotInArm

LEMMA SameEnd ==
    ASSUME NEW p, WellFormed(p), NEW j \in Stmts(p), NEW k \in Stmts(p),
           BlockOf(p, j) = BlockOf(p, k), p.end[j] = p.end[k]
    PROVE  j = k
  <1>1. ~(j < k)
    BY SiblingsApart, Indices
  <1>2. ~(k < j)
    BY SiblingsApart, Indices
  <1> QED
    BY <1>1, <1>2, Indices

LEMMA NextSibling ==
    ASSUME NEW p, WellFormed(p), NEW i \in Stmts(p), p.end[i] < BlockOf(p, i)[2]
    PROVE  p.end[i] \in Stmts(p) /\ BlockOf(p, p.end[i]) = BlockOf(p, i)
  <1> DEFINE b == BlockOf(p, i)
             x == p.end[i]
  <1>1. b \in Blocks(p) /\ InBlock(i, b) /\ x \in Int /\ i < x /\ i \in Int
    BY BlockOfFacts, Indices
  <1>2. InBlock(x, b)
    BY <1>1, BlockBounds DEF InBlock
  <1>3. x \in Stmts(p)
    BY <1>1, <1>2, BlockInBody
  <1>4. ASSUME NEW k \in Composite(p), InBlock(k, b), NEW c \in Arms(p, k), InBlock(x, c)
        PROVE  FALSE
    <2>1. /\ k \in Stmts(p) /\ k \in Int /\ c[1] \in Int /\ c[2] \in Int /\ p.end[k] \in Int
          /\ k < c[1] /\ c[2] <= p.end[k] /\ c[1] <= x /\ x < c[2]
      BY <1>4, ArmBounds, Indices DEF InBlock
    <2>2. CASE k = i
      BY <2>1, <2>2
    <2>3. CASE i < k
      <3>1. PICK a \in Arms(p, i) : InBlock(k, a)
        BY <1>1, <2>1, <2>3, ArmsCover
      <3>2. i \in Composite(p)
        BY <1>1, <2>1, <2>3, ArmsCover
      <3>3. a \in Blocks(p) /\ a[2] <= x /\ a[2] \in Int
        BY <3>1, <3>2, BlocksOf, ArmBounds
      <3>4. p.end[k] <= a[2]
        BY <2>1, <3>1, <3>3, EndInBlock
      <3> QED
        BY <1>1, <2>1, <3>3, <3>4
    <2>4. CASE k < i
      <3>1. \E a \in Arms(p, k) : InBlock(i, a)
        BY <1>1, <2>1, <2>4, ArmsCover
      <3> QED
        BY <1>4, <3>1, NotInArm
    <2> QED
      BY <1>1, <2>1, <2>2, <2>3, <2>4
  <1> QED
    BY <1>1, <1>2, <1>3, <1>4, DirectIn

(* Every place in a list but the first has a statement before it.          *)
LEMMA SiblingBefore ==
    ASSUME NEW p, WellFormed(p), NEW b \in Blocks(p), NEW x \in Int, b[1] < x, x <= b[2],
           x = b[2] \/ (x \in Stmts(p) /\ BlockOf(p, x) = b)
    PROVE  \E j \in b[1] .. x - 1 : j \in Stmts(p) /\ BlockOf(p, j) = b /\ p.end[j] = x
  <1> DEFINE before == {j \in b[1] .. x - 1 : j \in Stmts(p) /\ BlockOf(p, j) = b}
  <1>0. b[1] \in Int /\ b[2] \in Int
    BY BlockBounds
  <1>1. before \subseteq Int /\ \A j \in before : j <= x
    BY <1>0
  <1>2. b[1] \in before
    BY <1>0, FirstOfBlock
  <1>3. PICK m \in before : \A j \in before : j <= m
    BY <1>1, <1>2, GreatestElement
  <1>4. /\ m \in Stmts(p) /\ BlockOf(p, m) = b /\ m < x /\ b[1] <= m /\ p.end[m] \in Int /\ m < p.end[m]
        /\ m \in Int
    BY <1>0, <1>3, Indices
  <1>5. p.end[m] <= x
    <2>1. CASE x = b[2]
      BY <1>4, <2>1, BlockOfFacts, EndInBlock
    <2>2. CASE x \in Stmts(p) /\ BlockOf(p, x) = b
      BY <1>4, <2>2, SiblingsApart
    <2> QED
      BY <2>1, <2>2
  <1>6. ASSUME p.end[m] < x PROVE FALSE
    <2>1. p.end[m] \in Stmts(p) /\ BlockOf(p, p.end[m]) = b
      BY <1>0, <1>4, <1>6, NextSibling
    <2>2. p.end[m] \in before
      BY <1>0, <1>4, <1>6, <2>1
    <2> QED
      BY <1>3, <1>4, <2>2
  <1> QED
    BY <1>0, <1>4, <1>5, <1>6

LEMMA OneOwner ==
    ASSUME NEW p, WellFormed(p), NEW j \in Composite(p), NEW k \in Composite(p), NEW b,
           b \in Arms(p, j), b \in Arms(p, k), b[1] < b[2]
    PROVE  j = k
  <1>1. b \in Blocks(p) /\ j \in Int /\ k \in Int /\ j < b[1] /\ k < b[1] /\ b[1] \in Int
    BY BlocksOf, ArmBounds
  <1>2. b[1] \in Stmts(p) /\ InBlock(b[1], b)
    BY <1>1, FirstOfBlock
  <1>3. \A i \in Stmts(p) : IsInnermost(p, i)
    BY InnermostBlock
  <1>4. ~(j < k) /\ ~(k < j)
    BY <1>1, <1>2, <1>3, OwnerInside
  <1> QED
    BY <1>1, <1>4

-----------------------------------------------------------------------------

(* Closure is the least set with S that the edges E do not leave.          *)
Grow(N, E) == N \cup {e[2] : e \in {f \in E : f[1] \in N}}

IsLayers(r, S, E, n) == r = [k \in 0 .. n |-> IF k = 0 THEN S ELSE Grow(r[k - 1], E)]

LEMMA LayersExist ==
    ASSUME NEW S, NEW E, NEW n \in Nat
    PROVE  \E r : IsLayers(r, S, E, n)
  <1> DEFINE bad == {m \in Nat : ~ \E r : IsLayers(r, S, E, m)}
  <1> SUFFICES ASSUME bad # {} PROVE FALSE
    OBVIOUS
  <1>1. PICK m \in bad : \A k \in bad : m <= k
    <2>1. bad \subseteq Nat
      OBVIOUS
    <2> QED
      BY <2>1, LeastElement
  <1>2. m \in Nat /\ ~ \E r : IsLayers(r, S, E, m)
    OBVIOUS
  <1>3. CASE m = 0
    <2> DEFINE r == [k \in 0 .. 0 |-> S]
    <2>1. r = [k \in 0 .. 0 |-> IF k = 0 THEN S ELSE Grow(r[k - 1], E)]
      OBVIOUS
    <2>2. IsLayers(r, S, E, 0)
      BY <2>1 DEF IsLayers
    <2> QED
      BY <1>2, <1>3, <2>2
  <1>4. CASE m # 0
    <2>1. m - 1 \in Nat /\ m - 1 \notin bad
      BY <1>1, <1>2, <1>4
    <2>2. PICK r : IsLayers(r, S, E, m - 1)
      BY <2>1
    <2> DEFINE q == [k \in 0 .. m |-> IF k = m THEN Grow(r[m - 1], E) ELSE r[k]]
    <2>3. r = [k \in 0 .. m - 1 |-> IF k = 0 THEN S ELSE Grow(r[k - 1], E)]
      BY <2>2 DEF IsLayers
    <2>4. ASSUME NEW k \in 0 .. m PROVE q[k] = IF k = 0 THEN S ELSE Grow(q[k - 1], E)
      <3>1. CASE k = m
        BY <1>2, <1>4, <3>1
      <3>2. CASE k # m
        <4>1. k \in 0 .. m - 1 /\ q[k] = r[k]
          BY <1>2, <3>2
        <4>2. r[k] = IF k = 0 THEN S ELSE Grow(r[k - 1], E)
          BY <2>3, <4>1
        <4>3. k # 0 => q[k - 1] = r[k - 1]
          BY <1>2, <4>1
        <4> QED
          BY <4>1, <4>2, <4>3
      <3> QED
        BY <3>1, <3>2
    <2>5. q = [k \in 0 .. m |-> IF k = 0 THEN S ELSE Grow(q[k - 1], E)]
      BY <2>4
    <2>6. IsLayers(q, S, E, m)
      BY <2>5 DEF IsLayers
    <2> QED
      BY <1>2, <2>6
  <1> QED
    BY <1>3, <1>4

LEMMA ClosureLayers ==
    ASSUME NEW S, NEW E, NEW n \in Nat
    PROVE  \E r : /\ Closure(S, E, n) = r[n]
                  /\ r[0] = S
                  /\ \A k \in 0 .. n : k # 0 => r[k] = Grow(r[k - 1], E)
  <1> DEFINE L(q) == q = [k \in 0 .. n |-> IF k = 0 THEN S ELSE Grow(q[k - 1], E)]
             r == CHOOSE q : L(q)
  <1>1. PICK q : IsLayers(q, S, E, n)
    BY LayersExist
  <1>2. L(q)
    BY <1>1 DEF IsLayers
  <1>3. L(r)
    BY <1>2
  <1>4. r = [k \in 0 .. n |-> IF k = 0 THEN S ELSE Grow(r[k - 1], E)]
    BY <1>3
  <1>5. Closure(S, E, n) = r[n]
    BY DEF Closure, Grow
  <1> HIDE DEF r, L
  <1>6. r[0] = S
    BY <1>4
  <1>7. \A k \in 0 .. n : k # 0 => r[k] = Grow(r[k - 1], E)
    BY <1>4
  <1> QED
    BY <1>5, <1>6, <1>7

LEMMA ClosureLeast ==
    ASSUME NEW S, NEW E, NEW n \in Nat, NEW T, S \subseteq T, \A e \in E : e[1] \in T => e[2] \in T
    PROVE  S \subseteq Closure(S, E, n) /\ Closure(S, E, n) \subseteq T
  <1>1. PICK r : /\ Closure(S, E, n) = r[n]
                 /\ r[0] = S
                 /\ \A k \in 0 .. n : k # 0 => r[k] = Grow(r[k - 1], E)
    BY ClosureLayers
  <1> DEFINE bad == {k \in 0 .. n : ~(S \subseteq r[k] /\ r[k] \subseteq T)}
  <1>2. bad = {}
    <2> SUFFICES ASSUME bad # {} PROVE FALSE
      OBVIOUS
    <2>0. bad \subseteq Nat
      OBVIOUS
    <2>1. PICK m \in bad : \A k \in bad : m <= k
      BY <2>0, LeastElement
    <2>2. m \in 0 .. n /\ m # 0
      BY <1>1
    <2>3. m - 1 \in 0 .. n /\ m - 1 \notin bad
      BY <2>1, <2>2
    <2>4. S \subseteq r[m - 1] /\ r[m - 1] \subseteq T /\ r[m] = Grow(r[m - 1], E)
      BY <1>1, <2>2, <2>3
    <2> QED
      BY <2>1, <2>4 DEF Grow
  <1> QED
    BY <1>1, <1>2

(* With as many rounds as there are nodes it has no edge out of it.        *)
LEMMA ClosureIsClosed ==
    ASSUME NEW S, NEW E, NEW N, IsFiniteSet(N), S \subseteq N, \A e \in E : e[2] \in N,
           NEW e \in E, e[1] \in Closure(S, E, Cardinality(N))
    PROVE  e[2] \in Closure(S, E, Cardinality(N))
  <1> DEFINE n == Cardinality(N)
  <1>0. n \in Nat
    BY FS_CardinalityType
  <1> HIDE DEF n
  <1>1. PICK r : /\ Closure(S, E, n) = r[n]
                 /\ r[0] = S
                 /\ \A k \in 0 .. n : k # 0 => r[k] = Grow(r[k - 1], E)
    BY <1>0, ClosureLayers
  <1> SUFFICES ASSUME e[1] \in r[n], e[2] \notin r[n] PROVE FALSE
    BY <1>1 DEF n
  <1> DEFINE poor == {k \in 0 .. n : ~(r[k] \subseteq N /\ k <= Cardinality(r[k]))}
  (* Some round added nothing, otherwise round n has all of N.             *)
  <1>2. \E k \in 0 .. n : k # 0 /\ r[k] = r[k - 1]
    <2> SUFFICES ASSUME \A k \in 0 .. n : k # 0 => r[k] # r[k - 1] PROVE FALSE
      OBVIOUS
    <2>1. poor = {}
      <3> SUFFICES ASSUME poor # {} PROVE FALSE
        OBVIOUS
      <3>0. poor \subseteq Nat
        OBVIOUS
      <3>1. PICK m \in poor : \A k \in poor : m <= k
        BY <3>0, LeastElement
      <3>2. m \in 0 .. n /\ m # 0
        <4>1. S \subseteq N /\ Cardinality(S) \in Nat
          BY FS_Subset, FS_CardinalityType
        <4>2. 0 \notin poor
          BY <1>1, <4>1
        <4> QED
          BY <4>2
      <3>3. m - 1 \in 0 .. n /\ m - 1 \notin poor
        BY <1>0, <3>1, <3>2
      <3>4. r[m - 1] \subseteq N /\ m - 1 <= Cardinality(r[m - 1])
        BY <3>3
      <3>5. r[m] = Grow(r[m - 1], E) /\ r[m] # r[m - 1]
        BY <1>1, <3>2
      <3>6. r[m] \subseteq N /\ r[m - 1] \subseteq r[m]
        BY <3>4, <3>5 DEF Grow
      <3>7. IsFiniteSet(r[m]) /\ Cardinality(r[m]) \in Nat
        BY <3>6, FS_Subset, FS_CardinalityType
      <3>8. Cardinality(r[m - 1]) <= Cardinality(r[m]) /\ Cardinality(r[m - 1]) # Cardinality(r[m])
        BY <3>5, <3>6, <3>7, FS_Subset
      <3>9. Cardinality(r[m - 1]) \in Nat
        BY <3>6, <3>7, FS_Subset, FS_CardinalityType
      <3>10. m <= Cardinality(r[m])
        BY <3>2, <3>4, <3>7, <3>8, <3>9
      <3> QED
        BY <3>1, <3>6, <3>10
    <2>2. r[n] \subseteq N /\ n <= Cardinality(r[n])
      BY <1>0, <2>1
    <2>3. Cardinality(r[n]) <= n /\ Cardinality(r[n]) \in Nat
      BY <2>2, FS_Subset, FS_CardinalityType DEF n
    <2>4. Cardinality(r[n]) = Cardinality(N)
      BY <1>0, <2>2, <2>3 DEF n
    <2>5. r[n] = N
      BY <2>2, <2>4, FS_Subset
    <2> QED
      BY <2>5
  <1>3. PICK k \in 0 .. n : k # 0 /\ r[k] = r[k - 1]
    BY <1>2
  <1>4. Grow(r[k], E) = r[k]
    BY <1>1, <1>3
  <1> DEFINE late == {j \in 0 .. n : k <= j /\ r[j] # r[k]}
  <1>5. late = {}
    <2> SUFFICES ASSUME late # {} PROVE FALSE
      OBVIOUS
    <2>0. late \subseteq Nat
      OBVIOUS
    <2>1. PICK m \in late : \A j \in late : m <= j
      BY <2>0, LeastElement
    <2>2. m \in 0 .. n /\ m # 0 /\ k < m
      BY <1>3
    <2>3. m - 1 \in 0 .. n /\ m - 1 \notin late /\ k <= m - 1
      BY <1>0, <2>1, <2>2
    <2>4. r[m - 1] = r[k]
      BY <2>3
    <2>5. r[m] = Grow(r[m - 1], E)
      BY <1>1, <2>2
    <2> QED
      BY <1>4, <2>1, <2>4, <2>5
  <1>6. r[n] = r[k]
    BY <1>0, <1>3, <1>5
  <1> QED
    BY <1>4, <1>6 DEF Grow

(* What it has beside S is where an edge from inside it leads.             *)
LEMMA ClosureIsReached ==
    ASSUME NEW S, NEW E, NEW N, IsFiniteSet(N), S \subseteq N, \A e \in E : e[2] \in N,
           NEW v \in Closure(S, E, Cardinality(N)), v \notin S
    PROVE  \E e \in E : e[1] \in Closure(S, E, Cardinality(N)) /\ e[2] = v
  <1> DEFINE n == Cardinality(N)
             C == Closure(S, E, n)
             T == {w \in C : w \in S \/ \E e \in E : e[1] \in C /\ e[2] = w}
  <1>0. n \in Nat
    BY FS_CardinalityType
  <1>1. S \subseteq C
    BY <1>0, ClosureLeast
  <1>2. \A e \in E : e[1] \in C => e[2] \in C
    BY ClosureIsClosed
  <1>3. \A e \in E : e[1] \in T => e[2] \in T
    BY <1>2
  <1>4. S \subseteq T
    BY <1>1
  <1> HIDE DEF T
  <1>5. C \subseteq T
    BY <1>0, <1>3, <1>4, ClosureLeast
  <1> QED
    BY <1>5 DEF T

-----------------------------------------------------------------------------

LEMMA EdgeForms ==
    ASSUME NEW p
    PROVE  /\ \A i \in Stmts(p) : Incoming(p, i)[1] # NoNode =>
                <<Incoming(p, i)[1], At(i), Incoming(p, i)[2]>> \in Edges(p)
           /\ \A i \in OfKind(p, {"if"}) : \A e \in IfEdges(p, i) : e[1] # NoNode => e \in Edges(p)
           /\ \A i \in OfKind(p, {"while"}) : \A e \in WhileEdges(p, i) : e[1] # NoNode => e \in Edges(p)
           /\ \A i \in OfKind(p, JumpKinds) : JumpEdge(p, i)[1] # NoNode => JumpEdge(p, i) \in Edges(p)
           /\ BlockOut(p, BodyBlock(p), Entry) # NoNode =>
                <<BlockOut(p, BodyBlock(p), Entry), Exit(p), "fallthrough">> \in Edges(p)
  BY DEF Edges

LEMMA EdgeInto ==
    ASSUME NEW p, NEW i \in Stmts(p), NEW v, NEW k, Incoming(p, i) = <<v, k>>, v # NoNode
    PROVE  <<v, At(i), k>> \in Edges(p)
  <1>1. Incoming(p, i)[1] = v /\ Incoming(p, i)[2] = k
    OBVIOUS
  <1> QED
    BY <1>1, EdgeForms

LEMMA EdgeJump ==
    ASSUME NEW p, NEW i \in OfKind(p, JumpKinds), NEW v, NEW w, NEW k, JumpEdge(p, i) = <<v, w, k>>, v # NoNode
    PROVE  <<v, w, k>> \in Edges(p)
  <1>1. JumpEdge(p, i)[1] = v
    OBVIOUS
  <1> QED
    BY <1>1, EdgeForms

LEMMA EdgeCases ==
    ASSUME NEW p, NEW e \in Edges(p)
    PROVE  \/ \E i \in Stmts(p) : e = <<Incoming(p, i)[1], At(i), Incoming(p, i)[2]>>
           \/ \E i \in OfKind(p, {"if"}) : e \in IfEdges(p, i)
           \/ \E i \in OfKind(p, {"while"}) : e \in WhileEdges(p, i)
           \/ \E i \in OfKind(p, JumpKinds) : e = JumpEdge(p, i)
           \/ e = <<BlockOut(p, BodyBlock(p), Entry), Exit(p), "fallthrough">>
  BY DEF Edges

(* Where the jumps of a well-formed body lead.                             *)
LEMMA LoopJumps ==
    ASSUME NEW p, WellFormed(p), NEW i \in OfKind(p, LoopKinds)
    PROVE  /\ p.jump[i] \in OfKind(p, {"while"}) /\ InBlock(i, ThenBlock(p, p.jump[i]))
           /\ \A w \in LoopsAround(p, i) : w <= p.jump[i]
  <1>1. p.jump[i] = InnermostLoop(p, i) /\ p.jump[i] # 0
    BY DEF WellFormed
  <1>2. LoopsAround(p, i) # {}
    BY <1>1 DEF InnermostLoop
  <1>3. LoopsAround(p, i) \subseteq Int /\ \A w \in LoopsAround(p, i) : w <= p.n
    BY Indices DEF LoopsAround, OfKind
  <1>4. \E w \in LoopsAround(p, i) : \A v \in LoopsAround(p, i) : v <= w
    BY <1>2, <1>3, GreatestElement, Indices DEF WellFormed
  <1>5. p.jump[i] \in LoopsAround(p, i) /\ \A v \in LoopsAround(p, i) : v <= p.jump[i]
    BY <1>1, <1>2, <1>4 DEF InnermostLoop
  <1> QED
    BY <1>5 DEF LoopsAround

LEMMA GotoJumps ==
    ASSUME NEW p, WellFormed(p), NEW i \in OfKind(p, {"goto"})
    PROVE  /\ p.jump[i] \in OfKind(p, {"label"}) /\ BlockOf(p, p.jump[i]) \in Blocks(p)
           /\ InBlock(i, BlockOf(p, p.jump[i])) /\ LoopsAround(p, i) = {}
  BY DEF WellFormed, GotoTargets, Enclosing, OfKind

LEMMA EdgeTargets ==
    ASSUME NEW p, WellFormed(p), NEW e \in Edges(p)
    PROVE  e[2] \in Nodes(p)
  <1>1. CASE \E i \in Stmts(p) : e = <<Incoming(p, i)[1], At(i), Incoming(p, i)[2]>>
    BY <1>1 DEF Nodes
  <1>2. CASE \E i \in OfKind(p, {"if"}) : e \in IfEdges(p, i)
    BY <1>2 DEF Nodes, IfEdges, OfKind
  <1>3. CASE \E i \in OfKind(p, {"while"}) : e \in WhileEdges(p, i)
    BY <1>3 DEF Nodes, WhileEdges, OfKind
  <1>4. CASE \E i \in OfKind(p, JumpKinds) : e = JumpEdge(p, i)
    <2>1. PICK i \in OfKind(p, JumpKinds) : e = JumpEdge(p, i)
      BY <1>4
    <2>2. CASE p.kind[i] \in LoopKinds
      <3>1. p.jump[i] \in OfKind(p, {"while"})
        BY <2>2, LoopJumps DEF OfKind
      <3>2. e[2] = After(p.jump[i]) \/ e[2] = At(p.jump[i])
        BY <2>1, <2>2 DEF JumpEdge, LoopKinds
      <3> QED
        BY <3>1, <3>2 DEF Nodes, OfKind
    <2>3. CASE p.kind[i] = "goto"
      <3>1. p.jump[i] \in Stmts(p)
        BY <2>3, GotoJumps DEF OfKind
      <3>2. e[2] = At(p.jump[i])
        BY <2>1, <2>3 DEF JumpEdge
      <3> QED
        BY <3>1, <3>2 DEF Nodes
    <2>4. CASE p.kind[i] = "return"
      BY <2>1, <2>4 DEF JumpEdge, Nodes
    <2> QED
      BY <2>2, <2>3, <2>4 DEF OfKind, JumpKinds
  <1>5. CASE e = <<BlockOut(p, BodyBlock(p), Entry), Exit(p), "fallthrough">>
    BY <1>5 DEF Nodes
  <1> QED
    BY <1>1, <1>2, <1>3, <1>4, <1>5, EdgeCases

LEMMA NodesFinite ==
    ASSUME NEW p, WellFormed(p)
    PROVE  IsFiniteSet(Nodes(p)) /\ Nodes(p) \subseteq Nat /\ Cardinality(Nodes(p)) \in Nat
  <1>1. p.n \in Nat
    BY DEF WellFormed
  <1>2. Nodes(p) \subseteq 0 .. 2 * (p.n + 1)
    BY <1>1, Indices DEF Nodes, Entry, Exit, At, After, OfKind
  <1>3. IsFiniteSet(0 .. 2 * (p.n + 1))
    BY <1>1, FS_Interval
  <1>4. IsFiniteSet(Nodes(p))
    BY <1>2, <1>3, FS_Subset
  <1> QED
    BY <1>2, <1>4, FS_CardinalityType

(* What the breadth-first search finds: the entry and what an enabled edge *)
(* leads to, and nothing without such an edge.                             *)
LEMMA ReachableNodes ==
    ASSUME NEW p, WellFormed(p)
    PROVE  /\ Entry \in Reachable(p) /\ Reachable(p) \subseteq Nodes(p)
           /\ \A e \in EnabledEdges(p) : e[1] \in Reachable(p) => e[2] \in Reachable(p)
           /\ \A v \in Reachable(p) \ {Entry} : \E e \in EnabledEdges(p) : e[1] \in Reachable(p) /\ e[2] = v
  <1>1. {Entry} \subseteq Nodes(p) /\ \A e \in EnabledEdges(p) : e[2] \in Nodes(p)
    BY EdgeTargets DEF Nodes, EnabledEdges
  <1>2. Entry \in Reachable(p) /\ Reachable(p) \subseteq Nodes(p)
    BY <1>1, NodesFinite, ClosureLeast DEF Reachable
  <1>3. \A e \in EnabledEdges(p) : e[1] \in Reachable(p) => e[2] \in Reachable(p)
    BY <1>1, NodesFinite, ClosureIsClosed DEF Reachable
  <1>4. \A v \in Reachable(p) \ {Entry} : \E e \in EnabledEdges(p) : e[1] \in Reachable(p) /\ e[2] = v
    BY <1>1, NodesFinite, ClosureIsReached DEF Reachable
  <1> QED
    BY <1>2, <1>3, <1>4

LEMMA ReachableIsStructural ==
    ASSUME NEW p, WellFormed(p)
    PROVE  Reachable(p) \subseteq Structural(p)
  <1>1. {Entry} \subseteq Nodes(p) /\ \A e \in StructuralEdges(p) : e[2] \in Nodes(p)
    BY EdgeTargets DEF Nodes, StructuralEdges
  <1>2. EnabledEdges(p) \subseteq StructuralEdges(p)
    BY DEF EnabledEdges, StructuralEdges
  <1>3. \A e \in StructuralEdges(p) : e[1] \in Structural(p) => e[2] \in Structural(p)
    BY <1>1, NodesFinite, ClosureIsClosed DEF Structural
  <1>4. {Entry} \subseteq Structural(p)
    BY <1>1, NodesFinite, ClosureLeast DEF Structural
  <1> QED
    BY <1>2, <1>3, <1>4, NodesFinite, ClosureLeast DEF Reachable

-----------------------------------------------------------------------------

(* Control at v enters block b: the entry of the body, or a branch of the  *)
(* statement that holds it which its static condition leaves open.         *)
Enters(p, b, v) ==
    \/ b = BodyBlock(p) /\ v = Entry
    \/ \E k \in Composite(p) :
          /\ v = At(k) /\ b \in Arms(p, k)
          /\ \/ b = ThenBlock(p, k) /\ p.cond[k] # "F"
             \/ p.kind[k] = "if" /\ b = ElseBlock(p, k) /\ b[1] < b[2] /\ p.cond[k] # "T"

(* Control at v has fallen to position x of block b: in front of its first *)
(* statement, or out of the statement that ends there.                     *)
Ready(p, b, x, v) ==
    \/ x = b[1] /\ Enters(p, b, v)
    \/ \E j \in Stmts(p) :
          BlockOf(p, j) = b /\ p.end[j] = x /\ p.kind[j] \notin JumpKinds /\ v = Out(p, j)

Leads(p, v, w) == \E e \in EnabledEdges(p) : e[1] = v /\ e[2] = w

BlockAt(b, c) == [fn |-> "block", lo |-> b[1], hi |-> b[2], cur |-> c]
Block(f)      == <<f.lo, f.hi>>

(* The block an if or while call executes.                                 *)
Arm(p, f) == IF f.fn = "if" /\ ~f.arm THEN ElseBlock(p, f.stmt) ELSE ThenBlock(p, f.stmt)

AllFrames(p) ==
    {f \in {BlockAt(b, c) : b \in Blocks(p), c \in 1 .. p.n + 1} : f.lo <= f.cur /\ f.cur <= f.hi}
        \cup {f \in {IfFrame(i, arm) : i \in OfKind(p, {"if"}), arm \in BOOLEAN} :
                  f.arm \/ p.mid[f.stmt] < p.end[f.stmt]}
        \cup {WhileFrame(i) : i \in OfKind(p, {"while"})}

Holds(p, f) == f.cur \in Stmts(p) /\ BlockOf(p, f.cur) = Block(f)

(* Call f has made call h.                                                 *)
Called(p, f, h) ==
    IF f.fn = "block" THEN h.fn # "block" /\ Holds(p, f) /\ h.stmt = f.cur
    ELSE h.fn = "block" /\ Block(h) = Arm(p, f)

StackOK(p, s) ==
    /\ s \in Seq(AllFrames(p))
    /\ s # <<>> => s[1].fn = "block" /\ Block(s[1]) = BodyBlock(p)
    /\ \A k \in 1 .. Len(s) - 1 : Called(p, s[k], s[k + 1])

(* Where control is, by the innermost call f and the control c it has been *)
(* handed: x is the cursor, v the node control has reached.                *)
Running(p, f, c, x, v) ==
    /\ c = Run /\ f.fn = "block"
    /\ x \in f.lo .. f.hi
    /\ x = f.hi \/ (x \in Stmts(p) /\ BlockOf(p, x) = Block(f))
    /\ f.cur = x \/ (Holds(p, f) /\ f.cur < x)
    /\ Ready(p, Block(f), x, v)

Testing(p, f, c, v) == c = Run /\ f.fn = "while" /\ Leads(p, v, At(f.stmt))

StmtDone(p, f, c, x, v) ==
    /\ c = Normal /\ f.fn = "block"
    /\ Holds(p, f) /\ x = p.end[f.cur]
    /\ \/ p.kind[f.cur] \notin JumpKinds \cup {"if", "while"} /\ v = At(f.cur)
       \/ f.cur \in Composite(p) /\ Leads(p, v, After(f.cur))

ArmDone(p, f, c, x, v) ==
    /\ c = Normal
    /\ \/ f.fn = "if" /\ x = Arm(p, f)[2] /\ Leads(p, v, After(f.stmt))
       \/ f.fn = "while" /\ Leads(p, v, At(f.stmt))

(* The block a jump statement is bound for.                                *)
TargetBlock(p, j) ==
    IF p.kind[j] = "goto" THEN BlockOf(p, p.jump[j]) ELSE ThenBlock(p, p.jump[j])

Jumping(p, f, c, v) ==
    \E j \in OfKind(p, LoopKinds \cup {"goto"}) :
        /\ c = Ctl(p.kind[j], p.jump[j]) /\ v = At(j)
        /\ IF f.fn = "block"
           THEN Holds(p, f) /\ InBlock(j, Block(f)) /\ Inside(Block(f), TargetBlock(p, j))
           ELSE /\ InBlock(j, Arm(p, f)) /\ Inside(Arm(p, f), TargetBlock(p, j))
                /\ p.kind[j] = "goto" => Arm(p, f) # TargetBlock(p, j)

Returning(p, f, c, v) ==
    /\ \E j \in OfKind(p, {"return"}) : c = Ctl("return", p.jump[j]) /\ v = At(j)
    /\ f.fn = "block" => Holds(p, f)

Failing(p, f, c) == c = Fault

Ended(p, c, x, v) ==
    \/ c = Normal /\ Ready(p, BodyBlock(p), p.n + 1, v)
    \/ \E j \in OfKind(p, {"return"}) : c = Ctl("return", p.jump[j]) /\ v = At(j)
    \/ c = Fault \/ c = Ctl("done", 0)
    \/ c = Internal /\ MissingReturn(p)

Phase(p, s, c, x, v) ==
    IF s = <<>> THEN Ended(p, c, x, v)
    ELSE LET f == s[Len(s)]
         IN  \/ Running(p, f, c, x, v)
             \/ Testing(p, f, c, v)
             \/ StmtDone(p, f, c, x, v)
             \/ ArmDone(p, f, c, x, v)
             \/ Jumping(p, f, c, v)
             \/ Returning(p, f, c, v)
             \/ Failing(p, f, c)

ExecInv ==
    /\ WellFormed(prog)
    /\ next \in 1 .. prog.n + 1
    /\ StackOK(prog, stack)
    /\ Phase(prog, stack, ctl, next, at)
    /\ at \in Reachable(prog)
    /\ written \subseteq Slots(prog)

-----------------------------------------------------------------------------

LEMMA NodeNames ==
    ASSUME NEW i \in Nat
    PROVE  /\ At(i) # NoNode /\ After(i) # NoNode /\ Entry # NoNode /\ StmtAt(At(i)) = i
           /\ i # 0 => At(i) # Entry
           /\ \A j \in Nat : (At(i) = At(j) => i = j) /\ At(i) # After(j)
  BY DEF At, After, NoNode, Entry, StmtAt

(* Only a branch on a constant condition is pruned.                        *)
LEMMA PlainEdges ==
    ASSUME NEW p, NEW e \in Edges(p), e[3] \notin {"true", "false"}
    PROVE  e \in EnabledEdges(p)
  BY DEF EnabledEdges, Enabled

LEMMA BranchEdges ==
    ASSUME NEW p, WellFormed(p), NEW e \in Edges(p), NEW k \in Composite(p), e[1] = At(k),
           \/ e[3] = "true" /\ p.cond[k] # "F"
           \/ e[3] = "false" /\ p.cond[k] # "T"
    PROVE  e \in EnabledEdges(p)
  <1>1. k \in Nat
    BY Indices DEF Composite, OfKind
  <1>2. Condition(p, e[1]) = p.cond[k]
    BY <1>1, NodeNames DEF Condition, Composite
  <1> QED
    BY <1>2 DEF EnabledEdges, Enabled

LEMMA EntersBody ==
    ASSUME NEW p, WellFormed(p), NEW v, Enters(p, BodyBlock(p), v)
    PROVE  v = Entry
  <1>1. \A k \in Composite(p) : BodyBlock(p) \notin Arms(p, k)
    BY ArmBounds, Indices DEF BodyBlock, Composite, OfKind
  <1> QED
    BY <1>1 DEF Enters

LEMMA EntersThen ==
    ASSUME NEW p, WellFormed(p), NEW k \in Composite(p), NEW v, Enters(p, ThenBlock(p, k), v)
    PROVE  v = At(k)
  <1>1. ThenBlock(p, k) \in Arms(p, k)
    BY DEF Arms
  <1>2. ThenBlock(p, k) # BodyBlock(p)
    BY <1>1, ArmBounds, Indices DEF BodyBlock, Composite, OfKind
  <1>3. PICK j \in Composite(p) :
          /\ v = At(j) /\ ThenBlock(p, k) \in Arms(p, j)
          /\ \/ ThenBlock(p, k) = ThenBlock(p, j)
             \/ ThenBlock(p, k)[1] < ThenBlock(p, k)[2]
    BY <1>2 DEF Enters
  <1>4. k \in Nat /\ j \in Nat
    BY Indices DEF Composite, OfKind
  <1>5. CASE ThenBlock(p, k) = ThenBlock(p, j)
    <2>1. k + 1 = j + 1
      BY <1>5 DEF ThenBlock
    <2> QED
      BY <2>1, <1>3, <1>4
  <1>6. CASE ThenBlock(p, k)[1] < ThenBlock(p, k)[2]
    BY <1>1, <1>3, <1>6, OneOwner
  <1> QED
    BY <1>3, <1>5, <1>6

LEMMA EntersElse ==
    ASSUME NEW p, WellFormed(p), NEW k \in OfKind(p, {"if"}), p.mid[k] < p.end[k], NEW v,
           Enters(p, ElseBlock(p, k), v)
    PROVE  v = At(k)
  <1>0. k \in Composite(p) /\ k \in Stmts(p)
    BY DEF Composite, OfKind
  <1>1. ElseBlock(p, k) \in Arms(p, k)
    BY DEF Arms, OfKind
  <1>2. ElseBlock(p, k) # BodyBlock(p)
    BY <1>0, <1>1, ArmBounds, Indices DEF BodyBlock
  <1>3. PICK j \in Composite(p) : v = At(j) /\ ElseBlock(p, k) \in Arms(p, j)
    BY <1>2 DEF Enters
  <1>4. ElseBlock(p, k)[1] < ElseBlock(p, k)[2]
    BY DEF ElseBlock
  <1> QED
    BY <1>0, <1>1, <1>3, <1>4, OneOwner

(* A node in front of position x is the one the builder keeps for it.      *)
LEMMA ReadyAfterFirst ==
    ASSUME NEW p, WellFormed(p), NEW b \in Blocks(p), NEW x \in Int, NEW v, Ready(p, b, x, v), x # b[1]
    PROVE  \E j \in b[1] .. x - 1 :
              /\ j \in Stmts(p) /\ p.end[j] = x /\ BlockOf(p, j) = b /\ v = Out(p, j)
              /\ p.kind[j] \notin JumpKinds /\ v # NoNode
  <1>1. PICK j \in Stmts(p) : BlockOf(p, j) = b /\ p.end[j] = x /\ p.kind[j] \notin JumpKinds /\ v = Out(p, j)
    BY DEF Ready
  <1>2. InBlock(j, b) /\ j \in Nat /\ j < x
    BY <1>1, BlockOfFacts, Indices
  <1>3. b[1] \in Int
    BY BlockBounds
  <1>4. v # NoNode
    BY <1>1, <1>2, NodeNames DEF Out
  <1> QED
    BY <1>1, <1>2, <1>3, <1>4 DEF InBlock

LEMMA ReadyAtFirst ==
    ASSUME NEW p, WellFormed(p), NEW b \in Blocks(p), NEW v, Ready(p, b, b[1], v)
    PROVE  Enters(p, b, v)
  <1>1. \A j \in Stmts(p) : BlockOf(p, j) = b => p.end[j] # b[1]
    BY BlockOfFacts, Indices, BlockBounds DEF InBlock
  <1> QED
    BY <1>1 DEF Ready

LEMMA EnabledInto ==
    ASSUME NEW p, WellFormed(p), NEW x \in Stmts(p), NEW v, Ready(p, BlockOf(p, x), x, v)
    PROVE  Leads(p, v, At(x))
  <1> DEFINE b == BlockOf(p, x)
  <1>1. b \in Blocks(p) /\ InBlock(x, b) /\ x \in Int
    BY BlockOfFacts, Indices
  <1>2. b[1] \in Int /\ b[2] \in Int /\ b[1] <= x /\ x < b[2] /\ b[1] < b[2]
    BY <1>1, BlockBounds DEF InBlock
  <1> HIDE DEF b
  <1>3. CASE x # b[1]
    <2>5. Ready(p, b, x, v)
      BY DEF b
    <2>1. PICK j \in b[1] .. x - 1 :
            j \in Stmts(p) /\ p.end[j] = x /\ BlockOf(p, j) = b /\ v = Out(p, j) /\ v # NoNode
      BY <1>1, <1>3, <2>5, ReadyAfterFirst
    <2>2. \A k \in b[1] .. x - 1 : p.end[k] = x /\ BlockOf(p, k) = b => k = j
      <3>1. \A k \in b[1] .. x - 1 : k \in Stmts(p)
        BY <1>1, <1>2, BlockInBody DEF InBlock
      <3> QED
        BY <3>1, <2>1, SameEnd
    <2>3. Incoming(p, x) = <<v, "fallthrough">>
      BY <1>3, <2>1, <2>2 DEF Incoming, b
    <2>4. <<v, At(x), "fallthrough">> \in Edges(p)
      BY <2>1, <2>3, EdgeInto
    <2> QED
      BY <2>4, PlainEdges DEF Leads
  <1>4. CASE x = b[1]
    <2>1. Enters(p, b, v)
      BY <1>1, <1>4, ReadyAtFirst DEF b
    <2>2. CASE b = BodyBlock(p)
      <3>1. v = Entry
        BY <2>1, <2>2, EntersBody
      <3>2. Incoming(p, x) = <<v, "fallthrough">>
        BY <1>4, <2>2, <3>1 DEF Incoming, b
      <3>3. <<v, At(x), "fallthrough">> \in Edges(p)
        BY <3>1, <3>2, EdgeInto DEF Entry, NoNode
      <3> QED
        BY <3>3, PlainEdges DEF Leads
    <2>3. CASE b # BodyBlock(p)
      <3>1. PICK k \in Composite(p) :
              /\ v = At(k) /\ b \in Arms(p, k)
              /\ \/ b = ThenBlock(p, k) /\ p.cond[k] # "F"
                 \/ p.kind[k] = "if" /\ b = ElseBlock(p, k) /\ p.cond[k] # "T"
        BY <2>1, <2>3 DEF Enters
      <3>2. \A j \in Composite(p) : b \in {ThenBlock(p, j), ElseBlock(p, j)} => j = k
        <4> SUFFICES ASSUME NEW j \in Composite(p), b \in {ThenBlock(p, j), ElseBlock(p, j)} PROVE j = k
          OBVIOUS
        <4>1. p.kind[j] # "if" => p.mid[j] = p.end[j]
          BY Indices DEF Composite, OfKind
        <4>2. b \in Arms(p, j)
          BY <4>1, <1>2 DEF Arms, ElseBlock
        <4> QED
          BY <4>2, <3>1, <1>2, OneOwner
      <3>3. b \in {ThenBlock(p, k), ElseBlock(p, k)}
        BY <3>1
      <3>4. Incoming(p, x) = <<At(k), IF b = ThenBlock(p, k) THEN "true" ELSE "false">>
        BY <1>4, <2>3, <3>2, <3>3 DEF Incoming, b, Composite
      <3>5. k \in Nat /\ k \in Stmts(p) /\ p.mid[k] \in Int /\ p.end[k] \in Int /\ p.mid[k] <= p.end[k] /\ k < p.mid[k]
        BY Indices DEF Composite, OfKind
      <3>6. ThenBlock(p, k) # ElseBlock(p, k)
        BY <1>2, <3>3, <3>5 DEF ThenBlock, ElseBlock
      <3>7. v # NoNode
        BY <3>1, <3>5, NodeNames
      <3>8. CASE b = ThenBlock(p, k)
        <4>1. <<v, At(x), "true">> \in Edges(p)
          BY <3>1, <3>4, <3>7, <3>8, EdgeInto
        <4> QED
          BY <3>1, <3>6, <3>8, <4>1, BranchEdges DEF Leads
      <3>9. CASE b # ThenBlock(p, k)
        <4>1. <<v, At(x), "false">> \in Edges(p)
          BY <3>1, <3>4, <3>7, <3>9, EdgeInto
        <4> QED
          BY <3>1, <3>9, <4>1, BranchEdges DEF Leads
      <3> QED
        BY <3>8, <3>9
    <2> QED
      BY <2>2, <2>3
  <1> QED
    BY <1>3, <1>4

(* The node control falls out of a block from is the one the builder       *)
(* returns for the block.                                                  *)
LEMMA FallsOut ==
    ASSUME NEW p, WellFormed(p), NEW b \in Blocks(p), NEW v, NEW pred, Ready(p, b, b[2], v),
           pred # NoNode, Enters(p, b, v) => v = pred
    PROVE  BlockOut(p, b, pred) = v /\ v # NoNode
  <1>1. CASE b[1] = b[2]
    <2>1. v = pred
      BY <1>1, ReadyAtFirst
    <2> QED
      BY <1>1, <2>1 DEF BlockOut
  <1>2. CASE b[1] # b[2]
    <2>0. b[1] \in Int /\ b[2] \in Int
      BY BlockBounds
    <2>1. PICK j \in b[1] .. b[2] - 1 :
            j \in Stmts(p) /\ p.end[j] = b[2] /\ BlockOf(p, j) = b /\ v = Out(p, j) /\ v # NoNode
      BY <1>2, <2>0, ReadyAfterFirst
    <2>2. \A k \in b[1] .. b[2] - 1 : p.end[k] = b[2] /\ BlockOf(p, k) = b => k = j
      <3>1. \A k \in b[1] .. b[2] - 1 : k \in Stmts(p)
        BY <2>0, BlockInBody DEF InBlock
      <3> QED
        BY <3>1, <2>1, SameEnd
    <2> QED
      BY <1>2, <2>1, <2>2 DEF BlockOut
  <1> QED
    BY <1>1, <1>2

LEMMA ArmFallsOut ==
    ASSUME NEW p, WellFormed(p), NEW i \in OfKind(p, {"if"}), NEW b \in Arms(p, i), NEW v,
           Ready(p, b, b[2], v), b = ThenBlock(p, i) \/ b[1] < b[2]
    PROVE  Leads(p, v, After(i))
  <1>0. i \in Composite(p) /\ i \in Nat /\ p.mid[i] \in Int /\ p.end[i] \in Int /\ At(i) # NoNode
    BY Indices, NodeNames DEF Composite, OfKind
  <1>1. b \in Blocks(p)
    BY <1>0, BlocksOf
  <1>2. CASE b = ThenBlock(p, i)
    <2>0. Enters(p, b, v) => v = At(i)
      BY <1>0, <1>2, EntersThen
    <2>1. BlockOut(p, b, At(i)) = v /\ v # NoNode
      BY <1>0, <1>1, <2>0, FallsOut
    <2>2. <<v, After(i), "fallthrough">> \in IfEdges(p, i)
      BY <1>2, <2>1 DEF IfEdges
    <2>3. <<v, After(i), "fallthrough">> \in Edges(p)
      BY <2>1, <2>2, EdgeForms
    <2> QED
      BY <2>3, PlainEdges DEF Leads
  <1>3. CASE b # ThenBlock(p, i)
    <2>0. b = ElseBlock(p, i) /\ b[1] < b[2] /\ b[1] = p.mid[i] /\ b[2] = p.end[i]
      BY <1>3 DEF Arms, ElseBlock
    <2>1. BlockOut(p, b, At(i)) = v /\ v # NoNode
      BY <1>0, <1>1, <2>0, EntersElse, FallsOut
    <2>2. <<v, After(i), "fallthrough">> \in IfEdges(p, i)
      BY <1>0, <2>0, <2>1 DEF IfEdges
    <2>3. <<v, After(i), "fallthrough">> \in Edges(p)
      BY <2>1, <2>2, EdgeForms
    <2> QED
      BY <2>3, PlainEdges DEF Leads
  <1> QED
    BY <1>2, <1>3

LEMMA LoopBodyFallsOut ==
    ASSUME NEW p, WellFormed(p), NEW w \in OfKind(p, {"while"}), NEW v,
           Ready(p, ThenBlock(p, w), ThenBlock(p, w)[2], v)
    PROVE  Leads(p, v, At(w))
  <1>0. w \in Composite(p) /\ At(w) # NoNode
    BY Indices, NodeNames DEF Composite, OfKind
  <1>1. ThenBlock(p, w) \in Blocks(p)
    BY <1>0, BlocksOf DEF Arms
  <1>2. BlockOut(p, ThenBlock(p, w), At(w)) = v /\ v # NoNode
    BY <1>0, <1>1, EntersThen, FallsOut
  <1>3. <<v, At(w), "fallthrough">> \in WhileEdges(p, w)
    BY <1>2 DEF WhileEdges
  <1>4. <<v, At(w), "fallthrough">> \in Edges(p)
    BY <1>2, <1>3, EdgeForms
  <1> QED
    BY <1>4, PlainEdges DEF Leads

LEMMA BodyFallsOut ==
    ASSUME NEW p, WellFormed(p), NEW v, Ready(p, BodyBlock(p), p.n + 1, v)
    PROVE  <<v, Exit(p), "fallthrough">> \in EnabledEdges(p)
  <1>1. BodyBlock(p) \in Blocks(p) /\ BodyBlock(p)[2] = p.n + 1
    BY BlocksOf DEF BodyBlock
  <1>2. BlockOut(p, BodyBlock(p), Entry) = v /\ v # NoNode
    BY <1>1, EntersBody, FallsOut DEF Entry, NoNode
  <1>3. <<v, Exit(p), "fallthrough">> \in Edges(p)
    BY <1>2, EdgeForms
  <1> QED
    BY <1>3, PlainEdges

(* The branches a condition leaves open.                                   *)
LEMMA SkipsArms ==
    ASSUME NEW p, WellFormed(p), NEW i \in Composite(p), p.cond[i] # "T",
           p.kind[i] = "while" \/ p.mid[i] = p.end[i]
    PROVE  Leads(p, At(i), After(i))
  <1>0. At(i) # NoNode
    BY Indices, NodeNames DEF Composite, OfKind
  <1>1. <<At(i), After(i), "false">> \in Edges(p)
    <2>1. CASE p.kind[i] = "while"
      <3>1. i \in OfKind(p, {"while"}) /\ <<At(i), After(i), "false">> \in WhileEdges(p, i)
        BY <2>1 DEF WhileEdges, Composite, OfKind
      <3> QED
        BY <1>0, <3>1, EdgeForms
    <2>2. CASE p.kind[i] # "while"
      <3>1. i \in OfKind(p, {"if"}) /\ <<At(i), After(i), "false">> \in IfEdges(p, i)
        BY <2>2 DEF IfEdges, Composite, OfKind
      <3> QED
        BY <1>0, <3>1, EdgeForms
    <2> QED
      BY <2>1, <2>2
  <1> QED
    BY <1>1, BranchEdges DEF Leads

LEMMA JumpLeads ==
    ASSUME NEW p, WellFormed(p), NEW i \in OfKind(p, JumpKinds)
    PROVE  /\ p.kind[i] = "break" => Leads(p, At(i), After(p.jump[i]))
           /\ p.kind[i] \in {"continue", "goto"} => Leads(p, At(i), At(p.jump[i]))
           /\ p.kind[i] = "return" => Leads(p, At(i), Exit(p))
  <1>1. At(i) # NoNode
    BY Indices, NodeNames DEF OfKind
  <1>2. CASE p.kind[i] = "break"
    <2>1. JumpEdge(p, i) = <<At(i), After(p.jump[i]), "break">>
      BY <1>2 DEF JumpEdge
    <2>2. <<At(i), After(p.jump[i]), "break">> \in Edges(p)
      BY <1>1, <2>1, EdgeJump
    <2> QED
      BY <1>2, <2>2, PlainEdges DEF Leads
  <1>3. CASE p.kind[i] = "continue"
    <2>1. JumpEdge(p, i) = <<At(i), At(p.jump[i]), "continue">>
      BY <1>3 DEF JumpEdge
    <2>2. <<At(i), At(p.jump[i]), "continue">> \in Edges(p)
      BY <1>1, <2>1, EdgeJump
    <2> QED
      BY <1>3, <2>2, PlainEdges DEF Leads
  <1>4. CASE p.kind[i] = "goto"
    <2>1. JumpEdge(p, i) = <<At(i), At(p.jump[i]), "goto">>
      BY <1>4 DEF JumpEdge
    <2>2. <<At(i), At(p.jump[i]), "goto">> \in Edges(p)
      BY <1>1, <2>1, EdgeJump
    <2> QED
      BY <1>4, <2>2, PlainEdges DEF Leads
  <1>5. CASE p.kind[i] = "return"
    <2>1. JumpEdge(p, i) = <<At(i), Exit(p), "return">>
      BY <1>5 DEF JumpEdge
    <2>2. <<At(i), Exit(p), "return">> \in Edges(p)
      BY <1>1, <2>1, EdgeJump
    <2> QED
      BY <1>5, <2>2, PlainEdges DEF Leads
  <1> QED
    BY <1>2, <1>3, <1>4, <1>5

(* A block around the code of an arm is the arm or holds its statement.    *)
LEMMA AroundArm ==
    ASSUME NEW p, WellFormed(p), NEW k \in Composite(p), NEW a \in Arms(p, k), NEW j \in Int, InBlock(j, a),
           NEW c \in Blocks(p), Inside(a, c), c # a
    PROVE  Inside(BlockOf(p, k), c)
  <1>0. k \in Stmts(p) /\ a \in Blocks(p) /\ j \in Stmts(p)
    BY BlocksOf, BlockInBody DEF Composite, OfKind
  <1>1. CASE c = BodyBlock(p)
    BY <1>0, <1>1, BlockOfFacts, BlockInBody
  <1>2. CASE c # BodyBlock(p)
    <2>1. PICK w \in Composite(p) : c \in Arms(p, w)
      BY <1>2, BlocksOf
    <2>2. InBlock(j, c)
      BY BlockBounds, <1>0 DEF Inside, InBlock
    <2>3. w # k
      BY <2>1, <2>2, ArmsDisjoint
    <2>4. w \in Stmts(p) /\ w \in Int /\ k \in Int
      BY <1>0, Indices DEF Composite, OfKind
    <2>5. CASE w < k
      <3>1. c[1] <= k
        BY <1>0, <2>1, <2>2, <2>5, OwnerInside, InnermostBlock
      <3>2. k < a[1] /\ a[1] <= a[2] /\ a[2] <= c[2] /\ a[1] \in Int /\ a[2] \in Int /\ c[2] \in Int
        BY ArmBounds, BlockBounds DEF Inside
      <3>3. InBlock(k, c)
        BY <2>4, <3>1, <3>2 DEF InBlock
      <3> QED
        BY <1>0, <3>3, BlockOfFacts
    <2>6. CASE k < w
      <3>1. Inside(c, a)
        BY <1>0, <2>1, <2>2, <2>6, OwnerInside, InnermostBlock
      <3> QED
        BY <1>0, <3>1, InsideBoth
    <2> QED
      BY <2>3, <2>4, <2>5, <2>6
  <1> QED
    BY <1>1, <1>2

-----------------------------------------------------------------------------

LEMMA BlockFrameFacts ==
    ASSUME NEW p, WellFormed(p), NEW f \in AllFrames(p), f.fn = "block"
    PROVE  /\ Block(f) \in Blocks(p) /\ Block(f)[1] = f.lo /\ Block(f)[2] = f.hi
           /\ f.lo \in Int /\ f.hi \in Int /\ f.cur \in Int
           /\ f.lo <= f.cur /\ f.cur <= f.hi /\ 1 <= f.lo /\ f.hi <= p.n + 1
           /\ f = BlockAt(Block(f), f.cur)
  <1>1. PICK b \in Blocks(p), c \in 1 .. p.n + 1 : f = BlockAt(b, c) /\ f.lo <= f.cur /\ f.cur <= f.hi
    BY DEF AllFrames, BlockAt, IfFrame, WhileFrame
  <1>2. f.lo = b[1] /\ f.hi = b[2] /\ f.cur = c
    BY <1>1 DEF BlockAt
  <1>3. b = Block(f) /\ b[1] \in Int /\ b[2] \in Int /\ 1 <= b[1]
    BY <1>2, BlockBounds DEF Block
  <1>4. b[2] <= p.n + 1
    BY BlockInBody DEF Inside, BodyBlock
  <1>5. p.n \in Nat
    BY DEF WellFormed
  <1> QED
    BY <1>1, <1>2, <1>3, <1>4, <1>5

LEMMA CallFrameFacts ==
    ASSUME NEW p, WellFormed(p), NEW f \in AllFrames(p), f.fn # "block"
    PROVE  /\ f.stmt \in Composite(p) /\ f.stmt \in Stmts(p) /\ f.stmt \in Nat
           /\ Arm(p, f) \in Arms(p, f.stmt) /\ Arm(p, f) \in Blocks(p)
           /\ \/ f.fn = "if" /\ f.stmt \in OfKind(p, {"if"}) /\ f = IfFrame(f.stmt, f.arm) /\ f.arm \in BOOLEAN
              \/ f.fn = "while" /\ f.stmt \in OfKind(p, {"while"}) /\ f = WhileFrame(f.stmt)
           /\ Arm(p, f) = ThenBlock(p, f.stmt) \/ Arm(p, f)[1] < Arm(p, f)[2]
  <1>1. CASE \E i \in OfKind(p, {"if"}) : \E arm \in BOOLEAN :
               f = IfFrame(i, arm) /\ (f.arm \/ p.mid[f.stmt] < p.end[f.stmt])
    <2>1. PICK i \in OfKind(p, {"if"}), arm \in BOOLEAN :
            f = IfFrame(i, arm) /\ (f.arm \/ p.mid[f.stmt] < p.end[f.stmt])
      BY <1>1
    <2>2. f.fn = "if" /\ f.stmt = i /\ f.arm = arm
      BY <2>1 DEF IfFrame
    <2>3. i \in Composite(p) /\ i \in Stmts(p) /\ i \in Nat
      BY Indices DEF Composite, OfKind
    <2>4. Arm(p, f) \in Arms(p, i)
      BY <2>2 DEF Arm, Arms, OfKind
    <2>5. Arm(p, f) = ThenBlock(p, i) \/ Arm(p, f)[1] < Arm(p, f)[2]
      BY <2>1, <2>2 DEF Arm, ElseBlock
    <2> QED
      BY <2>1, <2>2, <2>3, <2>4, <2>5, BlocksOf
  <1>2. CASE \E i \in OfKind(p, {"while"}) : f = WhileFrame(i)
    <2>1. PICK i \in OfKind(p, {"while"}) : f = WhileFrame(i)
      BY <1>2
    <2>2. f.fn = "while" /\ f.stmt = i
      BY <2>1 DEF WhileFrame
    <2>3. i \in Composite(p) /\ i \in Stmts(p) /\ i \in Nat
      BY Indices DEF Composite, OfKind
    <2>4. Arm(p, f) = ThenBlock(p, i) /\ Arm(p, f) \in Arms(p, i)
      BY <2>2 DEF Arm, Arms
    <2> QED
      BY <2>1, <2>2, <2>3, <2>4, BlocksOf
  <1>3. CASE \E b \in Blocks(p) : \E c \in 1 .. p.n + 1 : f = BlockAt(b, c)
    BY <1>3 DEF BlockAt
  <1> QED
    BY <1>1, <1>2, <1>3 DEF AllFrames

LEMMA NewFrames ==
    ASSUME NEW p, WellFormed(p)
    PROVE  /\ \A b \in Blocks(p) : /\ BlockFrame(b) \in AllFrames(p) /\ BlockFrame(b) = BlockAt(b, b[1])
                                   /\ BlockFrame(b).fn = "block" /\ Block(BlockFrame(b)) = b
                                   /\ BlockFrame(b).cur = b[1] /\ BlockFrame(b).lo = b[1] /\ BlockFrame(b).hi = b[2]
           /\ \A i \in OfKind(p, {"if"}) : \A arm \in BOOLEAN :
                 arm \/ p.mid[i] < p.end[i] => IfFrame(i, arm) \in AllFrames(p)
           /\ \A i \in OfKind(p, {"while"}) : WhileFrame(i) \in AllFrames(p)
  <1>1. ASSUME NEW b \in Blocks(p)
        PROVE  /\ BlockFrame(b) \in AllFrames(p) /\ BlockFrame(b) = BlockAt(b, b[1])
               /\ BlockFrame(b).fn = "block" /\ Block(BlockFrame(b)) = b
               /\ BlockFrame(b).cur = b[1] /\ BlockFrame(b).lo = b[1] /\ BlockFrame(b).hi = b[2]
    <2>1. b[1] \in Int /\ b[2] \in Int /\ 1 <= b[1] /\ b[1] <= b[2] /\ b = <<b[1], b[2]>>
      BY BlockBounds
    <2>2. b[2] <= p.n + 1 /\ p.n \in Nat
      BY BlockInBody DEF Inside, BodyBlock, WellFormed
    <2>3. BlockFrame(b) = BlockAt(b, b[1])
      BY DEF BlockFrame, BlockAt
    <2>4. /\ BlockFrame(b).fn = "block" /\ BlockFrame(b).cur = b[1] /\ BlockFrame(b).lo = b[1]
          /\ BlockFrame(b).hi = b[2]
      BY DEF BlockFrame
    <2>5. Block(BlockFrame(b)) = b
      BY <2>1, <2>4 DEF Block
    <2>6. b[1] \in 1 .. p.n + 1
      BY <2>1, <2>2
    <2>7. BlockFrame(b) \in {f \in {BlockAt(c, x) : c \in Blocks(p), x \in 1 .. p.n + 1} : f.lo <= f.cur /\ f.cur <= f.hi}
      BY <2>1, <2>3, <2>4, <2>6
    <2> QED
      BY <2>3, <2>4, <2>5, <2>7 DEF AllFrames
  <1>2. ASSUME NEW i \in OfKind(p, {"if"}), NEW arm \in BOOLEAN, arm \/ p.mid[i] < p.end[i]
        PROVE  IfFrame(i, arm) \in AllFrames(p)
    <2>1. IfFrame(i, arm).arm = arm /\ IfFrame(i, arm).stmt = i
      BY DEF IfFrame
    <2> QED
      BY <1>2, <2>1 DEF AllFrames
  <1>3. \A i \in OfKind(p, {"while"}) : WhileFrame(i) \in AllFrames(p)
    BY DEF AllFrames
  <1> QED
    BY <1>1, <1>2, <1>3

LEMMA StackTop ==
    ASSUME NEW p, NEW s, StackOK(p, s), s # <<>>
    PROVE  Len(s) \in Nat /\ Len(s) > 0 /\ s[Len(s)] \in AllFrames(p)
  <1>1. s \in Seq(AllFrames(p))
    BY DEF StackOK
  <1> QED
    BY <1>1

LEMMA StackPush ==
    ASSUME NEW p, NEW s, StackOK(p, s), s # <<>>, NEW f \in AllFrames(p), Called(p, s[Len(s)], f)
    PROVE  /\ StackOK(p, Append(s, f)) /\ Append(s, f) # <<>>
           /\ Append(s, f)[Len(Append(s, f))] = f
  <1> DEFINE t == Append(s, f)
  <1>1. s \in Seq(AllFrames(p)) /\ Len(s) \in Nat /\ Len(s) > 0
    BY StackTop DEF StackOK
  <1>2. t \in Seq(AllFrames(p)) /\ t # <<>> /\ Len(t) = Len(s) + 1 /\ t[Len(t)] = f
    BY <1>1
  <1>3. \A k \in 1 .. Len(s) : t[k] = s[k]
    BY <1>1
  <1> HIDE DEF t
  <1>4. t[1].fn = "block" /\ Block(t[1]) = BodyBlock(p)
    BY <1>1, <1>3 DEF StackOK
  <1>5. ASSUME NEW k \in 1 .. Len(t) - 1 PROVE Called(p, t[k], t[k + 1])
    <2>1. CASE k = Len(s)
      BY <1>1, <1>2, <1>3, <2>1
    <2>2. CASE k # Len(s)
      <3>1. k \in 1 .. Len(s) - 1 /\ t[k] = s[k] /\ t[k + 1] = s[k + 1]
        BY <1>1, <1>2, <1>3, <2>2
      <3> QED
        BY <3>1 DEF StackOK
    <2> QED
      BY <2>1, <2>2
  <1>6. StackOK(p, t)
    BY <1>2, <1>4, <1>5 DEF StackOK
  <1> QED
    BY <1>2, <1>6 DEF t

LEMMA FrontFacts ==
    ASSUME NEW S, NEW s \in Seq(S), s # <<>>
    PROVE  /\ Front(s) \in Seq(S) /\ Len(Front(s)) = Len(s) - 1
           /\ \A k \in 1 .. Len(s) - 1 : Front(s)[k] = s[k]
  <1> DEFINE m == Len(s) - 1
  <1>1. m \in 0 .. Len(s) /\ Front(s) = SubSeq(s, 1, m)
    BY DEF Front
  <1> HIDE DEF m
  <1>2. Len(s) \in Nat /\ m \in Nat /\ \A k \in 1 .. Len(s) : s[k] \in S
    BY <1>1
  <1>3. Len(SubSeq(s, 1, m)) = m /\ \A k \in 1 .. m : SubSeq(s, 1, m)[k] = s[k]
    BY <1>1, <1>2
  <1>4. SubSeq(s, 1, m) \in Seq(S)
    BY <1>1, <1>2
  <1> QED
    BY <1>1, <1>3, <1>4 DEF m

LEMMA StackPop ==
    ASSUME NEW p, NEW s, StackOK(p, s), s # <<>>
    PROVE  /\ StackOK(p, Front(s))
           /\ Front(s) = <<>> => s[Len(s)].fn = "block" /\ Block(s[Len(s)]) = BodyBlock(p)
           /\ Front(s) # <<>> => Called(p, Front(s)[Len(Front(s))], s[Len(s)])
  <1> DEFINE t == Front(s)
  <1>1. s \in Seq(AllFrames(p)) /\ Len(s) \in Nat /\ Len(s) > 0
    BY StackTop DEF StackOK
  <1>2. t \in Seq(AllFrames(p)) /\ Len(t) = Len(s) - 1
    BY <1>1, FrontFacts
  <1>3. \A k \in 1 .. Len(t) : t[k] = s[k]
    BY <1>1, <1>2, FrontFacts
  <1> HIDE DEF t
  <1>4. CASE t = <<>>
    <2>1. Len(s) = 1
      BY <1>1, <1>2, <1>4
    <2> QED
      BY <1>1, <1>2, <1>4, <2>1 DEF StackOK, t
  <1>5. CASE t # <<>>
    <2>1. Len(t) > 0
      BY <1>2, <1>5
    <2>2. t[1] = s[1] /\ t[Len(t)] = s[Len(s) - 1]
      BY <1>1, <1>2, <1>3, <2>1
    <2>3. Called(p, s[Len(s) - 1], s[Len(s)])
      BY <1>1, <1>2, <2>1 DEF StackOK
    <2>4. ASSUME NEW k \in 1 .. Len(t) - 1 PROVE Called(p, t[k], t[k + 1])
      <3>1. k \in 1 .. Len(s) - 1 /\ t[k] = s[k] /\ t[k + 1] = s[k + 1]
        BY <1>1, <1>2, <1>3
      <3> QED
        BY <3>1 DEF StackOK
    <2>5. StackOK(p, t)
      BY <1>1, <1>2, <2>2, <2>4 DEF StackOK
    <2> QED
      BY <1>5, <2>2, <2>3, <2>5 DEF t
  <1> QED
    BY <1>4, <1>5

LEMMA StackCursor ==
    ASSUME NEW p, WellFormed(p), NEW s, StackOK(p, s), s # <<>>, s[Len(s)].fn = "block",
           NEW c \in s[Len(s)].lo .. s[Len(s)].hi
    PROVE  LET t == [s EXCEPT ![Len(s)].cur = c]
           IN  /\ StackOK(p, t) /\ t # <<>> /\ Len(t) = Len(s)
               /\ t[Len(t)] = BlockAt(Block(s[Len(s)]), c)
  <1> DEFINE f == s[Len(s)]
             h == BlockAt(Block(f), c)
             t == [s EXCEPT ![Len(s)].cur = c]
  <1>1. s \in Seq(AllFrames(p)) /\ Len(s) \in Nat /\ Len(s) > 0 /\ f \in AllFrames(p)
    BY StackTop DEF StackOK
  <1>2. /\ Block(f) \in Blocks(p) /\ Block(f)[1] = f.lo /\ Block(f)[2] = f.hi /\ f = BlockAt(Block(f), f.cur)
        /\ f.lo \in Int /\ f.hi \in Int /\ 1 <= f.lo /\ f.hi <= p.n + 1 /\ p.n \in Nat
    BY <1>1, BlockFrameFacts DEF WellFormed
  <1>3. h.lo = f.lo /\ h.hi = f.hi /\ h.cur = c /\ h.fn = "block"
    BY <1>2 DEF BlockAt
  <1>4. h \in AllFrames(p) /\ Block(h) = Block(f)
    <2>1. c \in 1 .. p.n + 1 /\ f.lo <= c /\ c <= f.hi
      BY <1>2
    <2>2. h \in {e \in {BlockAt(b, x) : b \in Blocks(p), x \in 1 .. p.n + 1} : e.lo <= e.cur /\ e.cur <= e.hi}
      BY <1>2, <1>3, <2>1
    <2> QED
      BY <1>3, <2>2 DEF AllFrames, Block
  <1>5. [f EXCEPT !.cur = c] = h
    BY <1>2 DEF BlockAt
  <1> HIDE DEF h
  <1>6. t = [s EXCEPT ![Len(s)] = h]
    BY <1>5
  <1> HIDE DEF f
  <1>7. t \in Seq(AllFrames(p)) /\ Len(t) = Len(s) /\ t # <<>> /\ t[Len(t)] = h
    BY <1>1, <1>4, <1>6
  <1>8. \A k \in 1 .. Len(s) - 1 : t[k] = s[k]
    BY <1>1, <1>6
  <1> HIDE DEF t
  <1>9. t[1].fn = "block" /\ Block(t[1]) = BodyBlock(p)
    BY <1>1, <1>3, <1>4, <1>7, <1>8 DEF StackOK, f
  <1>10. ASSUME NEW k \in 1 .. Len(t) - 1 PROVE Called(p, t[k], t[k + 1])
    <2>1. k \in 1 .. Len(s) - 1 /\ t[k] = s[k] /\ Called(p, s[k], s[k + 1])
      BY <1>1, <1>7, <1>8 DEF StackOK
    <2>2. CASE k + 1 = Len(s)
      <3>1. s[k + 1] = f /\ t[k + 1] = h
        BY <1>7, <2>2 DEF f
      <3>2. s[k].fn # "block"
        BY <2>1, <3>1, <1>2 DEF Called, f
      <3> QED
        BY <2>1, <3>1, <3>2, <1>3, <1>4 DEF Called
    <2>3. CASE k + 1 # Len(s)
      <3>1. t[k + 1] = s[k + 1]
        BY <1>1, <1>8, <2>1, <2>3
      <3> QED
        BY <2>1, <3>1
    <2> QED
      BY <2>2, <2>3
  <1>11. StackOK(p, t)
    BY <1>7, <1>9, <1>10 DEF StackOK
  <1> QED
    BY <1>7, <1>11 DEF t, h, f

-----------------------------------------------------------------------------

LEMMA CtlFacts ==
    /\ \A k, a : Ctl(k, a).kind = k /\ Ctl(k, a).arg = a
    /\ Run.kind = "run" /\ Normal.kind = "normal" /\ Fault.kind = "error" /\ Internal.kind = "error"
    /\ Fault.arg = "runtime" /\ Internal.arg = "internal"
  BY DEF Ctl, Run, Normal, Fault, Internal

LEMMA JumpKindFacts ==
    ASSUME NEW p, NEW j \in OfKind(p, LoopKinds \cup {"goto"})
    PROVE  j \in Stmts(p) /\ p.kind[j] \in {"break", "continue", "goto"} /\ j \in OfKind(p, JumpKinds)
  BY DEF OfKind, LoopKinds, JumpKinds

(* What the innermost call and the control it was handed leave possible.   *)
LEMMA TopCases ==
    ASSUME NEW p, NEW s, NEW c, NEW x, NEW v, Phase(p, s, c, x, v), s # <<>>
    PROVE  LET f == s[Len(s)]
           IN  /\ c.kind = "run" => c = Run
               /\ c.kind = "normal" => c = Normal
               /\ c = Run /\ f.fn = "block" => Running(p, f, c, x, v)
               /\ c = Run /\ f.fn # "block" => Testing(p, f, c, v)
               /\ c = Normal /\ f.fn = "block" => StmtDone(p, f, c, x, v)
               /\ c = Normal /\ f.fn # "block" => ArmDone(p, f, c, x, v)
               /\ c # Run /\ c # Normal => Jumping(p, f, c, v) \/ Returning(p, f, c, v) \/ Failing(p, f, c)
  <1> DEFINE f == s[Len(s)]
  <1>1. \/ Running(p, f, c, x, v) \/ Testing(p, f, c, v) \/ StmtDone(p, f, c, x, v)
        \/ ArmDone(p, f, c, x, v) \/ Jumping(p, f, c, v) \/ Returning(p, f, c, v) \/ Failing(p, f, c)
    BY DEF Phase
  <1> HIDE DEF f
  <1>2. Running(p, f, c, x, v) => c.kind = "run" /\ c = Run /\ f.fn = "block"
    BY CtlFacts DEF Running
  <1>3. Testing(p, f, c, v) => c.kind = "run" /\ c = Run /\ f.fn # "block"
    BY CtlFacts DEF Testing
  <1>4. StmtDone(p, f, c, x, v) => c.kind = "normal" /\ c = Normal /\ f.fn = "block"
    BY CtlFacts DEF StmtDone
  <1>5. ArmDone(p, f, c, x, v) => c.kind = "normal" /\ c = Normal /\ f.fn # "block"
    BY CtlFacts DEF ArmDone
  <1>6. Jumping(p, f, c, v) => c.kind \in {"break", "continue", "goto"}
    BY CtlFacts, JumpKindFacts DEF Jumping
  <1>7. Returning(p, f, c, v) => c.kind = "return"
    BY CtlFacts DEF Returning
  <1>8. Failing(p, f, c) => c.kind = "error"
    BY CtlFacts DEF Failing
  <1>9. Run # Normal /\ (c = Run => c.kind = "run") /\ (c = Normal => c.kind = "normal")
    BY CtlFacts
  <1> QED
    BY <1>1, <1>2, <1>3, <1>4, <1>5, <1>6, <1>7, <1>8, <1>9 DEF f

LEMMA BlockAtFacts ==
    ASSUME NEW p, WellFormed(p), NEW b \in Blocks(p), NEW c
    PROVE  /\ Block(BlockAt(b, c)) = b /\ BlockAt(b, c).fn = "block" /\ BlockAt(b, c).cur = c
           /\ BlockAt(b, c).lo = b[1] /\ BlockAt(b, c).hi = b[2]
  <1>1. /\ BlockAt(b, c).fn = "block" /\ BlockAt(b, c).cur = c
        /\ BlockAt(b, c).lo = b[1] /\ BlockAt(b, c).hi = b[2]
    BY DEF BlockAt
  <1> QED
    BY <1>1, BlockBounds DEF Block

(* The top of a stack of the right shape decides the phase.                *)
LEMMA PhaseAtTop ==
    ASSUME NEW p, NEW s, NEW c, NEW x, NEW v, NEW f, s # <<>>, f = s[Len(s)],
           \/ Running(p, f, c, x, v) \/ Testing(p, f, c, v) \/ StmtDone(p, f, c, x, v)
           \/ ArmDone(p, f, c, x, v) \/ Jumping(p, f, c, v) \/ Returning(p, f, c, v) \/ Failing(p, f, c)
    PROVE  Phase(p, s, c, x, v)
  BY DEF Phase

(* A block entered at its beginning.                                       *)
LEMMA EnterBlock ==
    ASSUME NEW p, WellFormed(p), NEW b \in Blocks(p), NEW v, Enters(p, b, v)
    PROVE  Running(p, BlockFrame(b), Run, b[1], v)
  <1>1. b[1] \in Int /\ b[2] \in Int /\ b[1] <= b[2]
    BY BlockBounds
  <1>2. /\ BlockFrame(b).fn = "block" /\ Block(BlockFrame(b)) = b
        /\ BlockFrame(b).cur = b[1] /\ BlockFrame(b).lo = b[1] /\ BlockFrame(b).hi = b[2]
    BY NewFrames
  <1>3. b[1] = b[2] \/ (b[1] \in Stmts(p) /\ BlockOf(p, b[1]) = b)
    BY <1>1, FirstOfBlock
  <1>4. Ready(p, b, b[1], v)
    BY DEF Ready
  <1> QED
    BY <1>1, <1>2, <1>3, <1>4 DEF Running

(* Below an if or while call is the block that holds its statement.        *)
LEMMA CallBelow ==
    ASSUME NEW p, WellFormed(p), NEW s, StackOK(p, s), s # <<>>, s[Len(s)].fn # "block"
    PROVE  LET h == Front(s)[Len(Front(s))]
           IN  /\ StackOK(p, Front(s)) /\ Front(s) # <<>> /\ h.fn = "block" /\ h \in AllFrames(p)
               /\ Holds(p, h) /\ h.cur = s[Len(s)].stmt
  <1>1. StackOK(p, Front(s)) /\ Front(s) # <<>> /\ Called(p, Front(s)[Len(Front(s))], s[Len(s)])
    BY StackPop
  <1> QED
    BY <1>1, StackTop DEF Called

(* Below a block call, if anything, is the call that executes the block.   *)
LEMMA BlockBelow ==
    ASSUME NEW p, WellFormed(p), NEW s, StackOK(p, s), s # <<>>, s[Len(s)].fn = "block"
    PROVE  LET h == Front(s)[Len(Front(s))]
           IN  /\ StackOK(p, Front(s))
               /\ Front(s) = <<>> => Block(s[Len(s)]) = BodyBlock(p)
               /\ Front(s) # <<>> => h.fn # "block" /\ h \in AllFrames(p) /\ Block(s[Len(s)]) = Arm(p, h)
  <1>1. /\ StackOK(p, Front(s))
        /\ Front(s) = <<>> => Block(s[Len(s)]) = BodyBlock(p)
        /\ Front(s) # <<>> => Called(p, Front(s)[Len(Front(s))], s[Len(s)])
    BY StackPop
  <1> QED
    BY <1>1, StackTop DEF Called

(* A block call ends where its last statement has fallen out of it.        *)
LEMMA BlockReturns ==
    ASSUME NEW p, WellFormed(p), NEW s, StackOK(p, s), s # <<>>, s[Len(s)].fn = "block", NEW v,
           Ready(p, Block(s[Len(s)]), s[Len(s)].hi, v)
    PROVE  Phase(p, Front(s), Normal, s[Len(s)].hi, v)
  <1> DEFINE f == s[Len(s)]
             h == Front(s)[Len(Front(s))]
  <1>1. f \in AllFrames(p) /\ Block(f)[2] = f.hi
    BY StackTop, BlockFrameFacts
  <1>2. CASE Front(s) = <<>>
    <2>1. Block(f) = BodyBlock(p) /\ f.hi = p.n + 1
      BY <1>1, <1>2, BlockBelow DEF BodyBlock
    <2> QED
      BY <1>2, <2>1 DEF Phase, Ended
  <1>3. CASE Front(s) # <<>>
    <2>1. h.fn # "block" /\ h \in AllFrames(p) /\ Block(f) = Arm(p, h)
      BY <1>3, BlockBelow
    <2> HIDE DEF h, f
    <2>2. /\ h.stmt \in Composite(p) /\ Arm(p, h) \in Arms(p, h.stmt)
          /\ Arm(p, h) = ThenBlock(p, h.stmt) \/ Arm(p, h)[1] < Arm(p, h)[2]
      BY <2>1, CallFrameFacts
    <2>3. CASE h.fn = "if"
      <3>1. h.stmt \in OfKind(p, {"if"})
        BY <2>1, <2>3, CallFrameFacts
      <3>2. Leads(p, v, After(h.stmt))
        BY <1>1, <2>1, <2>2, <3>1, ArmFallsOut DEF f
      <3> QED
        BY <1>1, <1>3, <2>1, <2>3, <3>2, PhaseAtTop DEF ArmDone, h, f
    <2>4. CASE h.fn = "while"
      <3>1. h.stmt \in OfKind(p, {"while"}) /\ Arm(p, h) = ThenBlock(p, h.stmt)
        BY <2>1, <2>4, CallFrameFacts DEF Arm
      <3>2. Leads(p, v, At(h.stmt))
        BY <1>1, <2>1, <3>1, LoopBodyFallsOut DEF f
      <3> QED
        BY <1>3, <2>4, <3>2, PhaseAtTop DEF ArmDone, h, f
    <2> QED
      BY <2>1, <2>3, <2>4, CallFrameFacts
  <1> QED
    BY <1>2, <1>3

(* An if or while call that has led behind its statement.                  *)
LEMMA CallReturns ==
    ASSUME NEW p, WellFormed(p), NEW s, StackOK(p, s), s # <<>>, s[Len(s)].fn # "block", NEW v,
           Leads(p, v, After(s[Len(s)].stmt))
    PROVE  Phase(p, Front(s), Normal, p.end[s[Len(s)].stmt], v)
  <1> DEFINE h == Front(s)[Len(Front(s))]
  <1>1. Front(s) # <<>> /\ h.fn = "block" /\ Holds(p, h) /\ h.cur = s[Len(s)].stmt
    BY CallBelow
  <1>2. h.cur \in Composite(p)
    BY <1>1, StackTop, CallFrameFacts
  <1>3. StmtDone(p, h, Normal, p.end[s[Len(s)].stmt], v)
    BY <1>1, <1>2 DEF StmtDone
  <1> QED
    BY <1>1, <1>3, PhaseAtTop

LEMMA TargetFacts ==
    ASSUME NEW p, WellFormed(p), NEW j \in OfKind(p, LoopKinds \cup {"goto"})
    PROVE  /\ TargetBlock(p, j) \in Blocks(p)
           /\ p.kind[j] # "goto" => /\ p.jump[j] \in OfKind(p, {"while"}) /\ p.jump[j] \in Composite(p)
                                    /\ TargetBlock(p, j) = ThenBlock(p, p.jump[j])
                                    /\ TargetBlock(p, j) \in Arms(p, p.jump[j])
                                    /\ InBlock(j, TargetBlock(p, j))
           /\ p.kind[j] = "goto" => /\ p.jump[j] \in OfKind(p, {"label"}) /\ p.jump[j] \in Stmts(p)
                                    /\ TargetBlock(p, j) = BlockOf(p, p.jump[j])
                                    /\ InBlock(j, TargetBlock(p, j))
  <1>1. CASE p.kind[j] = "goto"
    <2>1. j \in OfKind(p, {"goto"})
      BY <1>1 DEF OfKind
    <2> QED
      BY <1>1, <2>1, GotoJumps DEF TargetBlock, OfKind
  <1>2. CASE p.kind[j] # "goto"
    <2>1. j \in OfKind(p, LoopKinds)
      BY <1>2 DEF OfKind
    <2>2. p.jump[j] \in OfKind(p, {"while"}) /\ InBlock(j, ThenBlock(p, p.jump[j]))
      BY <2>1, LoopJumps
    <2>3. p.jump[j] \in Composite(p)
      BY <2>2 DEF Composite, OfKind
    <2>4. ThenBlock(p, p.jump[j]) \in Arms(p, p.jump[j])
      BY DEF Arms
    <2> QED
      BY <1>2, <2>2, <2>3, <2>4, BlocksOf DEF TargetBlock
  <1> QED
    BY <1>1, <1>2

(* A jump leaves the call that executes an arm inside its target block.    *)
LEMMA JumpReturns ==
    ASSUME NEW p, WellFormed(p), NEW s, StackOK(p, s), s # <<>>, s[Len(s)].fn # "block", NEW x,
           NEW j \in OfKind(p, LoopKinds \cup {"goto"}),
           InBlock(j, Arm(p, s[Len(s)])), Inside(Arm(p, s[Len(s)]), TargetBlock(p, j)),
           Arm(p, s[Len(s)]) # TargetBlock(p, j)
    PROVE  Phase(p, Front(s), Ctl(p.kind[j], p.jump[j]), x, At(j))
  <1> DEFINE f == s[Len(s)]
             h == Front(s)[Len(Front(s))]
  <1>1. Front(s) # <<>> /\ h.fn = "block" /\ h \in AllFrames(p) /\ Holds(p, h) /\ h.cur = f.stmt
    BY CallBelow
  <1>2. f.stmt \in Composite(p) /\ f.stmt \in Stmts(p) /\ Arm(p, f) \in Arms(p, f.stmt)
    BY StackTop, CallFrameFacts
  <1>3. j \in Int
    BY Indices DEF OfKind
  <1>4. Inside(BlockOf(p, f.stmt), TargetBlock(p, j))
    BY <1>2, <1>3, TargetFacts, AroundArm
  <1>5. InBlock(j, BlockOf(p, f.stmt))
    <2>1. BlockOf(p, f.stmt) \in Blocks(p) /\ InBlock(f.stmt, BlockOf(p, f.stmt))
      BY <1>2, BlockOfFacts
    <2>2. Inside(Arm(p, f), BlockOf(p, f.stmt)) /\ Arm(p, f) \in Blocks(p)
      BY <1>2, <2>1, ArmInBlock
    <2> QED
      BY <1>3, <2>1, <2>2, BlockBounds DEF Inside, InBlock
  <1>6. Block(h) = BlockOf(p, f.stmt)
    BY <1>1 DEF Holds
  <1> HIDE DEF h, f
  <1>7. Jumping(p, h, Ctl(p.kind[j], p.jump[j]), At(j))
    BY <1>1, <1>4, <1>5, <1>6 DEF Jumping
  <1> QED
    BY <1>1, <1>7, PhaseAtTop DEF h

-----------------------------------------------------------------------------

(* What a node initialises.                                                *)
Gained(p, v) == IF v \in {At(i) : i \in Stmts(p)} THEN Writes(p, StmtAt(v)) ELSE {}

LEMMA GainedAt ==
    ASSUME NEW p, WellFormed(p)
    PROVE  /\ \A i \in Stmts(p) : Gained(p, At(i)) = Writes(p, i)
           /\ \A i \in Stmts(p) : Gained(p, After(i)) = {}
           /\ Gained(p, Exit(p)) = {} /\ Gained(p, Entry) = {}
  <1>1. \A i \in Stmts(p) : Gained(p, At(i)) = Writes(p, i)
    BY Indices, NodeNames DEF Gained
  <1>2. \A i, j \in Stmts(p) : After(i) # At(j)
    BY Indices DEF After, At
  <1>3. \A j \in Stmts(p) : Exit(p) # At(j) /\ Entry # At(j)
    BY Indices DEF Exit, At, Entry
  <1> QED
    BY <1>1, <1>2, <1>3 DEF Gained

LEMMA WritesType ==
    ASSUME NEW p, WellFormed(p), NEW i \in Stmts(p)
    PROVE  /\ Writes(p, i) \subseteq OfKind(p, {"def"}) /\ Writes(p, i) \subseteq Slots(p)
           /\ p.kind[i] \notin {"def", "assign", "read"} => Writes(p, i) = {}
  <1>1. p.kind[i] \in {"assign", "read"} => p.slot[i] \in OfKind(p, {"def"})
    BY DEF WellFormed, Visible
  <1> QED
    BY <1>1 DEF Writes, Slots, OfKind

(* A step stays at its node or takes an enabled edge, and what the slots   *)
(* gain is what the new node initialises.                                  *)
Moves ==
    \/ at' = at /\ written' = written
    \/ Leads(prog, at, at') /\ written' = written \cup Gained(prog, at')

Kept ==
    /\ prog' = prog
    /\ next' \in 1 .. prog.n + 1
    /\ StackOK(prog, stack')
    /\ Phase(prog, stack', ctl', next', at')
    /\ Moves

LEMMA LeaveBlockKept == ASSUME ExecInv, LeaveBlock PROVE Kept
  <1> DEFINE f == stack[Len(stack)]
  <1>1. /\ stack # <<>> /\ f.fn = "block" /\ ctl = Run /\ (next < f.lo \/ next >= f.hi)
        /\ stack' = Front(stack) /\ ctl' = Normal /\ prog' = prog /\ next' = next /\ at' = at /\ written' = written
    BY DEF LeaveBlock, InBlockCall, OutOfBlock, Top, Last, Return
  <1>2. Running(prog, f, ctl, next, at)
    BY <1>1, TopCases DEF ExecInv
  <1>3. f.lo \in Int /\ f.hi \in Int
    BY <1>1, StackTop, BlockFrameFacts DEF ExecInv
  <1> HIDE DEF f
  <1>4. next = f.hi /\ Ready(prog, Block(f), f.hi, at)
    BY <1>1, <1>2, <1>3 DEF Running
  <1>5. Phase(prog, stack', ctl', next', at')
    BY <1>1, <1>4, BlockReturns DEF ExecInv, f
  <1>6. StackOK(prog, stack')
    BY <1>1, StackPop DEF ExecInv
  <1> QED
    BY <1>1, <1>5, <1>6 DEF Kept, Moves, ExecInv

LEMMA SkipStmtKept == ASSUME ExecInv, SkipStmt PROVE Kept
  <1> DEFINE f == stack[Len(stack)]
             c == prog.end[f.cur]
  <1>1. /\ stack # <<>> /\ f.fn = "block" /\ ctl = Run /\ ~(next < f.lo \/ next >= f.hi) /\ next >= c
        /\ stack' = [stack EXCEPT ![Len(stack)].cur = c]
        /\ ctl' = Run /\ prog' = prog /\ next' = next /\ at' = at /\ written' = written
    BY DEF SkipStmt, InBlockCall, OutOfBlock, Top, Last, Cursor
  <1>2. Running(prog, f, ctl, next, at)
    BY <1>1, TopCases DEF ExecInv
  <1>3. /\ f.lo \in Int /\ f.hi \in Int /\ f.cur \in Int /\ Block(f) \in Blocks(prog) /\ f.lo <= f.cur
        /\ Block(f)[1] = f.lo /\ Block(f)[2] = f.hi
    BY <1>1, StackTop, BlockFrameFacts DEF ExecInv
  <1> HIDE DEF f
  <1>4. f.lo <= next /\ next < f.hi /\ next \in Stmts(prog) /\ BlockOf(prog, next) = Block(f) /\ next \in Int
    BY <1>1, <1>2, <1>3 DEF Running
  <1>5. f.cur # next
    <2>1. next < prog.end[next]
      BY <1>4, Indices DEF ExecInv
    <2> QED
      BY <1>1, <1>4, <2>1, Indices DEF ExecInv
  <1>6. f.cur \in Stmts(prog) /\ BlockOf(prog, f.cur) = Block(f) /\ f.cur < next
    BY <1>2, <1>5 DEF Running, Holds
  <1>7. c \in Int /\ f.cur < c
    BY <1>6, Indices DEF ExecInv
  <1>8. c # next => c \in Stmts(prog) /\ BlockOf(prog, c) = Block(f)
    BY <1>1, <1>3, <1>4, <1>6, <1>7, NextSibling DEF ExecInv
  <1>9. c \in f.lo .. f.hi
    BY <1>1, <1>3, <1>4, <1>6, <1>7
  <1> HIDE DEF c
  <1>10. StackOK(prog, stack') /\ stack' # <<>> /\ stack'[Len(stack')] = BlockAt(Block(f), c)
    BY <1>1, <1>9, StackCursor DEF ExecInv, f
  <1>11. Running(prog, BlockAt(Block(f), c), Run, next, at)
    BY <1>1, <1>2, <1>3, <1>4, <1>7, <1>8, BlockAtFacts DEF Running, Holds, ExecInv
  <1>12. Phase(prog, stack', ctl', next', at')
    BY <1>1, <1>10, <1>11, PhaseAtTop
  <1> QED
    BY <1>1, <1>10, <1>12 DEF Kept, Moves, ExecInv

(* The statement the loop of a block calls is the one at the cursor: the   *)
(* executor never looks for a statement inside an if or a while.           *)
LEMMA Dispatched ==
    ASSUME ExecInv, NEW i \in Stmts(prog), Dispatch(i)
    PROVE  LET f == stack[Len(stack)]
           IN  /\ stack # <<>> /\ f.fn = "block" /\ f \in AllFrames(prog) /\ ctl = Run
               /\ next = i /\ f.cur = i /\ Holds(prog, f) /\ BlockOf(prog, i) = Block(f)
               /\ Leads(prog, at, At(i))
  <1> DEFINE f == stack[Len(stack)]
  <1>1. /\ stack # <<>> /\ f.fn = "block" /\ ctl = Run /\ ~(next < f.lo \/ next >= f.hi)
        /\ i = f.cur /\ next < prog.end[i]
    BY DEF Dispatch, InBlockCall, OutOfBlock, Top, Last
  <1>2. Running(prog, f, ctl, next, at)
    BY <1>1, TopCases DEF ExecInv
  <1>3. f.lo \in Int /\ f.hi \in Int /\ f.cur \in Int /\ f \in AllFrames(prog)
    BY <1>1, StackTop, BlockFrameFacts DEF ExecInv
  <1> HIDE DEF f
  <1>4. next < f.hi /\ next \in Stmts(prog) /\ BlockOf(prog, next) = Block(f) /\ next \in Int
    BY <1>1, <1>2, <1>3 DEF Running
  <1>5. next = i
    <2> SUFFICES ASSUME next # i PROVE FALSE
      OBVIOUS
    <2>1. BlockOf(prog, i) = Block(f) /\ i < next
      BY <1>1, <1>2 DEF Running, Holds
    <2>2. prog.end[i] <= next
      BY <1>4, <2>1, SiblingsApart DEF ExecInv
    <2> QED
      BY <1>1, <1>4, <2>2, Indices DEF ExecInv
  <1>6. Holds(prog, f)
    BY <1>1, <1>4, <1>5 DEF Holds
  <1>7. Leads(prog, at, At(i))
    BY <1>2, <1>4, <1>5, EnabledInto DEF Running, ExecInv
  <1> QED
    BY <1>1, <1>3, <1>4, <1>5, <1>6, <1>7 DEF f

LEMMA DoSimpleKept == ASSUME ExecInv, NEW i \in Stmts(prog), DoSimple(i) PROVE Kept
  <1> DEFINE f == stack[Len(stack)]
  <1>1. /\ Dispatch(i) /\ prog.kind[i] \notin {"if", "while"} /\ next' = next + 1
        /\ ctl' = IF prog.kind[i] \in JumpKinds THEN Ctl(prog.kind[i], prog.jump[i]) ELSE Normal
        /\ at' = At(i) /\ written' = written \cup Writes(prog, i) /\ stack' = stack /\ prog' = prog
    BY DEF DoSimple
  <1>2. /\ stack # <<>> /\ f.fn = "block" /\ f \in AllFrames(prog) /\ next = i /\ f.cur = i /\ Holds(prog, f)
        /\ BlockOf(prog, i) = Block(f) /\ Leads(prog, at, At(i))
    BY <1>1, Dispatched
  <1> HIDE DEF f
  <1>3. /\ prog.end[i] = i + 1 /\ i \in Nat /\ i <= prog.n /\ prog.n \in Nat /\ prog.kind[i] \in Kinds
        /\ InBlock(i, Block(f))
    BY <1>1, <1>2, Indices, BlockOfFacts DEF ExecInv
  <1>4. Phase(prog, stack', ctl', next', at')
    <2>1. CASE prog.kind[i] \notin JumpKinds
      <3>1. StmtDone(prog, f, Normal, i + 1, At(i))
        BY <1>1, <1>2, <1>3, <2>1 DEF StmtDone
      <3> QED
        BY <1>1, <1>2, <2>1, <3>1, PhaseAtTop DEF f
    <2>2. CASE prog.kind[i] \in LoopKinds \cup {"goto"}
      <3>1. i \in OfKind(prog, LoopKinds \cup {"goto"}) /\ prog.kind[i] \in JumpKinds
        BY <2>2 DEF OfKind, JumpKinds
      <3>2. TargetBlock(prog, i) \in Blocks(prog) /\ InBlock(i, TargetBlock(prog, i))
        BY <3>1, TargetFacts DEF ExecInv
      <3>3. Inside(Block(f), TargetBlock(prog, i))
        BY <1>2, <3>2, BlockOfFacts DEF ExecInv
      <3>4. Jumping(prog, f, Ctl(prog.kind[i], prog.jump[i]), At(i))
        BY <1>2, <1>3, <3>1, <3>3 DEF Jumping
      <3> QED
        BY <1>1, <1>2, <3>1, <3>4, PhaseAtTop DEF f
    <2>3. CASE prog.kind[i] = "return"
      <3>1. i \in OfKind(prog, {"return"}) /\ prog.kind[i] \in JumpKinds
        BY <2>3 DEF OfKind, JumpKinds
      <3>2. Returning(prog, f, Ctl("return", prog.jump[i]), At(i))
        BY <1>2, <3>1 DEF Returning
      <3> QED
        BY <1>1, <1>2, <2>3, <3>1, <3>2, PhaseAtTop DEF f
    <2> QED
      BY <1>1, <1>3, <2>1, <2>2, <2>3 DEF Kinds, JumpKinds
  <1>5. Moves
    BY <1>1, <1>2, GainedAt DEF Moves, ExecInv
  <1> QED
    BY <1>1, <1>2, <1>3, <1>4, <1>5 DEF Kept, ExecInv

LEMMA FailStatementKept == ASSUME ExecInv, NEW i \in Stmts(prog), FailStatement(i) PROVE Kept
  <1>1. /\ Dispatch(i) /\ next' = next + 1 /\ ctl' = Fault
        /\ at' = at /\ written' = written /\ stack' = stack /\ prog' = prog
    BY DEF FailStatement
  <1>2. stack # <<>> /\ next = i
    BY <1>1, Dispatched
  <1>3. i \in Nat /\ i <= prog.n /\ 1 <= i /\ prog.n \in Nat
    BY Indices DEF ExecInv
  <1>4. Phase(prog, stack', ctl', next', at')
    BY <1>1, <1>2, PhaseAtTop DEF Failing
  <1> QED
    BY <1>1, <1>2, <1>3, <1>4 DEF Kept, Moves, ExecInv

LEMMA DoIfKept == ASSUME ExecInv, NEW i \in Stmts(prog), DoIf(i) PROVE Kept
  <1> DEFINE f == stack[Len(stack)]
  <1>0. WellFormed(prog) /\ StackOK(prog, stack)
    BY DEF ExecInv
  <1>1. Dispatch(i) /\ prog.kind[i] = "if" /\ prog' = prog /\ written' = written
    BY DEF DoIf
  <1>2. /\ stack # <<>> /\ f.fn = "block" /\ f \in AllFrames(prog) /\ next = i /\ f.cur = i /\ Holds(prog, f)
        /\ BlockOf(prog, i) = Block(f) /\ Leads(prog, at, At(i))
    BY <1>1, Dispatched
  <1>3. PICK holds \in Outcomes(prog, i) :
          LET b == IF holds THEN ThenBlock(prog, i) ELSE ElseBlock(prog, i)
          IN  /\ next' = b[1] /\ at' = At(i)
              /\ IF ~holds /\ b[1] = b[2] THEN ctl' = Normal /\ stack' = stack
                 ELSE stack' = Append(Append(stack, IfFrame(i, holds)), BlockFrame(b)) /\ ctl' = ctl
    BY <1>2 DEF DoIf, Push
  <1> HIDE DEF f
  <1> DEFINE b == IF holds THEN ThenBlock(prog, i) ELSE ElseBlock(prog, i)
             h == IfFrame(i, holds)
  <1>4. i \in OfKind(prog, {"if"}) /\ i \in Composite(prog) /\ holds \in BOOLEAN
    BY <1>1 DEF Composite, OfKind, Outcomes
  <1>5. (holds => prog.cond[i] # "F") /\ (~holds => prog.cond[i] # "T")
    BY DEF Outcomes
  <1>6. b \in Arms(prog, i) /\ b \in Blocks(prog)
    BY <1>1, <1>4, BlocksOf DEF Arms
  <1>7. b[1] \in Int /\ b[2] \in Int /\ 1 <= b[1] /\ b[1] <= b[2] /\ b[2] <= prog.n + 1 /\ prog.n \in Nat
    BY <1>0, <1>6, BlockBounds, BlockInBody DEF Inside, BodyBlock, WellFormed
  <1>8. Moves
    <2>1. Writes(prog, i) = {}
      BY <1>0, <1>1, WritesType
    <2> QED
      BY <1>0, <1>1, <1>2, <1>3, <2>1, GainedAt DEF Moves
  <1>9. CASE ~holds /\ b[1] = b[2]
    <2>1. ctl' = Normal /\ stack' = stack /\ next' = b[1] /\ at' = At(i)
      BY <1>3, <1>9
    <2>2. prog.mid[i] = prog.end[i] /\ b[1] = prog.end[i]
      BY <1>9 DEF ElseBlock
    <2>3. Leads(prog, At(i), After(i))
      BY <1>0, <1>4, <1>5, <1>9, <2>2, SkipsArms
    <2>4. StmtDone(prog, f, Normal, b[1], At(i))
      BY <1>2, <1>4, <2>2, <2>3 DEF StmtDone
    <2>5. Phase(prog, stack', ctl', next', at')
      BY <1>2, <2>1, <2>4, PhaseAtTop DEF f
    <2> QED
      BY <1>0, <1>1, <1>7, <1>8, <2>1, <2>5 DEF Kept
  <1>10. CASE ~(~holds /\ b[1] = b[2])
    <2>1. stack' = Append(Append(stack, h), BlockFrame(b)) /\ ctl' = Run /\ next' = b[1] /\ at' = At(i)
      BY <1>1, <1>2, <1>3, <1>10 DEF Dispatch
    <2>2. h.fn = "if" /\ h.stmt = i /\ h.arm = holds
      BY DEF IfFrame
    <2>3. h \in AllFrames(prog)
      <3>1. holds \/ prog.mid[i] < prog.end[i]
        BY <1>7, <1>10 DEF ElseBlock
      <3> QED
        BY <1>0, <1>4, <3>1, NewFrames
    <2>4. Called(prog, f, h)
      BY <1>2, <2>2 DEF Called
    <2> HIDE DEF h
    <2>5. StackOK(prog, Append(stack, h)) /\ Append(stack, h) # <<>> /\ Append(stack, h)[Len(Append(stack, h))] = h
      BY <1>0, <1>2, <2>3, <2>4, StackPush DEF f
    <2>6. BlockFrame(b) \in AllFrames(prog) /\ BlockFrame(b).fn = "block" /\ Block(BlockFrame(b)) = b
      BY <1>0, <1>6, NewFrames
    <2>7. Called(prog, h, BlockFrame(b))
      BY <1>4, <2>2, <2>6 DEF Called, Arm
    <2>8. StackOK(prog, stack') /\ stack' # <<>> /\ stack'[Len(stack')] = BlockFrame(b)
      BY <2>1, <2>5, <2>6, <2>7, StackPush
    <2>9. Enters(prog, b, At(i))
      BY <1>1, <1>4, <1>5, <1>6, <1>7, <1>10 DEF Enters
    <2>10. Running(prog, BlockFrame(b), Run, b[1], At(i))
      BY <1>0, <1>6, <2>9, EnterBlock
    <2>11. Phase(prog, stack', ctl', next', at')
      BY <2>1, <2>8, <2>10, PhaseAtTop
    <2> QED
      BY <1>1, <1>7, <1>8, <2>1, <2>8, <2>11 DEF Kept
  <1> QED
    BY <1>9, <1>10

LEMMA DoWhileKept == ASSUME ExecInv, NEW i \in Stmts(prog), DoWhile(i) PROVE Kept
  <1> DEFINE f == stack[Len(stack)]
             h == WhileFrame(i)
  <1>0. WellFormed(prog) /\ StackOK(prog, stack)
    BY DEF ExecInv
  <1>1. /\ Dispatch(i) /\ prog.kind[i] = "while"
        /\ prog' = prog /\ next' = next /\ at' = at /\ written' = written
    BY DEF DoWhile
  <1>2. /\ stack # <<>> /\ f.fn = "block" /\ ctl = Run /\ next = i /\ f.cur = i /\ Holds(prog, f)
        /\ Leads(prog, at, At(i))
    BY <1>1, Dispatched
  <1>3. stack' = Append(stack, h) /\ ctl' = Run
    BY <1>2 DEF DoWhile, Push
  <1>4. h.fn = "while" /\ h.stmt = i
    BY DEF WhileFrame
  <1>5. h \in AllFrames(prog)
    BY <1>0, <1>1, NewFrames DEF OfKind
  <1>6. Called(prog, f, h)
    BY <1>2, <1>4 DEF Called
  <1> HIDE DEF f, h
  <1>7. StackOK(prog, stack') /\ stack' # <<>> /\ stack'[Len(stack')] = h
    BY <1>0, <1>2, <1>3, <1>5, <1>6, StackPush DEF f
  <1>8. Testing(prog, h, Run, at)
    BY <1>2, <1>4 DEF Testing
  <1>9. Phase(prog, stack', ctl', next', at')
    BY <1>1, <1>3, <1>7, <1>8, PhaseAtTop
  <1> QED
    BY <1>1, <1>7, <1>9 DEF Kept, Moves, ExecInv

LEMMA LoopTestKept == ASSUME ExecInv, LoopTest PROVE Kept
  <1> DEFINE f == stack[Len(stack)]
             i == f.stmt
             b == ThenBlock(prog, i)
  <1>0. WellFormed(prog) /\ StackOK(prog, stack)
    BY DEF ExecInv
  <1>1. stack # <<>> /\ f.fn = "while" /\ ctl = Run /\ at' = At(i) /\ prog' = prog /\ written' = written
    BY DEF LoopTest, Top, Last
  <1>2. PICK holds \in Outcomes(prog, i) :
          IF holds THEN stack' = Append(stack, BlockFrame(b)) /\ next' = i + 1 /\ ctl' = ctl
          ELSE stack' = Front(stack) /\ ctl' = Normal /\ next' = prog.end[i]
    BY DEF LoopTest, Top, Last, Push, Return
  <1>3. Testing(prog, f, ctl, at)
    BY <1>1, TopCases DEF ExecInv
  <1>4. f \in AllFrames(prog)
    BY <1>0, <1>1, StackTop
  <1> HIDE DEF f
  <1>5. Leads(prog, at, At(i))
    BY <1>3 DEF Testing
  <1>6. /\ i \in OfKind(prog, {"while"}) /\ i \in Composite(prog) /\ i \in Stmts(prog) /\ Arm(prog, f) = b
        /\ b \in Arms(prog, i) /\ b \in Blocks(prog) /\ prog.kind[i] = "while"
    BY <1>0, <1>1, <1>4, CallFrameFacts DEF Arm, OfKind
  <1> HIDE DEF i
  <1>7. (holds => prog.cond[i] # "F") /\ (~holds => prog.cond[i] # "T")
    BY DEF Outcomes
  <1>8. Moves
    <2>1. Writes(prog, i) = {}
      BY <1>0, <1>6, WritesType
    <2> QED
      BY <1>0, <1>1, <1>5, <1>6, <2>1, GainedAt DEF Moves
  <1>9. CASE holds
    <2>1. stack' = Append(stack, BlockFrame(b)) /\ next' = b[1] /\ ctl' = Run
      BY <1>1, <1>2, <1>9 DEF ThenBlock
    <2>2. BlockFrame(b) \in AllFrames(prog) /\ BlockFrame(b).fn = "block" /\ Block(BlockFrame(b)) = b
      BY <1>0, <1>6, NewFrames
    <2>3. Called(prog, f, BlockFrame(b))
      BY <1>1, <1>6, <2>2 DEF Called
    <2>4. StackOK(prog, stack') /\ stack' # <<>> /\ stack'[Len(stack')] = BlockFrame(b)
      BY <1>0, <1>1, <2>1, <2>2, <2>3, StackPush DEF f
    <2>5. Enters(prog, b, At(i))
      BY <1>6, <1>7, <1>9 DEF Enters
    <2>6. Phase(prog, stack', ctl', next', at')
      BY <1>0, <1>1, <1>6, <2>1, <2>4, <2>5, EnterBlock, PhaseAtTop
    <2>7. b[1] \in Int /\ 1 <= b[1] /\ b[1] <= b[2] /\ b[2] \in Int /\ b[2] <= prog.n + 1 /\ prog.n \in Nat
      BY <1>0, <1>6, BlockBounds, BlockInBody DEF Inside, BodyBlock, WellFormed
    <2> QED
      BY <1>1, <1>8, <2>1, <2>4, <2>6, <2>7 DEF Kept
  <1>10. CASE ~holds
    <2>1. stack' = Front(stack) /\ ctl' = Normal /\ next' = prog.end[i]
      BY <1>2, <1>10
    <2>2. Leads(prog, At(i), After(i))
      BY <1>0, <1>6, <1>7, <1>10, SkipsArms
    <2>3. StackOK(prog, stack') /\ Phase(prog, stack', ctl', next', at')
      BY <1>0, <1>1, <2>1, <2>2, CallReturns, CallBelow DEF f, i
    <2>4. prog.end[i] \in Int /\ i < prog.end[i] /\ i \in Nat /\ prog.n \in Nat
      BY <1>0, <1>6, Indices
    <2>5. prog.end[i] <= prog.n + 1
      <3>1. BodyBlock(prog) \in Blocks(prog) /\ InBlock(i, BodyBlock(prog)) /\ BodyBlock(prog)[2] = prog.n + 1
        BY <1>0, <1>6, BlocksOf, Indices DEF BodyBlock, InBlock
      <3> QED
        BY <1>0, <1>6, <3>1, EndInBlock
    <2> QED
      BY <1>1, <1>8, <2>1, <2>3, <2>4, <2>5 DEF Kept
  <1> QED
    BY <1>9, <1>10

LEMMA EndInBody ==
    ASSUME NEW p, WellFormed(p), NEW i \in Stmts(p)
    PROVE  p.end[i] \in 1 .. p.n + 1
  <1>1. BodyBlock(p) \in Blocks(p) /\ InBlock(i, BodyBlock(p)) /\ BodyBlock(p)[2] = p.n + 1
    BY BlocksOf, Indices DEF BodyBlock, InBlock
  <1>2. p.end[i] <= p.n + 1
    BY <1>1, EndInBlock
  <1> QED
    BY <1>2, Indices

(* A return or an error passes through every call.                         *)
LEMMA ExitPasses ==
    ASSUME NEW p, WellFormed(p), NEW s, StackOK(p, s), s # <<>>, NEW c, NEW x, NEW v,
           Returning(p, s[Len(s)], c, v) \/ Failing(p, s[Len(s)], c)
    PROVE  Phase(p, Front(s), c, x, v)
  <1> DEFINE h == Front(s)[Len(Front(s))]
  <1>1. CASE Front(s) = <<>>
    BY <1>1 DEF Phase, Ended, Returning, Failing
  <1>2. CASE Front(s) # <<>>
    <2>1. h.fn = "block" => Holds(p, h)
      <3>1. CASE s[Len(s)].fn = "block"
        BY <1>2, <3>1, BlockBelow
      <3>2. CASE s[Len(s)].fn # "block"
        BY <3>2, CallBelow
      <3> QED
        BY <3>1, <3>2
    <2>2. Returning(p, h, c, v) \/ Failing(p, h, c)
      BY <2>1 DEF Returning, Failing
    <2> QED
      BY <1>2, <2>2, PhaseAtTop
  <1> QED
    BY <1>1, <1>2

LEMMA FailLoopTestKept == ASSUME ExecInv, FailLoopTest PROVE Kept
  <1>0. WellFormed(prog) /\ StackOK(prog, stack)
    BY DEF ExecInv
  <1>1. /\ stack # <<>> /\ stack[Len(stack)].fn = "while" /\ stack' = Front(stack) /\ ctl' = Fault
        /\ prog' = prog /\ next' = next /\ at' = at /\ written' = written
    BY DEF FailLoopTest, Return, Top, Last
  <1>2. StackOK(prog, stack')
    BY <1>0, <1>1, CallBelow
  <1>3. Phase(prog, stack', ctl', next', at')
    BY <1>0, <1>1, ExitPasses DEF Failing
  <1> QED
    BY <1>1, <1>2, <1>3 DEF Kept, Moves, ExecInv

LEMMA EndIfKept == ASSUME ExecInv, EndIf PROVE Kept
  <1> DEFINE f == stack[Len(stack)]
             i == f.stmt
  <1>0. WellFormed(prog) /\ StackOK(prog, stack)
    BY DEF ExecInv
  <1>1. /\ stack # <<>> /\ f.fn = "if" /\ ctl # Run /\ stack' = Front(stack) /\ ctl' = ctl
        /\ next' = (IF ctl = Normal /\ f.arm /\ next = prog.mid[i] THEN prog.end[i] ELSE next)
        /\ prog' = prog /\ at' = at /\ written' = written
    BY DEF EndIf, Top, Last, Return
  <1>2. f \in AllFrames(prog) /\ StackOK(prog, stack')
    BY <1>0, <1>1, StackTop, CallBelow
  <1>3. /\ i \in Stmts(prog) /\ i \in Composite(prog) /\ i \in OfKind(prog, {"if"}) /\ f.arm \in BOOLEAN
        /\ Arm(prog, f) \in Arms(prog, i)
    BY <1>0, <1>1, <1>2, CallFrameFacts
  <1>4. CASE ctl = Normal
    <2>1. ArmDone(prog, f, ctl, next, at)
      BY <1>1, <1>4, TopCases, CtlFacts DEF ExecInv
    <2> HIDE DEF f
    <2>2. next = Arm(prog, f)[2] /\ Leads(prog, at, After(i))
      BY <1>1, <2>1 DEF ArmDone
    <2>3. next' = prog.end[i]
      BY <1>1, <1>3, <1>4, <2>2 DEF Arm, ThenBlock, ElseBlock
    <2>4. Phase(prog, stack', ctl', next', at')
      BY <1>0, <1>1, <1>4, <2>2, <2>3, CallReturns DEF f, i
    <2> QED
      BY <1>0, <1>1, <1>2, <1>3, <2>3, <2>4, EndInBody DEF Kept, Moves
  <1>5. CASE ctl # Normal
    <2>1. Jumping(prog, f, ctl, at) \/ Returning(prog, f, ctl, at) \/ Failing(prog, f, ctl)
      BY <1>1, <1>5, TopCases DEF ExecInv
    <2>2. next' = next
      BY <1>1, <1>5
    <2>3. Phase(prog, stack', ctl', next', at')
      <3>1. CASE Jumping(prog, f, ctl, at)
        <4>1. PICK j \in OfKind(prog, LoopKinds \cup {"goto"}) :
                /\ ctl = Ctl(prog.kind[j], prog.jump[j]) /\ at = At(j)
                /\ InBlock(j, Arm(prog, f)) /\ Inside(Arm(prog, f), TargetBlock(prog, j))
                /\ prog.kind[j] = "goto" => Arm(prog, f) # TargetBlock(prog, j)
          BY <1>1, <3>1 DEF Jumping
        <4>2. Arm(prog, f) # TargetBlock(prog, j)
          <5> SUFFICES ASSUME prog.kind[j] # "goto", Arm(prog, f) = TargetBlock(prog, j) PROVE FALSE
            BY <4>1
          <5>1. /\ prog.jump[j] \in OfKind(prog, {"while"}) /\ prog.jump[j] \in Composite(prog)
                /\ Arm(prog, f) \in Arms(prog, prog.jump[j])
            BY <1>0, TargetFacts
          <5>2. Arm(prog, f)[1] < Arm(prog, f)[2]
            <6>1. j \in Int
              BY <1>0, Indices DEF OfKind
            <6>2. Arm(prog, f)[1] \in Int /\ Arm(prog, f)[2] \in Int
              BY <1>0, <1>3, ArmBounds
            <6> QED
              BY <4>1, <6>1, <6>2 DEF InBlock
          <5>3. i = prog.jump[j]
            BY <1>0, <1>3, <5>1, <5>2, OneOwner
          <5> QED
            BY <1>3, <5>1, <5>3 DEF OfKind
        <4> QED
          BY <1>0, <1>1, <2>2, <4>1, <4>2, JumpReturns
      <3>2. CASE Returning(prog, f, ctl, at) \/ Failing(prog, f, ctl)
        BY <1>0, <1>1, <3>2, ExitPasses
      <3> QED
        BY <2>1, <3>1, <3>2
    <2> QED
      BY <1>1, <1>2, <2>2, <2>3 DEF Kept, Moves, ExecInv
  <1> QED
    BY <1>4, <1>5

LEMMA EndLoopBodyKept == ASSUME ExecInv, EndLoopBody PROVE Kept
  <1> DEFINE f == stack[Len(stack)]
             w == f.stmt
  <1>0. WellFormed(prog) /\ StackOK(prog, stack)
    BY DEF ExecInv
  <1>1. /\ stack # <<>> /\ f.fn = "while" /\ ctl # Run /\ prog' = prog /\ at' = at /\ written' = written
        /\ CASE ctl = Ctl("break", w) -> stack' = Front(stack) /\ ctl' = Normal /\ next' = prog.end[w]
             [] ctl = Ctl("continue", w) \/ ctl = Normal -> ctl' = Run /\ stack' = stack /\ next' = next
             [] OTHER -> stack' = Front(stack) /\ ctl' = ctl /\ next' = next
    BY DEF EndLoopBody, Top, Last, Return
  <1>2. f \in AllFrames(prog) /\ StackOK(prog, Front(stack))
    BY <1>0, <1>1, StackTop, CallBelow
  <1>3. /\ w \in Stmts(prog) /\ w \in Composite(prog) /\ w \in OfKind(prog, {"while"})
        /\ Arm(prog, f) \in Arms(prog, w)
    BY <1>0, <1>1, <1>2, CallFrameFacts
  <1>4. CASE ctl = Normal
    <2>1. ArmDone(prog, f, ctl, next, at)
      BY <1>1, <1>4, TopCases, CtlFacts DEF ExecInv
    <2>2. ctl' = Run /\ stack' = stack /\ next' = next
      BY <1>1, <1>4, CtlFacts
    <2> HIDE DEF f
    <2>3. Testing(prog, f, Run, at)
      BY <1>1, <2>1 DEF ArmDone, Testing
    <2>4. Phase(prog, stack', ctl', next', at')
      BY <1>1, <2>2, <2>3, PhaseAtTop DEF f
    <2> QED
      BY <1>0, <1>1, <2>2, <2>4 DEF Kept, Moves, ExecInv
  <1>5. CASE ctl # Normal
    <2>1. Jumping(prog, f, ctl, at) \/ Returning(prog, f, ctl, at) \/ Failing(prog, f, ctl)
      BY <1>1, <1>5, TopCases DEF ExecInv
    <2>2. CASE Jumping(prog, f, ctl, at)
      <3>1. PICK j \in OfKind(prog, LoopKinds \cup {"goto"}) :
              /\ ctl = Ctl(prog.kind[j], prog.jump[j]) /\ at = At(j)
              /\ InBlock(j, Arm(prog, f)) /\ Inside(Arm(prog, f), TargetBlock(prog, j))
              /\ prog.kind[j] = "goto" => Arm(prog, f) # TargetBlock(prog, j)
        BY <1>1, <2>2 DEF Jumping
      <3>2. j \in OfKind(prog, JumpKinds) /\ prog.kind[j] \in {"break", "continue", "goto"}
        BY JumpKindFacts
      <3>3. ctl.kind = prog.kind[j] /\ ctl.arg = prog.jump[j]
        BY <3>1, CtlFacts
      <3>4. CASE prog.kind[j] = "break" /\ prog.jump[j] = w
        <4>1. stack' = Front(stack) /\ ctl' = Normal /\ next' = prog.end[w]
          BY <1>1, <3>1, <3>3, <3>4, CtlFacts
        <4>2. Leads(prog, at, After(w))
          BY <1>0, <3>1, <3>2, <3>4, JumpLeads
        <4>3. Phase(prog, stack', ctl', next', at')
          BY <1>0, <1>1, <4>1, <4>2, CallReturns
        <4> QED
          BY <1>0, <1>1, <1>2, <1>3, <4>1, <4>3, EndInBody DEF Kept, Moves
      <3>5. CASE prog.kind[j] = "continue" /\ prog.jump[j] = w
        <4>1. ctl' = Run /\ stack' = stack /\ next' = next
          BY <1>1, <3>1, <3>5, CtlFacts
        <4>2. Leads(prog, at, At(w))
          BY <1>0, <3>1, <3>2, <3>5, JumpLeads
        <4>3. Testing(prog, f, Run, at)
          BY <1>1, <4>2 DEF Testing
        <4>4. Phase(prog, stack', ctl', next', at')
          BY <1>1, <4>1, <4>3, PhaseAtTop
        <4> QED
          BY <1>0, <1>1, <4>1, <4>4 DEF Kept, Moves, ExecInv
      <3>6. CASE prog.kind[j] = "goto" \/ prog.jump[j] # w
        <4>1. ctl # Ctl("break", w) /\ ctl # Ctl("continue", w)
          BY <3>3, <3>6, CtlFacts
        <4>2. stack' = Front(stack) /\ ctl' = ctl /\ next' = next
          BY <1>1, <1>5, <4>1
        <4>3. Arm(prog, f) # TargetBlock(prog, j)
          <5> SUFFICES ASSUME prog.kind[j] # "goto", Arm(prog, f) = TargetBlock(prog, j) PROVE FALSE
            BY <3>1
          <5>1. prog.jump[j] \in Composite(prog) /\ Arm(prog, f) \in Arms(prog, prog.jump[j])
            BY <1>0, TargetFacts
          <5>2. Arm(prog, f)[1] < Arm(prog, f)[2]
            <6>1. j \in Int
              BY <1>0, Indices DEF OfKind
            <6>2. Arm(prog, f)[1] \in Int /\ Arm(prog, f)[2] \in Int
              BY <1>0, <1>3, ArmBounds
            <6> QED
              BY <3>1, <6>1, <6>2 DEF InBlock
          <5>3. w = prog.jump[j]
            BY <1>0, <1>3, <5>1, <5>2, OneOwner
          <5> QED
            BY <3>6, <5>3
        <4>4. Phase(prog, stack', ctl', next', at')
          BY <1>0, <1>1, <3>1, <4>2, <4>3, JumpReturns
        <4> QED
          BY <1>1, <1>2, <4>2, <4>4 DEF Kept, Moves, ExecInv
      <3> QED
        BY <3>2, <3>4, <3>5, <3>6
    <2>3. CASE Returning(prog, f, ctl, at) \/ Failing(prog, f, ctl)
      <3>1. ctl.kind \in {"return", "error"}
        BY <2>3, CtlFacts DEF Returning, Failing
      <3>2. stack' = Front(stack) /\ ctl' = ctl /\ next' = next
        BY <1>1, <1>5, <3>1, CtlFacts
      <3>3. Phase(prog, stack', ctl', next', at')
        BY <1>0, <1>1, <2>3, <3>2, ExitPasses
      <3> QED
        BY <1>1, <1>2, <3>2, <3>3 DEF Kept, Moves, ExecInv
    <2> QED
      BY <2>1, <2>2, <2>3
  <1> QED
    BY <1>4, <1>5

LEMMA ResumeBlockKept == ASSUME ExecInv, ResumeBlock PROVE Kept
  <1> DEFINE f == stack[Len(stack)]
  <1>0. WellFormed(prog) /\ StackOK(prog, stack) /\ prog.n \in Nat
    BY DEF ExecInv, WellFormed
  <1>1. stack # <<>> /\ f.fn = "block" /\ ctl # Run /\ prog' = prog /\ written' = written
    BY DEF ResumeBlock, InBlockCall, Top, Last
  <1>2. /\ f \in AllFrames(prog) /\ StackOK(prog, Front(stack))
        /\ Block(f) \in Blocks(prog) /\ Block(f)[1] = f.lo /\ Block(f)[2] = f.hi
        /\ f.lo \in Int /\ f.hi \in Int /\ 1 <= f.lo /\ f.hi <= prog.n + 1 /\ f.lo <= f.hi
    BY <1>0, <1>1, StackTop, BlockFrameFacts, BlockBelow
  <1>3. CASE ctl.kind = "goto" /\ f.lo <= ctl.arg /\ ctl.arg < f.hi
    <2>1. /\ next' = ctl.arg + 1 /\ at' = At(ctl.arg) /\ ctl' = Run
          /\ stack' = [stack EXCEPT ![Len(stack)].cur = f.lo]
      BY <1>3 DEF ResumeBlock, Top, Last, Cursor
    <2>2. Jumping(prog, f, ctl, at)
      <3>1. ctl # Normal
        BY <1>3, CtlFacts
      <3>2. Jumping(prog, f, ctl, at) \/ Returning(prog, f, ctl, at) \/ Failing(prog, f, ctl)
        BY <1>1, <3>1, TopCases DEF ExecInv
      <3> QED
        BY <1>3, <3>2, CtlFacts DEF Returning, Failing
    <2> HIDE DEF f
    <2>3. PICK j \in OfKind(prog, LoopKinds \cup {"goto"}) :
            /\ ctl = Ctl(prog.kind[j], prog.jump[j]) /\ at = At(j)
            /\ InBlock(j, Block(f)) /\ Inside(Block(f), TargetBlock(prog, j))
      BY <1>1, <2>2 DEF Jumping
    <2> DEFINE l == prog.jump[j]
    <2>4. prog.kind[j] = "goto" /\ ctl.arg = l
      BY <1>3, <2>3, CtlFacts
    <2>5. l \in OfKind(prog, {"label"}) /\ l \in Stmts(prog) /\ TargetBlock(prog, j) = BlockOf(prog, l)
      BY <1>0, <2>4, TargetFacts
    <2>6. l \in Nat /\ prog.kind[l] = "label" /\ prog.end[l] = l + 1
      BY <1>0, <2>5, Indices DEF OfKind
    <2> HIDE DEF l
    <2>7. BlockOf(prog, l) = Block(f)
      <3>1. InBlock(l, Block(f))
        BY <1>2, <1>3, <2>4 DEF InBlock
      <3>2. Inside(BlockOf(prog, l), Block(f)) /\ BlockOf(prog, l) \in Blocks(prog)
        BY <1>0, <1>2, <2>5, <3>1, BlockOfFacts
      <3> QED
        BY <1>0, <1>2, <2>3, <2>5, <3>2, InsideBoth
    <2>8. l + 1 = f.hi \/ (l + 1 \in Stmts(prog) /\ BlockOf(prog, l + 1) = Block(f))
      BY <1>0, <1>2, <1>3, <2>4, <2>5, <2>6, <2>7, NextSibling
    <2>9. f.lo \in Stmts(prog) /\ BlockOf(prog, f.lo) = Block(f)
      BY <1>0, <1>2, <1>3, <2>4, <2>6, FirstOfBlock
    <2>10. StackOK(prog, stack') /\ stack' # <<>> /\ stack'[Len(stack')] = BlockAt(Block(f), f.lo)
      <3>1. f.lo \in f.lo .. f.hi
        BY <1>2
      <3> QED
        BY <1>0, <1>1, <2>1, <3>1, StackCursor DEF f
    <2>11. Ready(prog, Block(f), l + 1, At(l))
      BY <2>5, <2>6, <2>7 DEF Ready, Out, JumpKinds, LoopKinds
    <2>12. Running(prog, BlockAt(Block(f), f.lo), Run, l + 1, At(l))
      <3>1. l + 1 \in f.lo .. f.hi /\ f.lo < l + 1
        BY <1>2, <1>3, <2>4, <2>6
      <3> QED
        BY <1>0, <1>2, <2>8, <2>9, <2>11, <3>1, BlockAtFacts DEF Running, Holds
    <2>13. Phase(prog, stack', ctl', next', at')
      BY <2>1, <2>4, <2>10, <2>12, PhaseAtTop
    <2>14. Moves
      <3>1. j \in OfKind(prog, JumpKinds)
        BY JumpKindFacts
      <3>2. Leads(prog, at, At(l))
        BY <1>0, <2>3, <2>4, <3>1, JumpLeads DEF l
      <3>3. Gained(prog, At(l)) = {}
        BY <1>0, <2>5, <2>6, GainedAt, WritesType
      <3> QED
        BY <1>1, <2>1, <2>4, <3>2, <3>3 DEF Moves
    <2>15. next' \in 1 .. prog.n + 1
      BY <1>0, <1>2, <1>3, <2>1, <2>4, <2>6
    <2> QED
      BY <1>1, <2>10, <2>13, <2>14, <2>15 DEF Kept
  <1>4. CASE ctl.kind = "normal"
    <2> DEFINE i == f.cur
    <2>1. /\ IF next < f.lo \/ next >= f.hi THEN stack' = Front(stack) /\ ctl' = Normal
             ELSE /\ ctl' = Run
                  /\ stack' = [stack EXCEPT ![Len(stack)].cur = IF next = prog.end[i] THEN prog.end[i] ELSE f.lo]
          /\ at' = (IF prog.kind[i] \in {"if", "while"} THEN After(i) ELSE at)
          /\ next' = next
      BY <1>4 DEF ResumeBlock, Top, Last, Cursor, OutOfBlock, Return
    <2>2. StmtDone(prog, f, ctl, next, at)
      BY <1>1, <1>4, TopCases DEF ExecInv
    <2> HIDE DEF f
    <2>3. i \in Stmts(prog) /\ BlockOf(prog, i) = Block(f) /\ next = prog.end[i]
      BY <2>2 DEF StmtDone, Holds
    <2>4. i \in Nat /\ next \in Int /\ i < next /\ InBlock(i, Block(f)) /\ next <= f.hi
      BY <1>0, <1>2, <2>3, Indices, BlockOfFacts, EndInBlock
    <2> HIDE DEF i
    <2>5. \/ prog.kind[i] \notin JumpKinds \cup {"if", "while"} /\ at = At(i)
          \/ prog.kind[i] \in {"if", "while"} /\ Leads(prog, at, After(i))
      BY <2>2 DEF StmtDone, Composite, OfKind, i
    <2>6. at' = Out(prog, i) /\ prog.kind[i] \notin JumpKinds
      BY <2>1, <2>5 DEF Out, JumpKinds, LoopKinds
    <2>7. Ready(prog, Block(f), next, at')
      BY <2>3, <2>6 DEF Ready
    <2>8. Moves
      <3>1. CASE prog.kind[i] \in {"if", "while"}
        <4>1. at' = After(i) /\ Leads(prog, at, After(i)) /\ Gained(prog, After(i)) = {}
          BY <1>0, <2>1, <2>3, <2>5, <3>1, GainedAt
        <4> QED
          BY <1>1, <4>1 DEF Moves
      <3>2. CASE prog.kind[i] \notin {"if", "while"}
        BY <1>1, <2>1, <3>2 DEF Moves
      <3> QED
        BY <3>1, <3>2
    <2>9. StackOK(prog, stack') /\ Phase(prog, stack', ctl', next', at')
      <3>1. CASE next = f.hi
        <4>1. stack' = Front(stack) /\ ctl' = Normal
          BY <1>2, <2>1, <2>4, <3>1
        <4> QED
          BY <1>0, <1>1, <1>2, <2>1, <2>7, <3>1, <4>1, BlockReturns DEF f
      <3>2. CASE next # f.hi
        <4>1. f.lo <= next /\ next < f.hi
          BY <1>2, <2>4, <3>2 DEF InBlock
        <4>2. ctl' = Run /\ stack' = [stack EXCEPT ![Len(stack)].cur = next]
          BY <1>2, <2>1, <2>3, <2>4, <4>1
        <4>3. next \in Stmts(prog) /\ BlockOf(prog, next) = Block(f)
          BY <1>0, <1>2, <2>3, <2>4, <4>1, NextSibling
        <4>4. StackOK(prog, stack') /\ stack' # <<>> /\ stack'[Len(stack')] = BlockAt(Block(f), next)
          <5>1. next \in f.lo .. f.hi
            BY <1>2, <2>4, <4>1
          <5> QED
            BY <1>0, <1>1, <4>2, <5>1, StackCursor DEF f
        <4>5. Running(prog, BlockAt(Block(f), next), Run, next, at')
          <5>1. next \in f.lo .. f.hi
            BY <1>2, <2>4, <4>1
          <5> QED
            BY <1>0, <1>2, <2>7, <4>3, <5>1, BlockAtFacts DEF Running
        <4> QED
          BY <2>1, <4>2, <4>4, <4>5, PhaseAtTop
      <3> QED
        BY <3>1, <3>2
    <2> QED
      BY <1>1, <2>1, <2>8, <2>9 DEF Kept, ExecInv
  <1>5. CASE ~(ctl.kind = "goto" /\ f.lo <= ctl.arg /\ ctl.arg < f.hi) /\ ctl.kind # "normal"
    <2>1. stack' = Front(stack) /\ ctl' = ctl /\ next' = next /\ at' = at
      BY <1>5 DEF ResumeBlock, Top, Last, Return
    <2>2. Jumping(prog, f, ctl, at) \/ Returning(prog, f, ctl, at) \/ Failing(prog, f, ctl)
      BY <1>1, <1>5, TopCases, CtlFacts DEF ExecInv
    <2>3. Phase(prog, stack', ctl', next', at')
      <3>1. CASE Jumping(prog, f, ctl, at)
        <4> DEFINE h == Front(stack)[Len(Front(stack))]
        <4>1. PICK j \in OfKind(prog, LoopKinds \cup {"goto"}) :
                /\ ctl = Ctl(prog.kind[j], prog.jump[j]) /\ at = At(j)
                /\ InBlock(j, Block(f)) /\ Inside(Block(f), TargetBlock(prog, j))
          BY <1>1, <3>1 DEF Jumping
        <4>2. prog.kind[j] = "goto" => /\ prog.jump[j] \in Stmts(prog) /\ ~InBlock(prog.jump[j], Block(f))
                                       /\ TargetBlock(prog, j) = BlockOf(prog, prog.jump[j])
          <5> HIDE DEF f
          <5> SUFFICES ASSUME prog.kind[j] = "goto"
                       PROVE  /\ prog.jump[j] \in Stmts(prog) /\ ~InBlock(prog.jump[j], Block(f))
                              /\ TargetBlock(prog, j) = BlockOf(prog, prog.jump[j])
            OBVIOUS
          <5>1. ctl.kind = "goto" /\ ctl.arg = prog.jump[j]
            BY <4>1, CtlFacts
          <5>2. prog.jump[j] \in Stmts(prog) /\ TargetBlock(prog, j) = BlockOf(prog, prog.jump[j])
            BY <1>0, TargetFacts
          <5> QED
            BY <1>2, <1>5, <5>1, <5>2 DEF InBlock
        <4>3. Front(stack) # <<>>
          <5> SUFFICES ASSUME Front(stack) = <<>> PROVE FALSE
            OBVIOUS
          <5>1. Block(f) = BodyBlock(prog)
            BY <1>0, <1>1, BlockBelow
          <5>2. CASE prog.kind[j] = "goto"
            BY <1>0, <4>2, <5>1, <5>2, Indices DEF InBlock, BodyBlock
          <5>3. CASE prog.kind[j] # "goto"
            <6>1. prog.jump[j] \in Composite(prog) /\ TargetBlock(prog, j) \in Arms(prog, prog.jump[j])
              BY <1>0, <5>3, TargetFacts
            <6>2. prog.jump[j] \in Nat /\ 1 <= prog.jump[j]
              BY <1>0, <6>1, Indices DEF Composite, OfKind
            <6>3. TargetBlock(prog, j)[1] \in Int /\ prog.jump[j] < TargetBlock(prog, j)[1]
              BY <1>0, <6>1, ArmBounds
            <6> QED
              BY <4>1, <5>1, <6>2, <6>3 DEF Inside, BodyBlock
          <5> QED
            BY <5>2, <5>3
        <4>4. h.fn # "block" /\ Block(f) = Arm(prog, h)
          BY <1>0, <1>1, <4>3, BlockBelow
        <4>5. prog.kind[j] = "goto" => Block(f) # TargetBlock(prog, j)
          BY <1>0, <4>2, BlockOfFacts
        <4> HIDE DEF f, h
        <4>6. Jumping(prog, h, ctl, at)
          BY <4>1, <4>4, <4>5 DEF Jumping
        <4> QED
          BY <2>1, <4>3, <4>6, PhaseAtTop DEF h
      <3>2. CASE Returning(prog, f, ctl, at) \/ Failing(prog, f, ctl)
        BY <1>0, <1>1, <2>1, <3>2, ExitPasses
      <3> QED
        BY <2>2, <3>1, <3>2
    <2> QED
      BY <1>1, <1>2, <2>1, <2>3 DEF Kept, Moves, ExecInv
  <1> QED
    BY <1>3, <1>4, <1>5

LEMMA EndCallKept == ASSUME ExecInv, EndCall PROVE Kept
  <1>0. WellFormed(prog) /\ StackOK(prog, stack) /\ at \in Reachable(prog)
    BY DEF ExecInv
  <1>1. /\ stack = <<>> /\ stack' = <<>> /\ ctl.kind \notin {"done", "error"}
        /\ ctl' = (IF ctl.kind = "return" \/ (ctl = Normal /\ prog.void) THEN Ctl("done", 0) ELSE Internal)
        /\ at' = (IF ctl.kind \in {"return", "normal"} THEN Exit(prog) ELSE at)
        /\ prog' = prog /\ next' = next /\ written' = written
    BY DEF EndCall
  <1>2. \/ ctl = Normal /\ Ready(prog, BodyBlock(prog), prog.n + 1, at)
        \/ \E j \in OfKind(prog, {"return"}) : ctl = Ctl("return", prog.jump[j]) /\ at = At(j)
    BY <1>1, CtlFacts DEF ExecInv, Phase, Ended
  <1>3. Gained(prog, Exit(prog)) = {}
    BY <1>0, GainedAt
  <1>4. CASE ctl = Normal
    <2>1. <<at, Exit(prog), "fallthrough">> \in EnabledEdges(prog)
      BY <1>0, <1>2, <1>4, BodyFallsOut, CtlFacts
    <2>2. at' = Exit(prog) /\ Leads(prog, at, at')
      BY <1>1, <1>4, <2>1, CtlFacts DEF Leads
    <2>3. ctl' = Ctl("done", 0) \/ (ctl' = Internal /\ MissingReturn(prog))
      BY <1>0, <1>1, <1>4, <2>1, CtlFacts DEF MissingReturn
    <2> QED
      BY <1>0, <1>1, <1>3, <2>2, <2>3 DEF Kept, Moves, Phase, Ended, ExecInv
  <1>5. CASE \E j \in OfKind(prog, {"return"}) : ctl = Ctl("return", prog.jump[j]) /\ at = At(j)
    <2>1. PICK j \in OfKind(prog, {"return"}) : ctl = Ctl("return", prog.jump[j]) /\ at = At(j)
      BY <1>5
    <2>2. j \in OfKind(prog, JumpKinds) /\ prog.kind[j] = "return"
      BY DEF OfKind, JumpKinds
    <2>3. at' = Exit(prog) /\ ctl' = Ctl("done", 0)
      BY <1>1, <2>1, CtlFacts
    <2>4. Leads(prog, at, at')
      BY <1>0, <2>1, <2>2, <2>3, JumpLeads
    <2> QED
      BY <1>0, <1>1, <1>3, <2>3, <2>4 DEF Kept, Moves, Phase, Ended, ExecInv
  <1> QED
    BY <1>2, <1>4, <1>5

LEMMA StepKept == ASSUME ExecInv, Step PROVE Kept
  BY LeaveBlockKept, SkipStmtKept, EndIfKept, LoopTestKept, EndLoopBodyKept, ResumeBlockKept, EndCallKept,
     DoIfKept, DoWhileKept, DoSimpleKept, FailStatementKept, FailLoopTestKept
  DEF Step

LEMMA KeptInv == ASSUME ExecInv, Kept PROVE ExecInv'
  <1>1. at' \in Reachable(prog)
    BY ReachableNodes DEF Kept, Moves, Leads, ExecInv
  <1>2. Gained(prog, at') \subseteq Slots(prog)
    BY GainedAt, WritesType, Indices DEF Gained, ExecInv
  <1>3. written' \subseteq Slots(prog)
    BY <1>2 DEF Kept, Moves, ExecInv
  <1> QED
    BY <1>1, <1>3 DEF Kept, ExecInv

LEMMA InitInv == ASSUME WellFormed(prog), ExecInit PROVE ExecInv
  <1> DEFINE f == BlockFrame(BodyBlock(prog))
  <1>1. BodyBlock(prog) \in Blocks(prog) /\ BodyBlock(prog)[1] = 1
    BY BlocksOf DEF BodyBlock
  <1>2. f \in AllFrames(prog) /\ f.fn = "block" /\ Block(f) = BodyBlock(prog)
    BY <1>1, NewFrames
  <1>3. stack = <<f>> /\ next = 1 /\ ctl = Run /\ at = Entry /\ written = {Param(prog)}
    BY <1>1 DEF ExecInit
  <1> HIDE DEF f
  <1>4. StackOK(prog, stack) /\ stack # <<>> /\ stack[Len(stack)] = f
    BY <1>2, <1>3 DEF StackOK
  <1>5. Enters(prog, BodyBlock(prog), Entry)
    BY DEF Enters
  <1>6. Running(prog, f, Run, 1, Entry)
    BY <1>1, <1>5, EnterBlock DEF f
  <1>7. Phase(prog, stack, ctl, next, at)
    BY <1>3, <1>4, <1>6, PhaseAtTop
  <1>8. next \in 1 .. prog.n + 1
    BY <1>3 DEF WellFormed
  <1>9. at \in Reachable(prog) /\ written \subseteq Slots(prog)
    BY <1>3, ReachableNodes DEF Slots
  <1> QED
    BY <1>4, <1>7, <1>8, <1>9 DEF ExecInv

-----------------------------------------------------------------------------

LEMMA InvTypes == ASSUME ExecInv PROVE ExecTypeOK
  <1>0. WellFormed(prog) /\ prog.n \in Nat
    BY DEF ExecInv, WellFormed
  <1>1. at \in Nodes(prog)
    BY <1>0, ReachableNodes DEF ExecInv
  <1>2. ASSUME NEW j \in OfKind(prog, {"return"}), ctl = Ctl("return", prog.jump[j]) PROVE ctl \in Controls
    <2>1. prog.jump[j] = 0
      BY <1>0 DEF WellFormed, OfKind, LoopKinds
    <2> QED
      BY <1>2, <2>1 DEF Controls
  <1>3. ctl \in Controls
    <2>1. CASE stack = <<>>
      BY <1>2, <2>1 DEF ExecInv, Phase, Ended, Controls
    <2>2. CASE stack # <<>>
      <3> DEFINE f == stack[Len(stack)]
      <3>1. \/ ctl = Run \/ ctl = Normal
            \/ Jumping(prog, f, ctl, at) \/ Returning(prog, f, ctl, at) \/ Failing(prog, f, ctl)
        BY <2>2, TopCases DEF ExecInv
      <3> HIDE DEF f
      <3>2. CASE ctl = Run \/ ctl = Normal \/ Failing(prog, f, ctl)
        BY <3>2 DEF Controls, Failing
      <3>3. CASE Returning(prog, f, ctl, at)
        BY <1>2, <3>3 DEF Returning
      <3>4. CASE Jumping(prog, f, ctl, at)
        <4>1. PICK j \in OfKind(prog, LoopKinds \cup {"goto"}) : ctl = Ctl(prog.kind[j], prog.jump[j])
          BY <3>4 DEF Jumping
        <4>2. prog.jump[j] \in Stmts(prog)
          BY <1>0, TargetFacts DEF OfKind
        <4>3. prog.kind[j] \in {"goto"} \cup LoopKinds
          BY DEF OfKind
        <4>4. Ctl(prog.kind[j], prog.jump[j]) \in {Ctl(k, i) : k \in {"goto"} \cup LoopKinds, i \in Stmts(prog)}
          BY <4>2, <4>3
        <4> QED
          BY <4>1, <4>4 DEF Controls
      <3> QED
        BY <3>1, <3>2, <3>3, <3>4
    <2> QED
      BY <2>1, <2>2
  <1>4. ASSUME NEW k \in 1 .. Len(stack)
        PROVE  LET f == stack[k]
               IN  IF f.fn = "block" THEN [f EXCEPT !.cur = f.lo] \in Frames /\ f.cur \in f.lo .. f.hi
                   ELSE f \in Frames
    <2> DEFINE f == stack[k]
    <2>1. f \in AllFrames(prog)
      BY DEF ExecInv, StackOK
    <2> HIDE DEF f
    <2>2. CASE f.fn = "block"
      <3>1. /\ Block(f) \in Blocks(prog) /\ f = BlockAt(Block(f), f.cur)
            /\ f.lo \in Int /\ f.hi \in Int /\ f.cur \in Int /\ f.lo <= f.cur /\ f.cur <= f.hi
        BY <1>0, <2>1, <2>2, BlockFrameFacts
      <3>2. [f EXCEPT !.cur = f.lo] = BlockFrame(Block(f))
        BY <3>1 DEF BlockAt, BlockFrame, Block
      <3>3. BlockFrame(Block(f)) \in Frames
        BY <3>1 DEF Frames
      <3> QED
        BY <2>2, <3>1, <3>2, <3>3 DEF f
    <2>3. CASE f.fn # "block"
      <3>1. \/ f.stmt \in OfKind(prog, {"if"}) /\ f = IfFrame(f.stmt, f.arm) /\ f.arm \in BOOLEAN
            \/ f.stmt \in OfKind(prog, {"while"}) /\ f = WhileFrame(f.stmt)
        BY <1>0, <2>1, <2>3, CallFrameFacts
      <3>2. f \in Frames
        BY <3>1 DEF Frames
      <3> QED
        BY <2>3, <3>2 DEF f
    <2> QED
      BY <2>2, <2>3 DEF f
  <1> QED
    BY <1>1, <1>3, <1>4 DEF ExecTypeOK, ExecInv

LEMMA ExecStep == ExecInv /\ [ExecNext]_<<prog, execution>> => ExecInv'
  <1> SUFFICES ASSUME ExecInv, [ExecNext]_<<prog, execution>> PROVE ExecInv'
    OBVIOUS
  <1>1. CASE Step
    BY <1>1, StepKept, KeptInv
  <1>2. CASE UNCHANGED <<prog, execution>>
    BY <1>2 DEF ExecInv, execution
  <1> QED
    BY <1>1, <1>2 DEF ExecNext

LEMMA ExecInvariance == ExecSpec => []ExecInv
  <1>1. WellFormed(prog) /\ ExecInit => ExecInv
    BY InitInv
  <1> QED
    BY <1>1, ExecStep, PTL DEF ExecSpec

(* The executor's state keeps its types on every well-formed body: calls   *)
(* of tc_execute_block, _if_at and _while_at nest only as the blocks do.   *)
THEOREM ExecutorTypes == ExecSpec => []ExecTypeOK
  BY ExecInvariance, InvTypes, PTL

(* Of the "internal error" exits of tc_executor.c only the one for falling *)
(* out of a function can be taken, and only where tc_cfg.c sees a missing  *)
(* return: no jump is left without a taker, no while is entered from the   *)
(* middle.                                                                 *)
THEOREM OnlyMissingReturns == ExecSpec => []InternalErrorIsMissingReturn
  <1>1. ExecInv => InternalErrorIsMissingReturn
    <2> SUFFICES ASSUME ExecInv, ctl = Internal PROVE MissingReturn(prog)
      BY DEF InternalErrorIsMissingReturn
    <2>1. ctl # Normal /\ ctl # Run /\ ctl # Fault /\ ctl.kind \notin {"return", "done", "break", "continue", "goto"}
      BY CtlFacts
    <2>2. CASE stack = <<>>
      BY <2>1, <2>2, CtlFacts DEF ExecInv, Phase, Ended
    <2>3. CASE stack # <<>>
      <3> DEFINE f == stack[Len(stack)]
      <3>1. Jumping(prog, f, ctl, at) \/ Returning(prog, f, ctl, at) \/ Failing(prog, f, ctl)
        BY <2>1, <2>3, TopCases DEF ExecInv
      <3> HIDE DEF f
      <3>2. Jumping(prog, f, ctl, at) => ctl.kind \in {"break", "continue", "goto"}
        BY CtlFacts, JumpKindFacts DEF Jumping
      <3>3. Returning(prog, f, ctl, at) => ctl.kind = "return"
        BY CtlFacts DEF Returning
      <3> QED
        BY <2>1, <3>1, <3>2, <3>3 DEF Failing
    <2> QED
      BY <2>2, <2>3
  <1> QED
    BY <1>1, ExecInvariance, PTL

(* A statement tc_cfg_diagnose_unreachable reports is never executed.      *)
THEOREM DeadCodeNeverRuns == ExecSpec => []UnreachableNeverRuns
  <1>1. ExecInv => UnreachableNeverRuns
    BY ReachableIsStructural DEF ExecInv, UnreachableNeverRuns, UnreachableStmts
  <1> QED
    BY <1>1, ExecInvariance, PTL

-----------------------------------------------------------------------------

F == INSTANCE FlowWalk_proofs WITH Graphs <- ProgramGraphs

(* What a node reads.                                                      *)
Asked(p, v) == IF v \in {At(i) : i \in Stmts(p)} THEN Reads(p, StmtAt(v)) ELSE {}

LEMMA AskedAt ==
    ASSUME NEW p, WellFormed(p)
    PROVE  /\ \A i \in Stmts(p) : Asked(p, At(i)) = Reads(p, i) /\ Reads(p, i) \subseteq Slots(p)
           /\ Asked(p, Entry) = {}
  <1>1. \A i \in Stmts(p) : Asked(p, At(i)) = Reads(p, i)
    BY Indices, NodeNames DEF Asked
  <1>2. \A j \in Stmts(p) : Entry # At(j)
    BY Indices DEF At, Entry
  <1>3. ASSUME NEW i \in Stmts(p) PROVE Reads(p, i) \subseteq Slots(p)
    <2>1. p.slot[i] \in {0, Param(p)} \cup Visible(p, i)
      BY DEF WellFormed
    <2> QED
      BY <2>1 DEF Reads, Slots, Visible
  <1> QED
    BY <1>1, <1>2, <1>3 DEF Asked

LEMMA GraphFields ==
    ASSUME NEW p
    PROVE  /\ Graph(p).nodes = Reachable(p)
           /\ Graph(p).edges = {<<e[1], e[2]>> : e \in {f \in EnabledEdges(p) : f[1] \in Reachable(p)}}
           /\ Graph(p).gen = [v \in Reachable(p) |-> Gained(p, v)]
           /\ Graph(p).reads = [v \in Reachable(p) |-> Asked(p, v)]
           /\ Graph(p).params = {Param(p)} /\ Graph(p).slots = Slots(p)
  BY DEF Graph, Gained, Asked

LEMMA GraphEdge ==
    ASSUME NEW p, NEW v \in Reachable(p), NEW w, Leads(p, v, w)
    PROVE  <<v, w>> \in Graph(p).edges
  <1>1. PICK e \in EnabledEdges(p) : e[1] = v /\ e[2] = w
    BY DEF Leads
  <1> QED
    BY <1>1, GraphFields

LEMMA GraphOfBody ==
    ASSUME NEW p, WellFormed(p)
    PROVE  F!IsGraph(Graph(p))
  <1> DEFINE h == Graph(p)
  <1>0. /\ h.nodes = Reachable(p)
        /\ h.edges = {<<e[1], e[2]>> : e \in {f \in EnabledEdges(p) : f[1] \in Reachable(p)}}
        /\ h.gen = [v \in Reachable(p) |-> Gained(p, v)]
        /\ h.reads = [v \in Reachable(p) |-> Asked(p, v)]
        /\ h.params = {Param(p)} /\ h.slots = Slots(p)
    BY GraphFields
  <1> HIDE DEF h
  <1>1. h.nodes \subseteq Nat /\ Entry \in h.nodes
    BY <1>0, ReachableNodes, NodesFinite
  <1>2. h.edges \subseteq h.nodes \X h.nodes
    BY <1>0, ReachableNodes
  <1>3. h.params \subseteq h.slots
    BY <1>0 DEF Slots
  <1>4. \A v : Gained(p, v) \subseteq Slots(p) /\ Asked(p, v) \subseteq Slots(p)
    <2> SUFFICES ASSUME NEW v PROVE Gained(p, v) \subseteq Slots(p) /\ Asked(p, v) \subseteq Slots(p)
      OBVIOUS
    <2>1. CASE v \in {At(i) : i \in Stmts(p)}
      BY <2>1, GainedAt, AskedAt, WritesType
    <2>2. CASE v \notin {At(i) : i \in Stmts(p)}
      BY <2>2 DEF Gained, Asked
    <2> QED
      BY <2>1, <2>2
  <1>5. h.gen \in [h.nodes -> SUBSET h.slots] /\ h.reads \in [h.nodes -> SUBSET h.slots]
    BY <1>0, <1>4
  <1>6. h.gen[Entry] = {} /\ h.reads[Entry] = {}
    BY <1>0, <1>1, GainedAt, AskedAt
  <1>7. ASSUME NEW v \in h.nodes \ {Entry} PROVE \E e \in h.edges : e[2] = v
    <2>1. PICK e \in EnabledEdges(p) : e[1] \in Reachable(p) /\ e[2] = v
      BY <1>0, ReachableNodes
    <2>2. <<e[1], v>> \in h.edges
      BY <1>0, <2>1
    <2> QED
      BY <2>2
  <1>8. F!EntryNode = Entry
    BY DEF F!EntryNode, Entry
  <1> QED
    BY <1>1, <1>2, <1>3, <1>5, <1>6, <1>7, <1>8 DEF F!IsGraph, h

LEMMA BodyGraphs == F!GraphsAssumption
  BY ProgramsAssumption, GraphOfBody DEF ProgramGraphs, F!GraphsAssumption

-----------------------------------------------------------------------------

(* The executor has not moved before the verdict, and it moves only on a   *)
(* body the analysis has accepted.                                         *)
StageOK ==
    /\ stage # "run" => ExecInit
    /\ verdict \in {"none", "accept", "uninitialized"}
    /\ stage \in {"analysis", "run", "uninitialized", "unreachable", "missing return"}
    /\ stage \notin {"analysis", "uninitialized"} => verdict = "accept"

RunInv ==
    /\ prog \in Programs
    /\ ExecInv
    /\ g = Graph(prog)
    /\ StageOK

LEMMA InitRun == Init => RunInv
  <1> SUFFICES ASSUME Init PROVE RunInv
    OBVIOUS
  <1>1. prog \in Programs /\ ExecInit /\ g = Graph(prog) /\ stage = "analysis" /\ verdict = "none"
    BY DEF Init, Analysis!AnalysisInit
  <1>2. ExecInv
    BY <1>1, ProgramsAssumption, InitInv
  <1> QED
    BY <1>1, <1>2 DEF RunInv, StageOK

(* The step of AcceptedRun that executes is a step of the walk.            *)
LEMMA ExecuteWalks == ASSUME RunInv, Execute PROVE ExecInv' /\ [Analysis!WalkStep]_<<analysis, at, written>>
  <1>1. ExecInv /\ Kept /\ UNCHANGED analysis /\ verdict = "accept"
    BY StepKept DEF RunInv, StageOK, Execute
  <1>2. ExecInv'
    BY <1>1, KeptInv
  <1>3. CASE at' = at /\ written' = written
    BY <1>1, <1>2, <1>3
  <1>4. CASE Leads(prog, at, at') /\ written' = written \cup Gained(prog, at')
    <2>1. at \in Reachable(prog) /\ at' \in Reachable(prog)
      BY <1>1, <1>2 DEF ExecInv, Kept
    <2>2. <<at, at'>> \in Graph(prog).edges
      BY <1>4, <2>1, GraphEdge
    <2>5. Graph(prog).gen = [v \in Reachable(prog) |-> Gained(prog, v)]
      BY GraphFields
    <2>6. g.gen[at'] = Gained(prog, at') /\ <<at, at'>> \in g.edges
      BY <2>1, <2>2, <2>5 DEF RunInv
    <2>3. Analysis!WalkStep
      <3> DEFINE e == <<at, at'>>
      <3>1. e \in g.edges /\ e[1] = at /\ e[2] = at' /\ written' = written \cup g.gen[e[2]]
        BY <1>4, <2>6
      <3>2. UNCHANGED Analysis!analysis
        BY <1>1 DEF analysis, Analysis!analysis
      <3> HIDE DEF e
      <3> QED
        BY <1>1, <3>1, <3>2 DEF Analysis!WalkStep
    <2> QED
      BY <1>2, <2>3
  <1> QED
    BY <1>1, <1>3, <1>4 DEF Kept, Moves

LEMMA StepRun == RunInv /\ [Next]_vars => RunInv'
  <1> SUFFICES ASSUME RunInv, [Next]_vars PROVE RunInv'
    OBVIOUS
  <1>1. CASE AnalyseInit
    <2>1. UNCHANGED <<prog, execution, stage>> /\ stage = "analysis"
      BY <1>1 DEF AnalyseInit
    <2>2. g' = g /\ verdict' \in {verdict, "accept", "uninitialized"}
      BY <1>1 DEF AnalyseInit, Analysis!Analyse, Analysis!Visit, Analysis!Resweep, Analysis!Check
    <2> QED
      BY <2>1, <2>2 DEF RunInv, StageOK, ExecInv, ExecInit, execution
  <1>2. CASE Diagnose
    <2>1. UNCHANGED <<prog, execution, analysis>> /\ stage = "analysis"
      BY <1>2 DEF Diagnose
    <2>2. /\ stage' \in {"run", "uninitialized", "unreachable", "missing return"}
          /\ stage' # "uninitialized" => verdict = "accept"
      BY <1>2 DEF Diagnose, RunInv, StageOK
    <2> QED
      BY <2>1, <2>2 DEF RunInv, StageOK, ExecInv, ExecInit, execution, analysis
  <1>3. CASE Execute
    <2>1. ExecInv' /\ prog' = prog /\ UNCHANGED <<analysis, stage>> /\ stage = "run"
      BY <1>3, ExecuteWalks, StepKept DEF Execute, RunInv, Kept
    <2> QED
      BY <2>1 DEF RunInv, StageOK, analysis
  <1>4. CASE UNCHANGED vars
    BY <1>4 DEF RunInv, StageOK, ExecInv, ExecInit, vars, execution, analysis
  <1> QED
    BY <1>1, <1>2, <1>3, <1>4 DEF Next, Finished

LEMMA RunInvariance == Spec => []RunInv
  BY InitRun, StepRun, PTL DEF Spec

LEMMA InitWalks == Init => Analysis!WalkInit
  <1> SUFFICES ASSUME Init PROVE Analysis!WalkInit
    OBVIOUS
  <1>1. Graph(prog).params = {Param(prog)}
    BY GraphFields
  <1>2. at = Entry /\ written = {Param(prog)} /\ g = Graph(prog) /\ Analysis!AnalysisInit
    BY DEF Init, ExecInit
  <1>3. Analysis!EntryNode = Entry
    BY DEF Analysis!EntryNode, Entry
  <1> QED
    BY <1>1, <1>2, <1>3 DEF Analysis!WalkInit

LEMMA StepWalks == RunInv /\ [Next]_vars => [Analysis!WalkNext]_<<Analysis!analysis, Analysis!walk>>
  <1> SUFFICES ASSUME RunInv, [Next]_vars PROVE [Analysis!WalkNext]_<<Analysis!analysis, Analysis!walk>>
    OBVIOUS
  <1>1. CASE AnalyseInit
    BY <1>1 DEF AnalyseInit, Analysis!WalkNext, Analysis!walk, execution
  <1>2. CASE Diagnose
    BY <1>2 DEF Diagnose, Analysis!analysis, Analysis!walk, analysis, execution
  <1>3. CASE Execute
    BY <1>3, ExecuteWalks DEF Analysis!WalkNext, Analysis!analysis, Analysis!walk, analysis
  <1>4. CASE UNCHANGED vars
    BY <1>4 DEF vars, execution, analysis, Analysis!analysis, Analysis!walk
  <1> QED
    BY <1>1, <1>2, <1>3, <1>4 DEF Next, Finished

(* Executing an accepted body is a walk along the enabled edges of the     *)
(* graph tc_cfg.c judged: returns, restarts of a block after a jump, the   *)
(* cursor jump at the end of an arm and the stepping over of finished      *)
(* statements included.                                                    *)
THEOREM RunIsAWalk == Spec => FollowsTheGraph
  BY InitWalks, StepWalks, RunInvariance, PTL DEF Spec, FollowsTheGraph, Analysis!WalkSpec

-----------------------------------------------------------------------------

(* The walk the theorems of FlowWalk are about is the one AcceptedRun      *)
(* names.                                                                  *)
LEMMA SameInit == Analysis!WalkInit <=> F!WalkInit
  BY DEF Analysis!WalkInit, F!WalkInit, Analysis!AnalysisInit, F!AnalysisInit,
         Analysis!EntryNode, F!EntryNode, Analysis!Inner, F!Inner

LEMMA SameMeet == /\ \A v : Analysis!Preds(v) = F!Preds(v) /\ Analysis!Meet(v) = F!Meet(v)
                  /\ Analysis!Inner = F!Inner /\ Analysis!BadReads = F!BadReads
  BY DEF Analysis!Preds, F!Preds, Analysis!Meet, F!Meet, Analysis!Inner, F!Inner,
         Analysis!EntryNode, F!EntryNode, Analysis!BadReads, F!BadReads

LEMMA SameStep == [Analysis!WalkNext]_<<Analysis!analysis, Analysis!walk>> => [F!WalkNext]_<<F!analysis, F!walk>>
  <1>1. Analysis!analysis = F!analysis /\ Analysis!walk = F!walk
    BY DEF F!analysis, F!walk, Analysis!analysis, Analysis!walk
  <1>2. UNCHANGED Analysis!walk <=> UNCHANGED F!walk
    BY DEF F!walk, Analysis!walk
  <1>3. UNCHANGED Analysis!analysis <=> UNCHANGED F!analysis
    BY DEF F!analysis, Analysis!analysis
  <1>4. Analysis!Visit => F!Visit
    BY SameMeet DEF Analysis!Visit, F!Visit
  <1>5. Analysis!Resweep => F!Resweep
    BY SameMeet DEF Analysis!Resweep, F!Resweep
  <1>6. Analysis!Check => F!Check
    BY SameMeet DEF Analysis!Check, F!Check
  <1>7. Analysis!WalkStep => F!WalkStep
    BY <1>3 DEF Analysis!WalkStep, F!WalkStep
  <1>8. Analysis!WalkEnd => F!WalkEnd
    BY <1>2, <1>3 DEF Analysis!WalkEnd, F!WalkEnd
  <1> QED
    BY <1>1, <1>2, <1>3, <1>4, <1>5, <1>6, <1>7, <1>8
    DEF Analysis!WalkNext, F!WalkNext, Analysis!Analyse, F!Analyse

LEMMA SpecWalks == Spec => F!WalkSpec
  <1>1. Init => F!WalkInit
    BY InitWalks, SameInit
  <1>2. RunInv /\ [Next]_vars => [F!WalkNext]_<<F!analysis, F!walk>>
    BY StepWalks, SameStep
  <1> QED
    BY <1>1, <1>2, RunInvariance, PTL DEF Spec, F!WalkSpec

LEMMA VerdictFacts == Spec => [](F!NextReadsAreWritten /\ F!VerdictIsPathVerdict /\ F!AnalysisTypeOK)
  <1>1. F!WalkSpec => []F!NextReadsAreWritten
    BY BodyGraphs, F!AcceptedReadsAreWritten
  <1>2. F!WalkSpec => []F!VerdictIsPathVerdict
    BY BodyGraphs, F!VerdictMatchesPaths
  <1>3. F!WalkSpec => [](F!AnalysisTypeOK /\ F!WalkTypeOK)
    BY BodyGraphs, F!TypeCorrect
  <1> QED
    BY <1>1, <1>2, <1>3, SpecWalks, PTL

(* The state of the whole pipeline keeps its types.                        *)
THEOREM PipelineTypes == Spec => []TypeOK
  <1>1. RunInv /\ F!AnalysisTypeOK => TypeOK
    <2> SUFFICES ASSUME RunInv, F!AnalysisTypeOK PROVE TypeOK
      OBVIOUS
    <2>1. ExecTypeOK
      BY InvTypes DEF RunInv
    <2>2. Analysis!AnalysisTypeOK
      BY DEF F!AnalysisTypeOK, Analysis!AnalysisTypeOK, F!Inner, Analysis!Inner, F!EntryNode, Analysis!EntryNode
    <2> QED
      BY <2>1, <2>2 DEF RunInv, StageOK, TypeOK
  <1> QED
    BY <1>1, RunInvariance, VerdictFacts, PTL

(* A node that an accepted body may go to next reads written slots only.   *)
LEMMA NextReads ==
    ASSUME RunInv, F!NextReadsAreWritten, verdict = "accept", NEW i \in Stmts(prog), Leads(prog, at, At(i))
    PROVE  Reads(prog, i) \subseteq written
  <1>1. WellFormed(prog) /\ at \in Reachable(prog) /\ g = Graph(prog)
    BY DEF RunInv, ExecInv
  <1>2. At(i) \in Reachable(prog)
    BY <1>1, ReachableNodes DEF Leads
  <1> DEFINE e == <<at, At(i)>>
  <1>3. e \in g.edges /\ e[1] = at /\ e[2] = At(i)
    BY <1>1, GraphEdge
  <1> HIDE DEF e
  <1>4. g.reads[At(i)] \subseteq written
    BY <1>3 DEF F!NextReadsAreWritten
  <1>5. Graph(prog).reads = [v \in Reachable(prog) |-> Asked(prog, v)]
    BY GraphFields
  <1>6. g.reads[At(i)] = Asked(prog, At(i))
    BY <1>1, <1>2, <1>5
  <1> QED
    BY <1>1, <1>4, <1>6, AskedAt

(* The variable a statement is about to read has been written, on every    *)
(* body the analysis accepts and whatever its conditions evaluate to.      *)
THEOREM NoUnsetRead == Spec => []ReadsAreWritten
  <1>1. RunInv /\ F!NextReadsAreWritten => ReadsAreWritten
    <2> SUFFICES ASSUME RunInv, F!NextReadsAreWritten PROVE ReadsAreWritten
      OBVIOUS
    <2>0. ExecInv /\ WellFormed(prog)
      BY DEF RunInv, ExecInv
    <2>1. CASE stage = "run"
      <3>0. verdict = "accept"
        BY <2>1 DEF RunInv, StageOK
      <3>1. ASSUME NEW i \in Stmts(prog), Dispatch(i) PROVE Reads(prog, i) \subseteq written
        BY <2>0, <3>0, <3>1, Dispatched, NextReads
      <3>2. ASSUME stack # <<>>, Top.fn = "while", ctl = Run PROVE Reads(prog, Top.stmt) \subseteq written
        <4> DEFINE f == stack[Len(stack)]
        <4>1. f = Top
          BY DEF Top, Last
        <4>2. Testing(prog, f, ctl, at) /\ f \in AllFrames(prog)
          BY <2>0, <3>2, <4>1, TopCases, StackTop DEF ExecInv
        <4> HIDE DEF f
        <4>3. f.stmt \in Stmts(prog) /\ Leads(prog, at, At(f.stmt))
          BY <2>0, <4>2, CallFrameFacts DEF Testing
        <4> QED
          BY <3>0, <4>1, <4>3, NextReads
      <3> QED
        BY <3>1, <3>2 DEF ReadsAreWritten
    <2>2. CASE stage # "run"
      <3>1. next = 1 /\ stack = <<BlockFrame(BodyBlock(prog))>> /\ written = {Param(prog)}
        BY <2>2 DEF RunInv, StageOK, ExecInit, BodyBlock
      <3>2. ASSUME 1 \in Stmts(prog) PROVE Reads(prog, 1) \subseteq written
        <4>1. Visible(prog, 1) = {}
          <5>1. \A d \in Stmts(prog) : ~(d < 1)
            BY Indices, <2>0
          <5> QED
            BY <5>1 DEF Visible, OfKind
        <4>2. prog.slot[1] \in {0, Param(prog)}
          BY <2>0, <3>2, <4>1 DEF WellFormed
        <4> QED
          BY <3>1, <4>2 DEF Reads
      <3>3. Top.fn = "block"
        <4>1. stack[Len(stack)] = BlockFrame(BodyBlock(prog))
          BY <3>1
        <4> QED
          BY <4>1 DEF Top, Last, BlockFrame
      <3> QED
        BY <3>1, <3>2, <3>3 DEF ReadsAreWritten
    <2> QED
      BY <2>1, <2>2
  <1> QED
    BY <1>1, RunInvariance, VerdictFacts, PTL

-----------------------------------------------------------------------------

LEMMA FallsFrom ==
    ASSUME NEW p, NEW i \in Nat, Out(p, i) # NoNode
    PROVE  StmtAt(Out(p, i)) = i
  <1>1. StmtAt(At(i)) = i /\ StmtAt(After(i)) = i
    BY DEF StmtAt, At, After
  <1> QED
    BY <1>1 DEF Out

(* Control falls out of a block at its last statement, or where it came    *)
(* from when the block is empty.                                           *)
LEMMA BlockOutFrom ==
    ASSUME NEW p, WellFormed(p), NEW a \in Blocks(p), NEW v, BlockOut(p, a, v) # NoNode
    PROVE  \/ BlockOut(p, a, v) = v
           \/ InBlock(StmtAt(BlockOut(p, a, v)), a) /\ StmtAt(BlockOut(p, a, v)) \in Int
  <1>1. CASE a[1] = a[2]
    BY <1>1 DEF BlockOut
  <1>2. CASE a[1] # a[2]
    <2> DEFINE last == CHOOSE i \in a[1] .. a[2] - 1 : p.end[i] = a[2] /\ BlockOf(p, i) = a
    <2>1. a[1] \in Int /\ a[2] \in Int /\ a[1] < a[2] /\ 1 <= a[1]
      BY <1>2, BlockBounds
    <2>2. \E i \in a[1] .. a[2] - 1 : p.end[i] = a[2] /\ BlockOf(p, i) = a
      BY <2>1, SiblingBefore
    <2>3. last \in a[1] .. a[2] - 1
      BY <2>2
    <2>4. BlockOut(p, a, v) = Out(p, last)
      BY <1>2 DEF BlockOut
    <2> HIDE DEF last
    <2>5. last \in Nat /\ InBlock(last, a)
      BY <2>1, <2>3 DEF InBlock
    <2> QED
      BY <2>4, <2>5, FallsFrom
  <1> QED
    BY <1>1, <1>2

(* Where the builder says control comes from into a statement of block b:  *)
(* from inside b, unless the statement is the first of b.                  *)
LEMMA IncomingFrom ==
    ASSUME NEW p, WellFormed(p), NEW i \in Stmts(p), NEW b \in Blocks(p), InBlock(i, b),
           Incoming(p, i)[1] # NoNode
    PROVE  i = b[1] \/ InBlock(StmtAt(Incoming(p, i)[1]), b)
  <1> DEFINE a == BlockOf(p, i)
             sibling == CHOOSE j \in a[1] .. i - 1 : p.end[j] = i /\ BlockOf(p, j) = a
             owner == CHOOSE j \in OfKind(p, {"if", "while"}) : a \in {ThenBlock(p, j), ElseBlock(p, j)}
  <1>1. a \in Blocks(p) /\ InBlock(i, a) /\ Inside(a, b)
    BY BlockOfFacts
  <1>2. /\ a[1] \in Int /\ a[2] \in Int /\ b[1] \in Int /\ b[2] \in Int /\ i \in Int
        /\ a[1] <= i /\ i < a[2] /\ b[1] <= a[1] /\ a[2] <= b[2] /\ 1 <= a[1]
    BY <1>1, BlockBounds, Indices DEF InBlock, Inside
  <1>3. CASE i # a[1]
    <2>1. \E j \in a[1] .. i - 1 : p.end[j] = i /\ BlockOf(p, j) = a
      BY <1>1, <1>2, <1>3, SiblingBefore
    <2>2. sibling \in a[1] .. i - 1
      BY <2>1
    <2>3. Incoming(p, i)[1] = Out(p, sibling)
      BY <1>3 DEF Incoming
    <2> HIDE DEF a, sibling
    <2>4. sibling \in Nat /\ InBlock(sibling, b)
      BY <1>2, <2>2 DEF InBlock
    <2> QED
      BY <2>3, <2>4, FallsFrom
  <1>4. CASE i = a[1] /\ a = BodyBlock(p)
    <2>1. b = a
      BY <1>1, <1>4, BlockInBody, InsideBoth
    <2> QED
      BY <1>4, <2>1
  <1>5. CASE i = a[1] /\ a # BodyBlock(p)
    <2>1. \E j \in OfKind(p, {"if", "while"}) : a \in {ThenBlock(p, j), ElseBlock(p, j)}
      BY <1>1, <1>5, BlocksOf DEF Composite, Arms
    <2>2. owner \in OfKind(p, {"if", "while"}) /\ a \in {ThenBlock(p, owner), ElseBlock(p, owner)}
      BY <2>1
    <2>3. Incoming(p, i)[1] = At(owner)
      BY <1>5 DEF Incoming
    <2> HIDE DEF owner
    <2>4. PICK k \in Composite(p) : a \in Arms(p, k)
      BY <1>1, <1>5, BlocksOf
    <2>5. owner \in Composite(p) /\ a \in Arms(p, owner) /\ owner \in Stmts(p) /\ owner \in Nat
      <3>1. owner \in Stmts(p) /\ p.kind[owner] \in {"if", "while"} /\ owner \in Nat
        BY <2>2, Indices DEF OfKind
      <3>2. ASSUME p.kind[owner] = "while" PROVE a = ThenBlock(p, owner)
        <4>1. p.mid[owner] = p.end[owner]
          BY <3>1, <3>2, Indices
        <4>2. a # ElseBlock(p, owner)
          BY <1>2, <4>1 DEF ElseBlock
        <4> QED
          BY <2>2, <4>2
      <3> QED
        BY <2>2, <3>1, <3>2 DEF Composite, Arms
    <2>6. CASE a = b
      BY <1>5, <2>6
    <2>7. CASE a # b
      <3>1. Inside(BlockOf(p, owner), b)
        BY <1>1, <1>2, <2>5, <2>7, AroundArm
      <3>2. InBlock(owner, BlockOf(p, owner)) /\ BlockOf(p, owner) \in Blocks(p)
        BY <2>5, BlockOfFacts
      <3>3. InBlock(owner, b)
        BY <2>5, <3>1, <3>2, BlockBounds DEF InBlock, Inside
      <3> QED
        BY <2>3, <2>5, <3>3, NodeNames
    <2> QED
      BY <2>6, <2>7
  <1> QED
    BY <1>3, <1>4, <1>5

(* A block is entered by its first statement only: no break, continue or   *)
(* goto lands inside a block that does not hold the jump itself.           *)
LEMMA EntryEdge ==
    ASSUME NEW p, WellFormed(p), NEW e \in Edges(p), NEW b \in Blocks(p),
           InBlock(StmtAt(e[2]), b), ~InBlock(StmtAt(e[1]), b)
    PROVE  e[2] = At(b[1])
  <1>0. b[1] \in Int /\ b[2] \in Int /\ 1 <= b[1] /\ b[2] <= p.n + 1 /\ p.n \in Nat
    BY BlockBounds, BlockInBody DEF Inside, BodyBlock, WellFormed
  <1>1. \A j \in Nat : StmtAt(At(j)) = j /\ StmtAt(After(j)) = j
    BY DEF StmtAt, At, After
  <1>2. e[1] # NoNode
    BY DEF Edges
  <1>3. CASE \E i \in Stmts(p) : e = <<Incoming(p, i)[1], At(i), Incoming(p, i)[2]>>
    <2>1. PICK i \in Stmts(p) : e = <<Incoming(p, i)[1], At(i), Incoming(p, i)[2]>>
      BY <1>3
    <2>2. e[1] = Incoming(p, i)[1] /\ e[2] = At(i) /\ i \in Nat
      BY <2>1, Indices
    <2>3. InBlock(i, b)
      BY <1>1, <2>2
    <2> QED
      BY <1>2, <2>2, <2>3, IncomingFrom
  <1>4. ASSUME NEW k \in Composite(p), NEW a \in Arms(p, k), NEW v, v \in {At(k), After(k)},
               e[1] = BlockOut(p, a, At(k)), e[2] = v
        PROVE FALSE
    <2>1. k \in Nat /\ k \in Stmts(p) /\ a \in Blocks(p)
      BY ArmBounds, BlocksOf DEF Composite, OfKind
    <2>2. InBlock(k, b)
      BY <1>1, <1>4, <2>1
    <2>3. Inside(a, b)
      BY <2>1, <2>2, ArmInBlock
    <2>6. e[1] # At(k) => StmtAt(e[1]) \in Int /\ InBlock(StmtAt(e[1]), a)
      BY <1>2, <1>4, <2>1, BlockOutFrom
    <2>4. CASE e[1] = At(k)
      BY <1>1, <2>1, <2>2, <2>4
    <2>5. CASE e[1] # At(k)
      BY <1>0, <2>1, <2>3, <2>5, <2>6, BlockBounds DEF InBlock, Inside
    <2> QED
      BY <2>4, <2>5
  <1>5. CASE \E i \in OfKind(p, {"if"}) : e \in IfEdges(p, i)
    <2>1. PICK k \in OfKind(p, {"if"}) : e \in IfEdges(p, k)
      BY <1>5
    <2>2. /\ k \in Composite(p) /\ ThenBlock(p, k) \in Arms(p, k) /\ ElseBlock(p, k) \in Arms(p, k)
          /\ k \in Nat
      BY Indices DEF Composite, Arms, OfKind
    <2>3. /\ e[2] = After(k)
          /\ \/ e[1] = At(k) \/ e[1] = BlockOut(p, ThenBlock(p, k), At(k))
             \/ e[1] = BlockOut(p, ElseBlock(p, k), At(k))
      BY <2>1 DEF IfEdges
    <2>4. e[1] # At(k)
      BY <1>1, <2>2, <2>3
    <2> QED
      BY <1>4, <2>2, <2>3, <2>4
  <1>6. CASE \E i \in OfKind(p, {"while"}) : e \in WhileEdges(p, i)
    <2>1. PICK k \in OfKind(p, {"while"}) : e \in WhileEdges(p, k)
      BY <1>6
    <2>2. k \in Composite(p) /\ ThenBlock(p, k) \in Arms(p, k) /\ k \in Nat
      BY Indices DEF Composite, Arms, OfKind
    <2>3. /\ e[2] \in {At(k), After(k)}
          /\ e[1] = At(k) \/ e[1] = BlockOut(p, ThenBlock(p, k), At(k))
      BY <2>1 DEF WhileEdges
    <2>4. e[1] # At(k)
      BY <1>1, <2>2, <2>3
    <2> QED
      BY <1>4, <2>2, <2>3, <2>4
  <1>7. CASE \E i \in OfKind(p, JumpKinds) : e = JumpEdge(p, i)
    <2>1. PICK i \in OfKind(p, JumpKinds) : e = JumpEdge(p, i)
      BY <1>7
    <2>2. i \in Stmts(p) /\ i \in Nat /\ p.kind[i] \in {"break", "continue", "goto", "return"}
      BY Indices DEF OfKind, JumpKinds, LoopKinds
    <2>3. CASE p.kind[i] = "return"
      <3>1. e[2] = Exit(p)
        BY <2>1, <2>3 DEF JumpEdge
      <3>2. StmtAt(Exit(p)) = p.n + 1
        BY <1>0 DEF StmtAt, Exit
      <3> QED
        BY <1>0, <3>1, <3>2 DEF InBlock
    <2>4. CASE p.kind[i] \in LoopKinds
      <3> DEFINE w == p.jump[i]
      <3>1. w \in OfKind(p, {"while"}) /\ InBlock(i, ThenBlock(p, w))
        BY <2>2, <2>4, LoopJumps DEF OfKind
      <3>2. e[1] = At(i) /\ e[2] \in {At(w), After(w)}
        BY <2>1, <2>4 DEF JumpEdge, LoopKinds
      <3> HIDE DEF w
      <3>3. w \in Composite(p) /\ w \in Nat /\ ThenBlock(p, w) \in Arms(p, w)
        BY <3>1, Indices DEF Composite, OfKind, Arms
      <3>4. InBlock(w, b) /\ ~InBlock(i, b)
        BY <1>1, <2>2, <3>2, <3>3
      <3>5. Inside(ThenBlock(p, w), b) /\ ThenBlock(p, w) \in Blocks(p)
        BY <3>3, <3>4, ArmInBlock
      <3> QED
        BY <1>0, <2>2, <3>1, <3>4, <3>5, BlockBounds DEF InBlock, Inside
    <2>5. CASE p.kind[i] = "goto"
      <3> DEFINE l == p.jump[i]
      <3>1. l \in OfKind(p, {"label"}) /\ BlockOf(p, l) \in Blocks(p) /\ InBlock(i, BlockOf(p, l))
        BY <2>2, <2>5, GotoJumps DEF OfKind
      <3>2. e[1] = At(i) /\ e[2] = At(l)
        BY <2>1, <2>5 DEF JumpEdge
      <3> HIDE DEF l
      <3>3. l \in Stmts(p) /\ l \in Nat
        BY <3>1, Indices DEF OfKind
      <3>4. InBlock(l, b) /\ ~InBlock(i, b)
        BY <1>1, <2>2, <3>2, <3>3
      <3>5. Inside(BlockOf(p, l), b)
        BY <3>3, <3>4, BlockOfFacts
      <3> QED
        BY <1>0, <2>2, <3>1, <3>4, <3>5, BlockBounds DEF InBlock, Inside
    <2> QED
      BY <2>2, <2>3, <2>4, <2>5 DEF LoopKinds
  <1>8. CASE e = <<BlockOut(p, BodyBlock(p), Entry), Exit(p), "fallthrough">>
    <2>1. e[2] = Exit(p)
      BY <1>8
    <2>2. StmtAt(Exit(p)) = p.n + 1
      BY <1>0 DEF StmtAt, Exit
    <2> QED
      BY <1>0, <2>1, <2>2 DEF InBlock
  <1> QED
    BY <1>3, <1>5, <1>6, <1>7, <1>8, EdgeCases

(* What reads or initialises a variable stands in the block of its         *)
(* definition.                                                             *)
LEMMA UsesInScope ==
    ASSUME NEW p, WellFormed(p), NEW d \in OfKind(p, {"def"}), NEW i \in Stmts(p),
           d \in Reads(p, i) \cup Writes(p, i)
    PROVE  InBlock(i, BlockOf(p, d))
  <1>1. d \in Stmts(p) /\ d \in Nat /\ 1 <= d /\ d <= p.n /\ p.n \in Nat
    BY Indices DEF OfKind
  <1>2. d # 0 /\ d # Param(p)
    BY <1>1 DEF Param
  <1>3. CASE d \in Visible(p, i)
    BY <1>3 DEF Visible, Enclosing
  <1>4. CASE d \in Reads(p, i)
    <2>1. d = p.slot[i]
      BY <1>4 DEF Reads
    <2> QED
      BY <1>2, <1>3, <2>1 DEF WellFormed
  <1>5. CASE d \in Writes(p, i)
    <2>1. d = i \/ (d = p.slot[i] /\ p.kind[i] \in {"assign", "read"})
      BY <1>5 DEF Writes
    <2> QED
      BY <1>1, <1>3, <2>1, BlockOfFacts DEF WellFormed
  <1> QED
    BY <1>4, <1>5

(* A set of nodes some unset path never leaves has the beginning of the    *)
(* scope: the block of d is entered there, and before the first entry      *)
(* nothing initialises d.                                                  *)
LEMMA ScopeEntryUnset ==
    ASSUME NEW p, WellFormed(p), NEW d \in OfKind(p, {"def"}), NEW T, Entry \in T,
           \A e \in EnabledEdges(p) : e[1] \in T /\ d \notin Gained(p, e[1]) => e[2] \in T,
           At(BlockOf(p, d)[1]) \in Reachable(p)
    PROVE  At(BlockOf(p, d)[1]) \in T
  <1> SUFFICES ASSUME At(BlockOf(p, d)[1]) \notin T PROVE FALSE
    OBVIOUS
  <1> DEFINE b == BlockOf(p, d)
             Z == {v \in T \cap Reachable(p) : ~InBlock(StmtAt(v), b)}
  <1>1. /\ b \in Blocks(p) /\ InBlock(d, b) /\ d \in Stmts(p)
        /\ b[1] \in Int /\ 1 <= b[1] /\ b[2] \in Int /\ b[1] < b[2]
    <2>1. d \in Stmts(p) /\ d \in Int
      BY Indices DEF OfKind
    <2> QED
      BY <2>1, BlockOfFacts, BlockBounds DEF InBlock
  <1>2. b[1] \in Stmts(p) /\ InBlock(b[1], b) /\ b[1] \in Nat
    BY <1>1, FirstOfBlock
  <1> HIDE DEF b
  <1>3. Entry \in Z
    <2>1. StmtAt(Entry) = 0
      BY DEF StmtAt, Entry
    <2> QED
      BY <1>1, <2>1, ReachableNodes DEF InBlock
  <1>4. ASSUME NEW e \in EnabledEdges(p), e[1] \in Z PROVE e[2] \in Z
    <2>1. d \notin Gained(p, e[1])
      <3>1. CASE \E j \in Stmts(p) : e[1] = At(j)
        <4>1. PICK j \in Stmts(p) : e[1] = At(j)
          BY <3>1
        <4>2. j \in Nat
          BY Indices
        <4>3. ~InBlock(j, b)
          BY <1>4, <4>1, <4>2, NodeNames
        <4>4. d \notin Writes(p, j)
          BY <4>3, UsesInScope DEF b
        <4> QED
          BY <4>1, <4>4, GainedAt
      <3>2. CASE ~ \E j \in Stmts(p) : e[1] = At(j)
        BY <3>2 DEF Gained
      <3> QED
        BY <3>1, <3>2
    <2>2. e[2] \in T /\ e[2] \in Reachable(p)
      BY <1>4, <2>1, ReachableNodes
    <2>3. ~InBlock(StmtAt(e[2]), b)
      <3> SUFFICES ASSUME InBlock(StmtAt(e[2]), b) PROVE FALSE
        OBVIOUS
      <3>1. e \in Edges(p) /\ ~InBlock(StmtAt(e[1]), b)
        BY <1>4 DEF EnabledEdges
      <3>2. e[2] = At(b[1])
        BY <1>1, <3>1, EntryEdge
      <3> QED
        BY <2>2, <3>2 DEF b
    <2> QED
      BY <2>2, <2>3
  <1> HIDE DEF Z
  <1>5. Reachable(p) \subseteq Z
    <2>1. {Entry} \subseteq Z /\ Cardinality(Nodes(p)) \in Nat
      BY <1>3, NodesFinite
    <2> QED
      BY <1>4, <2>1, ClosureLeast DEF Reachable
  <1>6. At(b[1]) \in Z
    BY <1>5 DEF b
  <1>7. StmtAt(At(b[1])) = b[1]
    BY <1>2, NodeNames
  <1> QED
    BY <1>2, <1>6, <1>7 DEF Z

(* One bit per slot for the whole body is enough: where a node in the      *)
(* scope of d is not reached unset from the entry of the body, it is not   *)
(* reached unset from outside the scope either.                            *)
LEMMA ScopesAgree ==
    ASSUME WellFormed(prog), NEW d \in OfKind(prog, {"def"}), NEW i \in Stmts(prog),
           InBlock(i, BlockOf(prog, d)), At(i) \in Reachable(prog),
           NEW T, Entry \in T, At(i) \notin T,
           \A e \in EnabledEdges(prog) : e[1] \in T /\ d \notin Gained(prog, e[1]) => e[2] \in T
    PROVE  At(i) \notin UnsetInScope(d)
  <1> DEFINE b == BlockOf(prog, d)
             O == {v \in Reachable(prog) : ~InBlock(StmtAt(v), b)}
             E == {e \in EnabledEdges(prog) :
                      \A j \in Stmts(prog) : d \in Writes(prog, j) => e[1] # At(j)}
             U == {v \in T : v \in Reachable(prog)} \cup O
  <1>1. Entry \in Reachable(prog)
    BY ReachableNodes
  <1>2. {Entry} \cup O \subseteq U
    BY <1>1
  <1>3. b \in Blocks(prog)
    BY BlockOfFacts DEF OfKind
  <1>4. ASSUME NEW e \in E, e[1] \in U PROVE e[2] \in U
    <2>1. e \in EnabledEdges(prog) /\ e \in Edges(prog) /\ \A j \in Stmts(prog) : d \in Writes(prog, j) => e[1] # At(j)
      BY DEF EnabledEdges
    <2>2. e[1] \in Reachable(prog) /\ e[2] \in Reachable(prog)
      BY <1>4, <2>1, ReachableNodes
    <2>3. d \notin Gained(prog, e[1])
      <3>1. CASE \E j \in Stmts(prog) : e[1] = At(j)
        BY <2>1, <3>1, GainedAt
      <3>2. CASE ~ \E j \in Stmts(prog) : e[1] = At(j)
        BY <3>2 DEF Gained
      <3> QED
        BY <3>1, <3>2
    <2>4. CASE e[1] \in T
      BY <2>1, <2>2, <2>3, <2>4
    <2>5. CASE e[1] \in O
      <3>1. CASE ~InBlock(StmtAt(e[2]), b)
        BY <2>2, <3>1
      <3>2. CASE InBlock(StmtAt(e[2]), b)
        <4>1. e[2] = At(b[1])
          BY <1>3, <2>1, <2>5, <3>2, EntryEdge
        <4> HIDE DEF b
        <4>2. e[2] \in T
          BY <2>2, <4>1, ScopeEntryUnset DEF b
        <4> QED
          BY <2>2, <4>2
      <3> QED
        BY <3>1, <3>2
    <2> QED
      BY <1>4, <2>4, <2>5
  <1>5. UnsetInScope(d) = Closure({Entry} \cup O, E, Cardinality(Nodes(prog)))
    BY DEF UnsetInScope
  <1>6. At(i) \notin U
    <2>1. StmtAt(At(i)) = i
      BY Indices, NodeNames
    <2> QED
      BY <2>1
  <1> HIDE DEF b, O, E, U
  <1>7. UnsetInScope(d) \subseteq U
    BY <1>2, <1>4, <1>5, NodesFinite, ClosureLeast
  <1> QED
    BY <1>6, <1>7

(* The standard clears a variable's initialised state on leaving its       *)
(* scope; the verdict of the analysis, which never does, is the same.      *)
THEOREM OneBitPerSlot == Spec => []LifetimesAgree
  <1>1. RunInv /\ F!VerdictIsPathVerdict => LifetimesAgree
    <2> SUFFICES ASSUME RunInv, F!VerdictIsPathVerdict, stage \notin {"analysis", "uninitialized"},
                        NEW d \in OfKind(prog, {"def"}), NEW i \in Stmts(prog),
                        d \in Reads(prog, i), At(i) \in Reachable(prog)
                 PROVE  At(i) \notin UnsetInScope(d)
      BY DEF LifetimesAgree
    <2>1. WellFormed(prog) /\ g = Graph(prog) /\ verdict = "accept"
      BY DEF RunInv, StageOK, ExecInv
    <2>2. /\ g.nodes = Reachable(prog)
          /\ g.edges = {<<e[1], e[2]>> : e \in {f \in EnabledEdges(prog) : f[1] \in Reachable(prog)}}
          /\ g.gen = [v \in Reachable(prog) |-> Gained(prog, v)]
          /\ g.reads = [v \in Reachable(prog) |-> Asked(prog, v)]
          /\ g.params = {Param(prog)}
      BY <2>1, GraphFields
    <2>3. d \in g.reads[At(i)]
      BY <2>1, <2>2, AskedAt
    <2>4. At(i) \notin F!MayBeUnset(d)
      <3>1. \A v \in g.nodes : g.reads[v] \subseteq F!SetOnEveryPath(v)
        BY <2>1 DEF F!VerdictIsPathVerdict
      <3> QED
        BY <2>2, <2>3, <3>1 DEF F!SetOnEveryPath
    <2>5. PICK T \in SUBSET g.nodes : F!CarriesUnset(d, T) /\ At(i) \notin T
      BY <2>2, <2>4 DEF F!MayBeUnset
    <2>6. Entry \in T
      <3>1. d # Param(prog)
        BY <2>1, Indices DEF OfKind, Param
      <3>2. d \notin g.params
        BY <2>2, <3>1
      <3>3. F!EntryNode = Entry
        BY DEF F!EntryNode, Entry
      <3> QED
        BY <2>5, <3>2, <3>3 DEF F!CarriesUnset
    <2>7. ASSUME NEW e \in EnabledEdges(prog), e[1] \in T, d \notin Gained(prog, e[1]) PROVE e[2] \in T
      <3>1. e[1] \in Reachable(prog)
        BY <2>2, <2>5, <2>7
      <3> DEFINE f == <<e[1], e[2]>>
      <3>2. f \in g.edges /\ f[1] = e[1] /\ f[2] = e[2]
        BY <2>2, <3>1
      <3>3. d \notin g.gen[e[1]]
        BY <2>2, <2>7, <3>1
      <3> HIDE DEF f
      <3> QED
        BY <2>5, <2>7, <3>2, <3>3 DEF F!CarriesUnset
    <2> QED
      BY <2>1, <2>5, <2>6, <2>7, UsesInScope, ScopesAgree
  <1> QED
    BY <1>1, RunInvariance, VerdictFacts, PTL
=============================================================================
