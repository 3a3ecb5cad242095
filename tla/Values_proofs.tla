---------------------------- MODULE Values_proofs ----------------------------
(***************************************************************************)
(* Value semantics, for every program: what a variable refers to is its    *)
(* own, until a handle of its type is stored, and the statements are those *)
(* of variables that own their values. What a block holds always has its   *)
(* type, so blocks are left only where their sizes are wrong.              *)
(***************************************************************************)
EXTENDS Values, SequenceTheorems, TLAPS

(* The parts of the inductive invariant.                                   *)
Slotted ==
    /\ slots = [v \in Vars |-> slots[v]]
    /\ heap = [h \in Handles |-> heap[h]]
    /\ defined \subseteq Vars
    /\ \A v \in Vars :
        IF v \in defined THEN Aggregate(v) => slots[v] \in Handles ELSE slots[v] = Unset

(* Pointers point to variables that have a value, of their type.           *)
Pointed ==
    /\ ptr = [p \in Pointers |-> ptr[p]]
    /\ \A p \in Pointers :
        ptr[p] # Null => ptr[p] \in defined /\ TypeOf[ptr[p]] = Pointee[p]

(* The block a field assignment will write to has its base's type, and is  *)
(* no one's but its base's if handles of the type are not stored.          *)
Assignment == [base : Vars, block : Handles, field : Fields]
Awaited ==
    /\ pending \in Seq(Assignment)
    /\ \A k \in DOMAIN pending :
        /\ pending[k].base \in defined /\ TypeOf[pending[k].base] \in Structs
        /\ pending[k].field \in 0 .. Width(TypeOf[pending[k].base]) - 1
        /\ \A b \in Bindings :
            Aggregate(b) /\ IsSet(b) /\ Bits(b) = pending[k].block /\ b # pending[k].base
                => TypeOf[b] = TypeOf[pending[k].base] /\ TypeOf[b] \in shared

(* What a binding stands for has its type.                                 *)
Held == \A b \in Bindings : IsSet(b) => Contents(b) \in ValuesOf(TypeOf[b])

IInv == Slotted /\ Pointed /\ Awaited /\ Held /\ OwnedBlocks /\ LetsNeverChange

-----------------------------------------------------------------------------
(* Every type is an aggregate or the scalar, and of one kind.              *)
LEMMA Kinds ==
    ASSUME NEW b \in Bindings
    PROVE  /\ TypeOf[b] \in Types
           /\ Aggregate(b) <=> TypeOf[b] \in Structs \cup Memblocks
           /\ ~(TypeOf[b] \in Structs /\ TypeOf[b] \in Memblocks)
           /\ b \in Lets => Aggregate(b)
BY TablesAssumption, BindingsAssumption DEF Bindings, Aggregate, Types

(* The first cell of an element comes after the header.                    *)
LEMMA AfterHeader ==
    ASSUME NEW T \in Memblocks, NEW i \in Nat
    PROVE  Stride(T) \in Nat \ {0} /\ At(T, i) \in Nat \ {0}
<1>1. Stride(T) \in Nat \ {0}
  BY TablesAssumption DEF Stride, Types
<1>2. \A s \in Nat : i * s \in Nat
  OBVIOUS
<1> QED
  BY <1>1, <1>2 DEF At

(* The cells of a type, one by one.                                        *)
LEMMA CellsOf ==
    ASSUME NEW T \in Structs \cup Memblocks
    PROVE  /\ Width(T) \in Nat \ {0}
           /\ T \in Structs =>
                Width(T) = CellCount[T] /\ ValuesOf(T) = [0 .. Width(T) - 1 -> Scalars]
           /\ T \in Memblocks =>
                /\ Count[T] \in Nat \ {0} /\ Stride(T) \in Nat \ {0}
                /\ Width(T) = 1 + Count[T] * Stride(T)
                /\ \A x : x \in ValuesOf(T) <=>
                        /\ x = [k \in 0 .. Width(T) - 1 |-> x[k]]
                        /\ x[0] = Count[T]
                        /\ \A k \in 1 .. Width(T) - 1 : x[k] \in Scalars
<1>1. CASE T \in Structs
  <2>1. T \notin Memblocks /\ T # "scalar"
    BY <1>1, TablesAssumption
  <2> QED
    BY <1>1, <2>1, TablesAssumption DEF Width, ValuesOf
<1>2. CASE T \in Memblocks
  <2>1. T \notin Structs /\ T # "scalar"
    BY <1>2, TablesAssumption
  <2>2. Count[T] \in Nat \ {0} /\ Stride(T) \in Nat \ {0}
    BY <1>2, TablesAssumption DEF Stride, Types
  <2>3. Width(T) = 1 + Count[T] * Stride(T)
    BY <1>2 DEF Width
  <2>4. \A m, s \in Nat : m * s \in Nat
    OBVIOUS
  <2>5. Width(T) \in Nat \ {0}
    BY <2>2, <2>3, <2>4
  <2> DEFINE made(cells) == [k \in 0 .. Width(T) - 1 |-> IF k = 0 THEN Count[T] ELSE cells[k]]
  <2>6. ValuesOf(T) = {made(cells) : cells \in [1 .. Width(T) - 1 -> Scalars]}
    BY <2>1, <1>2 DEF ValuesOf
  <2>7. ASSUME NEW x \in ValuesOf(T)
        PROVE  /\ x = [k \in 0 .. Width(T) - 1 |-> x[k]]
               /\ x[0] = Count[T]
               /\ \A k \in 1 .. Width(T) - 1 : x[k] \in Scalars
    <3>1. PICK cells \in [1 .. Width(T) - 1 -> Scalars] : x = made(cells)
      BY <2>6
    <3>2. 0 \in 0 .. Width(T) - 1 /\ \A k \in 1 .. Width(T) - 1 : k \in 0 .. Width(T) - 1 /\ k # 0
      BY <2>5
    <3> QED
      BY <3>1, <3>2
  <2>8. ASSUME NEW x, x = [k \in 0 .. Width(T) - 1 |-> x[k]], x[0] = Count[T],
               \A k \in 1 .. Width(T) - 1 : x[k] \in Scalars
        PROVE  x \in ValuesOf(T)
    <3> DEFINE cells == [k \in 1 .. Width(T) - 1 |-> x[k]]
    <3>1. cells \in [1 .. Width(T) - 1 -> Scalars]
      BY <2>8
    <3>2. \A k \in 0 .. Width(T) - 1 : k # 0 => k \in 1 .. Width(T) - 1
      BY <2>5
    <3>3. made(cells) = x
      BY <2>8, <3>2
    <3> QED
      BY <2>6, <3>1, <3>3
  <2> QED
    BY <1>2, <2>1, <2>2, <2>3, <2>5, <2>7, <2>8
<1> QED
  BY <1>1, <1>2

(* Every memblock has its declared count in its header.                    *)
HasHeader(T, cells) ==
    /\ cells = [k \in DOMAIN cells |-> cells[k]]
    /\ 0 \in DOMAIN cells /\ Header(cells) = Count[T]

(* The values of a memblock type have the header.                          *)
LEMMA MadeWithHeader ==
    ASSUME NEW T \in Memblocks, NEW x \in ValuesOf(T)
    PROVE  HasHeader(T, x)
<1>1. T # "scalar" /\ T \notin Structs
  BY TablesAssumption
<1>2. PICK cells : x = [k \in 0 .. Width(T) - 1 |-> IF k = 0 THEN Count[T] ELSE cells[k]]
  BY <1>1 DEF ValuesOf
<1>3. Width(T) \in Nat \ {0}
  <2>1. Stride(T) \in Nat /\ Count[T] \in Nat
    BY TablesAssumption, AfterHeader
  <2>2. \A m, s \in Nat : m * s \in Nat
    OBVIOUS
  <2> QED
    BY <2>1, <2>2 DEF Width
<1>4. 0 \in 0 .. Width(T) - 1
  BY <1>3
<1> QED
  BY <1>2, <1>4 DEF HasHeader, Header

(* Cloning a memblock with its header changes nothing.                     *)
LEMMA CloneIsCopy ==
    ASSUME NEW T, NEW x, T \in Memblocks => HasHeader(T, x)
    PROVE  Cloned(T, x) = x
<1>1. CASE T \in Memblocks
  <2>1. x = [k \in DOMAIN x |-> x[k]] /\ 0 \in DOMAIN x /\ x[0] = Count[T]
    BY <1>1 DEF HasHeader, Header
  <2>2. [x EXCEPT ![0] = Count[T]] = x
    BY <2>1
  <2> QED
    BY <1>1, <2>2 DEF Cloned
<1>2. CASE T \notin Memblocks
  BY <1>2 DEF Cloned
<1> QED
  BY <1>1, <1>2

(* Where the cells of an element, or of a range of them, are.              *)
LEMMA CellsInside ==
    ASSUME NEW T \in Memblocks, NEW i \in Nat, NEW n \in Nat, Covers(T, i, n)
    PROVE  /\ At(T, i) \in Nat \ {0} /\ At(T, i + n) = At(T, i) + n * Stride(T)
           /\ n * Stride(T) \in Nat
           /\ At(T, i + n) <= Width(T)
<1>1. /\ Count[T] \in Nat /\ Stride(T) \in Nat /\ Width(T) = 1 + Count[T] * Stride(T)
      /\ i + n <= Count[T]
  BY CellsOf DEF Covers
<1>2. \A a, c, s \in Nat : a <= c => a * s <= c * s
  OBVIOUS
<1>3. \A a, b, s \in Nat : a * s \in Nat /\ (a + b) * s = a * s + b * s
  OBVIOUS
<1>4. /\ (i + n) * Stride(T) <= Count[T] * Stride(T)
      /\ i * Stride(T) \in Nat /\ n * Stride(T) \in Nat /\ Count[T] * Stride(T) \in Nat
      /\ (i + n) * Stride(T) = i * Stride(T) + n * Stride(T)
  BY <1>1, <1>2, <1>3
<1> QED
  BY <1>1, <1>4 DEF At

(* The type of the elements: as many cells as the stride.                  *)
LEMMA ElementCells ==
    ASSUME NEW T \in Memblocks, Element[T] \notin Memblocks
    PROVE  \/ Element[T] = "scalar" /\ Stride(T) = 1 /\ ValuesOf(Element[T]) = Scalars
           \/ /\ Element[T] \in Structs /\ Element[T] # "scalar"
              /\ ValuesOf(Element[T]) = [0 .. Stride(T) - 1 -> Scalars]
<1>1. Element[T] \in Structs \cup {"scalar"} /\ "scalar" \notin Structs
  BY TablesAssumption DEF Types
<1>2. CASE Element[T] = "scalar"
  <2>1. Stride(T) = 1
    BY <1>1, <1>2 DEF Stride
  <2>2. \A U : U = "scalar" => ValuesOf(U) = Scalars
    BY TablesAssumption DEF ValuesOf
  <2> QED
    BY <1>2, <2>1, <2>2
<1>3. CASE Element[T] \in Structs
  BY <1>1, <1>3, CellsOf DEF Stride
<1> QED
  BY <1>1, <1>2, <1>3

(* What is read from a memblock has the type of its elements.              *)
LEMMA ElementTyped ==
    ASSUME NEW T \in Memblocks, NEW x \in ValuesOf(T), NEW i \in Nat, Covers(T, i, 1),
           Element[T] \notin Memblocks
    PROVE  ElementAt(T, x, i) \in ValuesOf(Element[T])
<1>1. /\ At(T, i) \in Nat \ {0} /\ At(T, i) + Stride(T) <= Width(T)
      /\ Stride(T) \in Nat \ {0} /\ Width(T) \in Nat
      /\ \A k \in 1 .. Width(T) - 1 : x[k] \in Scalars
  <2>1. Stride(T) \in Nat \ {0} /\ Width(T) \in Nat
    BY CellsOf
  <2>2. At(T, i) \in Nat \ {0} /\ At(T, i + 1) = At(T, i) + 1 * Stride(T)
        /\ At(T, i + 1) <= Width(T)
    BY CellsInside
  <2>3. 1 * Stride(T) = Stride(T)
    BY <2>1
  <2> QED
    BY <2>1, <2>2, <2>3, CellsOf
<1>2. \A k \in 0 .. Stride(T) - 1 : At(T, i) + k \in 1 .. Width(T) - 1
  BY <1>1
<1>3. CASE Element[T] = "scalar"
  <2>1. At(T, i) \in 1 .. Width(T) - 1
    BY <1>1
  <2> QED
    BY <1>1, <1>3, <2>1, ElementCells, TablesAssumption DEF ElementAt
<1>4. CASE Element[T] # "scalar"
  <2>1. ElementAt(T, x, i) = [k \in 0 .. Stride(T) - 1 |-> x[At(T, i) + k]]
    BY <1>4 DEF ElementAt
  <2>2. ElementAt(T, x, i) \in [0 .. Stride(T) - 1 -> Scalars]
    BY <1>1, <1>2, <2>1
  <2> QED
    BY <1>4, <2>2, ElementCells
<1> QED
  BY <1>3, <1>4

(* A memblock some of whose cells are replaced by scalars is one still.    *)
LEMMA CellsReplaced ==
    ASSUME NEW T \in Memblocks, NEW x \in ValuesOf(T), NEW C, 0 \notin C,
           NEW y, y = [k \in DOMAIN x |-> y[k]],
           \A k \in 1 .. Width(T) - 1 : k \in C => y[k] \in Scalars,
           \A k \in DOMAIN x : k \notin C => y[k] = x[k]
    PROVE  y \in ValuesOf(T)
<1>1. /\ x = [k \in 0 .. Width(T) - 1 |-> x[k]] /\ x[0] = Count[T]
      /\ \A k \in 1 .. Width(T) - 1 : x[k] \in Scalars
      /\ Width(T) \in Nat \ {0}
  BY CellsOf
<1>2. DOMAIN x = 0 .. Width(T) - 1
  BY <1>1
<1>3. y = [k \in 0 .. Width(T) - 1 |-> y[k]]
  BY <1>2
<1>4. y[0] = Count[T]
  <2>1. 0 \in 0 .. Width(T) - 1
    BY <1>1
  <2>2. 0 \in DOMAIN x
    BY <1>2, <2>1
  <2>3. y[0] = x[0]
    BY <2>2
  <2>4. x[0] = Count[T]
    BY CellsOf
  <2> QED
    BY <2>3, <2>4, Zenon
<1>5. ASSUME NEW k \in 1 .. Width(T) - 1 PROVE y[k] \in Scalars
  <2>1. k \in DOMAIN x
    <3>1. k \in 0 .. Width(T) - 1
      BY <1>1
    <3> QED
      BY <1>2, <3>1
  <2>2. x[k] \in Scalars
    BY CellsOf
  <2>3. CASE k \in C
    BY <2>3
  <2>4. CASE k \notin C
    BY <2>1, <2>2, <2>4
  <2> QED
    BY <2>3, <2>4
<1> QED
  BY <1>3, <1>4, <1>5, CellsOf

LEMMA WithElementTyped ==
    ASSUME NEW T \in Memblocks, NEW x \in ValuesOf(T), NEW i \in Nat,
           NEW e \in ValuesOf(Element[T]), Element[T] \notin Memblocks
    PROVE  WithElement(T, x, i, e) \in ValuesOf(T)
<1> DEFINE C == At(T, i) .. At(T, i) + Stride(T) - 1
           y == WithElement(T, x, i, e)
<1>1. At(T, i) \in Nat \ {0} /\ Stride(T) \in Nat \ {0}
  BY AfterHeader
<1>2. y = [k \in DOMAIN x |->
            IF k \in C THEN IF Element[T] = "scalar" THEN e ELSE e[k - At(T, i)] ELSE x[k]]
  BY DEF WithElement
<1>3. 0 \notin C
  BY <1>1
<1>4. ASSUME NEW k \in 1 .. Width(T) - 1, k \in C PROVE y[k] \in Scalars
  <2>1. k \in DOMAIN x
    BY CellsOf
  <2>2. k - At(T, i) \in 0 .. Stride(T) - 1
    BY <1>1, <1>4
  <2>3. CASE Element[T] = "scalar"
    BY <1>2, <1>4, <2>1, <2>3, ElementCells, TablesAssumption
  <2>4. CASE Element[T] # "scalar"
    <3>1. e[k - At(T, i)] \in Scalars
      BY <2>2, <2>4, ElementCells
    <3> QED
      BY <1>2, <1>4, <2>1, <2>4, <3>1
  <2> QED
    BY <2>3, <2>4
<1>5. y = [k \in DOMAIN x |-> y[k]] /\ \A k \in DOMAIN x : k \notin C => y[k] = x[k]
  BY <1>2
<1> HIDE DEF C, y
<1>6. y \in ValuesOf(T)
  BY <1>3, <1>4, <1>5, CellsReplaced
<1> QED
  BY <1>6 DEF y

LEMMA WithRangeTyped ==
    ASSUME NEW T \in Memblocks, NEW U \in Memblocks, Element[T] = Element[U],
           NEW x \in ValuesOf(T), NEW z \in ValuesOf(U),
           NEW i \in Nat, NEW j \in Nat, NEW n \in Nat, Covers(T, i, n), Covers(U, j, n)
    PROVE  WithRange(T, x, i, z, j, n) \in ValuesOf(T)
<1> DEFINE C == At(T, i) .. At(T, i + n) - 1
           y == WithRange(T, x, i, z, j, n)
<1>0. Stride(T) = Stride(U) /\ At(T, j) = At(U, j) /\ At(T, j + n) = At(U, j + n)
  BY DEF Stride, At
<1>1. /\ At(T, i) \in Nat \ {0} /\ At(T, i + n) = At(T, i) + n * Stride(T)
      /\ At(T, j) \in Nat \ {0} /\ At(T, j + n) = At(T, j) + n * Stride(T)
      /\ n * Stride(T) \in Nat /\ At(T, j + n) <= Width(U) /\ Width(U) \in Nat
  <2>1. /\ At(U, j) \in Nat \ {0} /\ At(U, j + n) = At(U, j) + n * Stride(U)
        /\ At(U, j + n) <= Width(U) /\ Width(U) \in Nat
    BY CellsInside, CellsOf
  <2> QED
    BY <1>0, <2>1, CellsInside
<1>2. y = [k \in DOMAIN x |-> IF k \in C THEN z[k - At(T, i) + At(T, j)] ELSE x[k]]
  BY DEF WithRange
<1>3. 0 \notin C
  BY <1>1
<1>4. ASSUME NEW k \in 1 .. Width(T) - 1, k \in C PROVE y[k] \in Scalars
  <2>1. k \in DOMAIN x
    BY CellsOf
  <2>2. k - At(T, i) + At(T, j) \in 1 .. Width(U) - 1
    BY <1>1, <1>4
  <2>3. z[k - At(T, i) + At(T, j)] \in Scalars
    BY <2>2, CellsOf
  <2> QED
    BY <1>2, <1>4, <2>1, <2>3
<1>5. y = [k \in DOMAIN x |-> y[k]] /\ \A k \in DOMAIN x : k \notin C => y[k] = x[k]
  BY <1>2
<1> HIDE DEF C, y
<1>6. y \in ValuesOf(T)
  BY <1>3, <1>4, <1>5, CellsReplaced
<1> QED
  BY <1>6 DEF y

(* An allocation is of a block nothing refers to.                          *)
LEMMA FreshIsFresh ==
    ASSUME Unreferred # {}
    PROVE  Fresh \in Handles /\ Fresh \notin Referred
BY DEF Fresh, Unreferred

-----------------------------------------------------------------------------
(* What an aggregate stands for is in its block, and a scalar in its slot. *)
LEMMA WhereItIs ==
    ASSUME IInv, NEW b \in Bindings, IsSet(b)
    PROVE  /\ Aggregate(b) => Bits(b) \in Handles /\ Contents(b) = heap[Bits(b)]
           /\ ~Aggregate(b) => b \in Vars /\ b \in defined /\ Contents(b) = slots[b]
           /\ Contents(b) \in ValuesOf(TypeOf[b])
<1>1. Contents(b) \in ValuesOf(TypeOf[b])
  BY DEF IInv, Held
<1>2. CASE b \in Lets
  BY <1>1, <1>2, Kinds, BindingsAssumption DEF Contents, Bits
<1>3. CASE b \notin Lets
  <2>1. b \in Vars /\ b \in defined
    BY <1>3 DEF Bindings, IsSet
  <2> QED
    BY <1>1, <1>3, <2>1 DEF IInv, Slotted, Contents, Bits
<1> QED
  BY <1>2, <1>3

(* The blocks are of values of their types, if nothing else is known of    *)
(* them than what they hold and who has them.                              *)
LEMMA HeldAfter ==
    ASSUME \A b \in Bindings : IsSet(b)' =>
              IF Aggregate(b) THEN heap'[Bits(b)'] \in ValuesOf(TypeOf[b])
              ELSE slots'[b] \in ValuesOf(TypeOf[b])
    PROVE  Held'
BY DEF Held, Contents, Aggregate

(* A variable that is given a scalar: nobody's block changes.              *)
LEMMA ScalarStored ==
    ASSUME IInv, NEW v \in Vars, ~Aggregate(v), NEW x \in ValuesOf(TypeOf[v]),
           StoreBits(v, x), UNCHANGED <<heap, ptr, pending, shared>>
    PROVE  IInv'
<1> USE BindingsAssumption
<1>1. \A w \in Vars : w # v => slots'[w] = slots[w]
  BY DEF StoreBits, IInv, Slotted
<1>2. \A b \in Bindings : Aggregate(b) => (Bits(b)' = Bits(b) /\ (IsSet(b)' <=> IsSet(b)))
  BY <1>1 DEF Bits, IsSet, StoreBits, Bindings
<1>3. Slotted'
  BY <1>1 DEF IInv, Slotted, StoreBits, Aggregate
<1>4. Pointed'
  BY DEF IInv, Pointed, StoreBits
<1>5. Awaited'
  BY <1>2 DEF IInv, Awaited, StoreBits, Aggregate
<1>6. Held'
  <2>1. ASSUME NEW b \in Bindings, IsSet(b)'
        PROVE  IF Aggregate(b) THEN heap'[Bits(b)'] \in ValuesOf(TypeOf[b])
               ELSE slots'[b] \in ValuesOf(TypeOf[b])
    <3>1. CASE Aggregate(b)
      BY <2>1, <3>1, <1>2, WhereItIs
    <3>2. CASE b = v
      BY <3>2 DEF IInv, Slotted, StoreBits
    <3>3. CASE ~Aggregate(b) /\ b # v
      <4>1. IsSet(b)
        BY <2>1, <3>3 DEF IsSet, StoreBits
      <4>2. b \in Vars /\ Contents(b) = slots[b] /\ Contents(b) \in ValuesOf(TypeOf[b])
        BY <3>3, <4>1, WhereItIs
      <4> QED
        BY <3>3, <4>2, <1>1
    <3> QED
      BY <3>1, <3>2, <3>3
  <2> QED
    BY <2>1, HeldAfter
<1>7. OwnedBlocks'
  BY <1>2 DEF IInv, OwnedBlocks, Aggregate
<1>8. LetsNeverChange'
  BY DEF IInv, LetsNeverChange
<1> QED
  BY <1>3, <1>4, <1>5, <1>6, <1>7, <1>8 DEF IInv

(* What a clone into a slot does to handles and blocks: the variable's     *)
(* block is new, all others are as they were.                              *)
LEMMA ClonedIntoSlot ==
    ASSUME IInv, NEW v \in Vars, Aggregate(v), NEW x \in ValuesOf(TypeOf[v]), StoreValue(v, x)
    PROVE  /\ Fresh \in Handles /\ Fresh \notin Referred
           /\ StoreBits(v, Fresh)
           /\ heap' = [heap EXCEPT ![Fresh] = x]
           /\ slots'[v] = Fresh /\ heap'[Fresh] = x
           /\ \A w \in Vars : w # v => slots'[w] = slots[w]
           /\ \A h \in Handles : h # Fresh => heap'[h] = heap[h]
           /\ \A b \in Bindings :
                /\ IsSet(b)' <=> IsSet(b) \/ b = v
                /\ b # v => Bits(b)' = Bits(b) /\ Bits(b)' # Fresh
           /\ Bits(v)' = Fresh
<1> USE BindingsAssumption
<1>1. Fresh \in Handles /\ Fresh \notin Referred
  BY FreshIsFresh DEF StoreValue
<1>2. StoreBits(v, Fresh) /\ heap' = [heap EXCEPT ![Fresh] = x]
  BY CloneIsCopy, MadeWithHeader DEF StoreValue
<1>3. slots'[v] = Fresh /\ heap'[Fresh] = x
  BY <1>1, <1>2 DEF IInv, Slotted, StoreBits
<1>4. \A w \in Vars : w # v => slots'[w] = slots[w]
  BY <1>2 DEF IInv, Slotted, StoreBits
<1>5. \A h \in Handles : h # Fresh => heap'[h] = heap[h]
  BY <1>2 DEF IInv, Slotted
<1>6. \A b \in Bindings : Bits(b) # Fresh
  BY <1>1 DEF Referred, Bits, Bindings
<1>7. \A b \in Bindings : b # v => Bits(b)' = Bits(b)
  BY <1>4 DEF Bits, Bindings
<1>8. \A b \in Bindings : IsSet(b)' <=> IsSet(b) \/ b = v
  BY <1>2 DEF IsSet, StoreBits
<1>9. Bits(v)' = Fresh
  BY <1>3 DEF Bits
<1> QED
  BY <1>1, <1>2, <1>3, <1>4, <1>5, <1>6, <1>7, <1>8, <1>9

LEMMA ClonedKeeps ==
    ASSUME IInv, NEW v \in Vars, Aggregate(v), NEW x \in ValuesOf(TypeOf[v]), StoreValue(v, x),
           UNCHANGED <<ptr, pending, shared>>
    PROVE  IInv'
<1> USE ClonedIntoSlot, BindingsAssumption
<1>1. Slotted'
  BY DEF IInv, Slotted, StoreBits, Aggregate
<1>2. Pointed'
  BY DEF IInv, Pointed, StoreBits
<1>3. \A k \in DOMAIN pending : pending[k].block # Fresh
  BY DEF Referred
<1>4. Awaited'
  <2>1. ASSUME NEW k \in DOMAIN pending, NEW b \in Bindings,
               Aggregate(b), IsSet(b)', Bits(b)' = pending[k].block, b # pending[k].base
        PROVE  TypeOf[b] = TypeOf[pending[k].base] /\ TypeOf[b] \in shared
    BY <2>1, <1>3 DEF IInv, Awaited
  <2> QED
    BY <2>1 DEF IInv, Awaited, StoreBits, Aggregate
<1>5. Held'
  <2>1. ASSUME NEW b \in Bindings, IsSet(b)'
        PROVE  IF Aggregate(b) THEN heap'[Bits(b)'] \in ValuesOf(TypeOf[b])
               ELSE slots'[b] \in ValuesOf(TypeOf[b])
    <3>1. CASE b = v
      BY <3>1, <2>1
    <3>2. CASE b # v
      <4>1. IsSet(b) /\ Bits(b)' = Bits(b) /\ Bits(b) # Fresh
        BY <2>1, <3>2
      <4>2. /\ Aggregate(b) => Bits(b) \in Handles /\ Contents(b) = heap[Bits(b)]
            /\ ~Aggregate(b) => b \in Vars /\ Contents(b) = slots[b]
            /\ Contents(b) \in ValuesOf(TypeOf[b])
        BY <4>1, WhereItIs
      <4> QED
        BY <4>1, <4>2, <3>2
    <3> QED
      BY <3>1, <3>2
  <2> QED
    BY <2>1, HeldAfter
<1>6. OwnedBlocks'
  BY DEF IInv, OwnedBlocks, Aggregate
<1>7. LetsNeverChange'
  BY DEF IInv, LetsNeverChange, Referred
<1> QED
  BY <1>1, <1>2, <1>4, <1>5, <1>6, <1>7 DEF IInv

(* The block of an aggregate variable is written in place, for all that    *)
(* have it.                                                                *)
LEMMA WrittenKeeps ==
    ASSUME IInv, NEW v \in defined, Aggregate(v), NEW x \in ValuesOf(TypeOf[v]), Written(v, x)
    PROVE  IInv'
<1> USE BindingsAssumption
<1>1. /\ v \in Bindings /\ IsSet(v) /\ Bits(v) = slots[v] /\ slots[v] \in Handles
      /\ heap' = [heap EXCEPT ![slots[v]] = x]
      /\ UNCHANGED <<slots, defined, ptr, pending, shared>>
  BY DEF IInv, Slotted, Written, Bindings, IsSet, Bits
<1>2. \A b \in Bindings : (Bits(b)' = Bits(b)) /\ (IsSet(b)' <=> IsSet(b))
  BY <1>1 DEF Bits, IsSet
<1>3. Slotted' /\ Pointed'
  BY <1>1 DEF IInv, Slotted, Pointed, Aggregate
<1>4. OwnedBlocks'
  BY <1>1, <1>2 DEF IInv, OwnedBlocks, Aggregate
<1>5. Awaited'
  BY <1>1, <1>2 DEF IInv, Awaited, Aggregate
<1>6. heap'[slots[v]] = x /\ \A h \in Handles : h # slots[v] => heap'[h] = heap[h]
  BY <1>1 DEF IInv, Slotted
<1>7. Held'
  <2>1. ASSUME NEW b \in Bindings, IsSet(b)'
        PROVE  IF Aggregate(b) THEN heap'[Bits(b)'] \in ValuesOf(TypeOf[b])
               ELSE slots'[b] \in ValuesOf(TypeOf[b])
    <3>1. IsSet(b) /\ Bits(b)' = Bits(b)
      BY <2>1, <1>2
    <3>2. /\ Aggregate(b) => Bits(b) \in Handles /\ Contents(b) = heap[Bits(b)]
          /\ ~Aggregate(b) => b \in Vars /\ Contents(b) = slots[b]
          /\ Contents(b) \in ValuesOf(TypeOf[b])
      BY <3>1, WhereItIs
    <3>3. ASSUME Aggregate(b), Bits(b) = slots[v] PROVE TypeOf[b] = TypeOf[v]
      BY <3>1, <3>3, <1>1 DEF IInv, OwnedBlocks
    <3> QED
      BY <3>1, <3>2, <3>3, <1>1, <1>6
  <2> QED
    BY <2>1, HeldAfter
<1>8. LetsNeverChange'
  <2>1. ASSUME NEW c \in Lets, TypeOf[c] \notin shared
        PROVE  LetBlock[c] # slots[v]
    <3>1. c \in Bindings /\ Aggregate(c) /\ IsSet(c) /\ Bits(c) = LetBlock[c] /\ c # v
      BY <1>1, Kinds DEF Bindings, IsSet, Bits, IInv, Slotted
    <3> QED
      BY <2>1, <3>1, <1>1 DEF IInv, OwnedBlocks
  <2> QED
    BY <2>1, <1>1, <1>6 DEF IInv, LetsNeverChange
<1> QED
  BY <1>3, <1>4, <1>5, <1>7, <1>8 DEF IInv

(* A handle is stored as it is: its block is the variable's too from now   *)
(* on, and its type is one of those that are shared.                       *)
LEMMA HandleStored ==
    ASSUME IInv, NEW v \in Vars, Aggregate(v), NEW b \in Bindings, IsSet(b),
           TypeOf[b] = TypeOf[v], StoreBits(v, Bits(b)),
           shared' = shared \cup {TypeOf[v]}, UNCHANGED <<heap, ptr, pending>>
    PROVE  IInv'
<1> USE BindingsAssumption
<1>1. /\ slots' = [slots EXCEPT ![v] = Bits(b)] /\ slots'[v] = Bits(b)
      /\ \A w \in Vars : w # v => slots'[w] = slots[w]
      /\ defined' = defined \cup {v}
  BY DEF StoreBits, IInv, Slotted
<1>2. Aggregate(b) /\ v \in Bindings /\ v \notin Lets
  BY DEF Aggregate, Bindings
<1>3. Bits(b) \in Handles /\ Contents(b) = heap[Bits(b)] /\ Contents(b) \in ValuesOf(TypeOf[b])
  BY <1>2, WhereItIs
<1>4. /\ \A d \in Bindings : d # v => Bits(d)' = Bits(d) /\ (IsSet(d)' <=> IsSet(d))
      /\ Bits(v)' = Bits(b)
  BY <1>1, <1>2 DEF Bits, IsSet, Bindings
<1>5. Slotted' /\ Pointed' /\ LetsNeverChange'
  BY <1>1, <1>3 DEF IInv, Slotted, Pointed, LetsNeverChange, Aggregate
<1>6. \A d \in Bindings : Aggregate(d) /\ IsSet(d) /\ Bits(d) = Bits(b) => TypeOf[d] = TypeOf[v]
  BY <1>2 DEF IInv, OwnedBlocks
<1>7. OwnedBlocks'
  <2>1. ASSUME NEW c \in Bindings, NEW d \in Bindings, c # d, Aggregate(c), Aggregate(d),
               IsSet(c)', IsSet(d)', Bits(c)' = Bits(d)'
        PROVE  TypeOf[c] = TypeOf[d] /\ TypeOf[c] \in shared'
    <3>1. CASE c = v
      BY <2>1, <3>1, <1>4, <1>6
    <3>2. CASE d = v
      BY <2>1, <3>2, <1>4, <1>6
    <3>3. CASE c # v /\ d # v
      BY <2>1, <3>3, <1>4 DEF IInv, OwnedBlocks
    <3> QED
      BY <3>1, <3>2, <3>3
  <2> QED
    BY <2>1 DEF OwnedBlocks, Aggregate
<1>8. Awaited'
  <2>1. ASSUME NEW k \in DOMAIN pending, NEW d \in Bindings,
               Aggregate(d), IsSet(d)', Bits(d)' = pending[k].block, d # pending[k].base
        PROVE  TypeOf[d] = TypeOf[pending[k].base] /\ TypeOf[d] \in shared'
    <3>1. CASE d # v
      BY <2>1, <3>1, <1>4 DEF IInv, Awaited
    <3>2. CASE d = v
      <4>1. Bits(b) = pending[k].block
        BY <2>1, <3>2, <1>4
      <4>2. TypeOf[b] = TypeOf[pending[k].base]
        BY <4>1, <1>2 DEF IInv, Awaited
      <4> QED
        BY <3>2, <4>2
    <3> QED
      BY <3>1, <3>2
  <2> QED
    BY <2>1, <1>1 DEF IInv, Awaited, Aggregate
<1>9. Held'
  <2>1. ASSUME NEW d \in Bindings, IsSet(d)'
        PROVE  IF Aggregate(d) THEN heap'[Bits(d)'] \in ValuesOf(TypeOf[d])
               ELSE slots'[d] \in ValuesOf(TypeOf[d])
    <3>1. CASE d = v
      BY <3>1, <1>3, <1>4
    <3>2. CASE d # v
      <4>1. IsSet(d) /\ Bits(d)' = Bits(d)
        BY <2>1, <3>2, <1>4
      <4>2. /\ Aggregate(d) => Contents(d) = heap[Bits(d)]
            /\ ~Aggregate(d) => d \in Vars /\ Contents(d) = slots[d]
            /\ Contents(d) \in ValuesOf(TypeOf[d])
        BY <4>1, WhereItIs
      <4> QED
        BY <3>2, <4>1, <4>2, <1>1
    <3> QED
      BY <3>1, <3>2
  <2> QED
    BY <2>1, HeldAfter
<1> QED
  BY <1>5, <1>7, <1>8, <1>9 DEF IInv

-----------------------------------------------------------------------------
(* StoreValue is one or the other of the cases above.                      *)
LEMMA StoreKeeps ==
    ASSUME IInv, NEW v \in Vars, NEW x \in ValuesOf(TypeOf[v]), StoreValue(v, x),
           UNCHANGED <<ptr, pending, shared>>
    PROVE  IInv'
<1>1. CASE Aggregate(v)
  BY <1>1, ClonedKeeps
<1>2. CASE ~Aggregate(v)
  BY <1>2, ScalarStored DEF StoreValue
<1> QED
  BY <1>1, <1>2


(* The stack of field assignments: what a push and a pop leave.            *)
LEMMA Pushed ==
    ASSUME NEW S, NEW q \in Seq(S), NEW e \in S
    PROVE  /\ Append(q, e) \in Seq(S)
           /\ \A k \in DOMAIN Append(q, e) :
                Append(q, e)[k] = e \/ (k \in DOMAIN q /\ Append(q, e)[k] = q[k])
<1> DEFINE p == Append(q, e)
<1>1. /\ p \in Seq(S) /\ Len(p) = Len(q) + 1
      /\ \A k \in 1 .. Len(q) : p[k] = q[k]
      /\ p[Len(q) + 1] = e
  BY AppendProperties
<1>2. DOMAIN p = 1 .. Len(p) /\ DOMAIN q = 1 .. Len(q) /\ Len(q) \in Nat
  BY <1>1, LenProperties, Zenon
<1> HIDE DEF p
<1>3. \A k \in DOMAIN p : k \in 1 .. Len(q) \/ k = Len(q) + 1
  BY <1>1, <1>2
<1> QED
  BY <1>1, <1>2, <1>3 DEF p

LEMMA Popped ==
    ASSUME NEW S, NEW q \in Seq(S), q # <<>>
    PROVE  /\ Len(q) \in DOMAIN q /\ q[Len(q)] \in S
           /\ SubSeq(q, 1, Len(q) - 1) \in Seq(S)
           /\ \A k \in DOMAIN SubSeq(q, 1, Len(q) - 1) :
                k \in DOMAIN q /\ SubSeq(q, 1, Len(q) - 1)[k] = q[k]
<1>1. Len(q) \in Nat /\ DOMAIN q = 1 .. Len(q) /\ Len(q) # 0
  BY LenProperties, EmptySeq
<1>2. Len(q) \in DOMAIN q /\ q[Len(q)] \in S
  BY <1>1, ElementOfSeq
<1>3. \A i \in 1 .. Len(q) - 1 : q[i] \in S
  BY <1>1, ElementOfSeq
<1>4. /\ SubSeq(q, 1, Len(q) - 1) \in Seq(S)
      /\ DOMAIN SubSeq(q, 1, Len(q) - 1) = 1 .. Len(q) - 1
      /\ \A k \in 1 .. Len(q) - 1 : SubSeq(q, 1, Len(q) - 1)[k] = q[k]
  <2> DEFINE n == Len(q) - 1
             r == SubSeq(q, 1, n)
  <2>1. n \in Nat
    BY <1>1
  <2>2. r \in Seq(S) /\ Len(r) = n /\ \A i \in 1 .. n : r[i] = q[i]
    <3>1. \A i \in 1 .. n : q[i] \in S
      BY <1>3
    <3>2. /\ r \in Seq(S)
          /\ Len(r) = IF 1 <= n THEN n - 1 + 1 ELSE 0
          /\ \A i \in 1 .. n - 1 + 1 : r[i] = q[1 + i - 1]
      BY <3>1, <2>1, SubSeqProperties
    <3> HIDE DEF r, n
    <3>3. n - 1 + 1 = n /\ (~(1 <= n) => n = 0) /\ \A i \in 1 .. n : 1 + i - 1 = i
      BY <2>1
    <3> QED
      BY <3>2, <3>3
  <2>3. DOMAIN r = 1 .. Len(r)
    BY <2>2, LenProperties, Zenon
  <2> HIDE DEF r
  <2> QED
    BY <2>1, <2>2, <2>3 DEF r
<1> QED
  BY <1>1, <1>2, <1>4

(* A field assignment begins with the handle its base has then.            *)
LEMMA BeginKeeps ==
    ASSUME IInv, NEW v \in Vars, NEW f \in Fields, BeginFieldAssign(v, f)
    PROVE  IInv'
<1> DEFINE a == [base |-> v, block |-> slots[v], field |-> f]
<1>1. v \in defined /\ TypeOf[v] \in Structs /\ v \in Bindings /\ Bits(v) = slots[v] /\ Aggregate(v)
  BY BindingsAssumption, Kinds DEF BeginFieldAssign, IsSet, Bindings, Bits
<1>2. a \in Assignment
  BY <1>1 DEF IInv, Slotted, Assignment
<1>3. pending' = Append(pending, a) /\ UNCHANGED <<slots, defined, heap, ptr, shared>>
  BY DEF BeginFieldAssign
<1>4. Slotted' /\ Pointed' /\ LetsNeverChange'
  BY <1>3 DEF IInv, Slotted, Pointed, LetsNeverChange, Aggregate
<1>5. \A b \in Bindings : (Bits(b)' = Bits(b)) /\ (IsSet(b)' <=> IsSet(b))
  BY <1>3 DEF IsSet, Bits
<1>6. Held' /\ OwnedBlocks'
  BY <1>3, <1>5 DEF IInv, Held, Contents, OwnedBlocks, Aggregate
<1>7. Awaited'
  <2>1. /\ pending' \in Seq(Assignment)
        /\ \A k \in DOMAIN pending' :
            pending'[k] = a \/ (k \in DOMAIN pending /\ pending'[k] = pending[k])
    <3>1. pending \in Seq(Assignment)
      BY DEF IInv, Awaited
    <3> HIDE DEF a
    <3> QED
      BY <1>2, <1>3, <3>1, Pushed
  <2>2. \A b \in Bindings : Aggregate(b) /\ IsSet(b) /\ Bits(b) = slots[v] /\ b # v
            => TypeOf[b] = TypeOf[v] /\ TypeOf[b] \in shared
    BY <1>1 DEF IInv, OwnedBlocks, IsSet
  <2>3. f \in 0 .. Width(TypeOf[v]) - 1
    <3>1. f \in Nat
      BY TablesAssumption DEF Fields
    <3>2. Width(TypeOf[v]) \in Nat
      BY <1>1, CellsOf
    <3> QED
      BY <3>1, <3>2 DEF BeginFieldAssign
  <2> QED
    BY <2>1, <2>2, <2>3, <1>1, <1>3, <1>5 DEF IInv, Awaited, Aggregate
<1> QED
  BY <1>4, <1>6, <1>7 DEF IInv

(* It ends with a write into that block: one of a struct of its base's     *)
(* type, whoever has it.                                                   *)
LEMMA EndKeeps ==
    ASSUME IInv, NEW x \in Scalars, EndFieldAssign(x)
    PROVE  IInv'
<1> DEFINE a == pending[Len(pending)]
<1>1. /\ Len(pending) \in DOMAIN pending
      /\ a \in Assignment
  <2>1. pending \in Seq(Assignment) /\ pending # <<>>
    BY DEF IInv, Awaited, EndFieldAssign
  <2> QED
    BY <2>1, Popped, Zenon
<1>2. /\ TypeOf[a.base] \in Structs /\ a.field \in 0 .. Width(TypeOf[a.base]) - 1
      /\ \A b \in Bindings : Aggregate(b) /\ IsSet(b) /\ Bits(b) = a.block /\ b # a.base
            => TypeOf[b] = TypeOf[a.base] /\ TypeOf[b] \in shared
  BY <1>1 DEF IInv, Awaited
<1>3. /\ heap' = [heap EXCEPT ![a.block][a.field] = x]
      /\ pending' = SubSeq(pending, 1, Len(pending) - 1)
      /\ UNCHANGED <<slots, defined, ptr, shared>>
  BY DEF EndFieldAssign
<1>4. \A b \in Bindings : (Bits(b)' = Bits(b)) /\ (IsSet(b)' <=> IsSet(b))
  BY <1>3 DEF IsSet, Bits
<1>5. /\ \A h \in Handles : h # a.block => heap'[h] = heap[h]
      /\ heap'[a.block] = [heap[a.block] EXCEPT ![a.field] = x]
  BY <1>1, <1>3 DEF IInv, Slotted, Assignment
<1>6. Slotted' /\ Pointed'
  BY <1>3 DEF IInv, Slotted, Pointed, Aggregate
<1>7. OwnedBlocks'
  BY <1>3, <1>4 DEF IInv, OwnedBlocks, Aggregate
<1>8. Held'
  <2>1. ASSUME NEW b \in Bindings, IsSet(b)'
        PROVE  IF Aggregate(b) THEN heap'[Bits(b)'] \in ValuesOf(TypeOf[b])
               ELSE slots'[b] \in ValuesOf(TypeOf[b])
    <3>1. IsSet(b) /\ Bits(b)' = Bits(b)
      BY <2>1, <1>4
    <3>2. /\ Aggregate(b) => Bits(b) \in Handles /\ Contents(b) = heap[Bits(b)]
          /\ ~Aggregate(b) => b \in Vars /\ Contents(b) = slots[b]
          /\ Contents(b) \in ValuesOf(TypeOf[b])
      BY <3>1, WhereItIs
    <3>3. CASE Aggregate(b) /\ Bits(b) = a.block
      <4>1. TypeOf[b] = TypeOf[a.base]
        BY <3>1, <3>3, <1>2
      <4>2. ValuesOf(TypeOf[b]) = [0 .. Width(TypeOf[b]) - 1 -> Scalars]
        BY <4>1, <1>2, CellsOf
      <4>3. heap[a.block] \in [0 .. Width(TypeOf[b]) - 1 -> Scalars]
        BY <3>2, <3>3, <4>2
      <4>4. heap'[a.block] \in [0 .. Width(TypeOf[b]) - 1 -> Scalars]
        BY <4>3, <1>5
      <4> QED
        BY <3>1, <3>3, <4>2, <4>4
    <3>4. CASE Aggregate(b) /\ Bits(b) # a.block
      BY <3>1, <3>2, <3>4, <1>5
    <3>5. CASE ~Aggregate(b)
      BY <3>1, <3>2, <3>5, <1>3
    <3> QED
      BY <3>3, <3>4, <3>5
  <2> QED
    BY <2>1, HeldAfter
<1>9. LetsNeverChange'
  <2>1. ASSUME NEW c \in Lets, TypeOf[c] \notin shared
        PROVE  LetBlock[c] \in Handles /\ LetBlock[c] # a.block
    <3>1. c \in Bindings /\ Aggregate(c) /\ IsSet(c) /\ Bits(c) = LetBlock[c]
      BY Kinds DEF Bindings, IsSet, Bits
    <3>2. c # a.base
      BY <1>1, BindingsAssumption DEF Assignment
    <3> QED
      BY <2>1, <3>1, <3>2, <1>2, BindingsAssumption
  <2> QED
    BY <2>1, <1>3, <1>5 DEF IInv, LetsNeverChange
<1>10. Awaited'
  <2>1. /\ pending' \in Seq(Assignment)
        /\ \A k \in DOMAIN pending' : k \in DOMAIN pending /\ pending'[k] = pending[k]
    <3>1. pending \in Seq(Assignment) /\ pending # <<>>
      BY DEF IInv, Awaited, EndFieldAssign
    <3> QED
      BY <1>3, <3>1, Popped, Zenon
  <2> QED
    BY <2>1, <1>3, <1>4 DEF IInv, Awaited, Aggregate
<1> QED
  BY <1>6, <1>7, <1>8, <1>9, <1>10 DEF IInv

-----------------------------------------------------------------------------
(* Nothing has a block but the constants.                                  *)
LEMMA InitHolds == Init => IInv
<1> SUFFICES ASSUME Init PROVE IInv
  OBVIOUS
<1> USE BindingsAssumption
<1>1. Slotted /\ Pointed
  BY DEF Init, Slotted, Pointed
<1>2. \A c \in Lets : heap[LetBlock[c]] = LetValue[c]
  <2>1. ASSUME NEW c \in Lets
        PROVE  heap[LetBlock[c]] = LetValue[c]
    <3>1. LetBlock[c] \in Handles /\ LetBlock[c] \in {LetBlock[d] : d \in Lets}
      OBVIOUS
    <3>2. (CHOOSE d \in Lets : LetBlock[d] = LetBlock[c]) = c
      OBVIOUS
    <3> QED
      BY <3>1, <3>2 DEF Init
  <2> QED
    BY <2>1
<1>3. \A b \in Bindings : IsSet(b) => b \in Lets /\ Bits(b) = LetBlock[b]
  BY DEF Init, IsSet, Bits
<1>4. Awaited
  BY EmptySeq DEF Init, Awaited
<1>5. Held
  BY <1>2, <1>3 DEF Held, Contents, Aggregate
<1>6. OwnedBlocks
  BY <1>3 DEF OwnedBlocks
<1>7. LetsNeverChange
  BY <1>2 DEF LetsNeverChange
<1> QED
  BY <1>1, <1>4, <1>5, <1>6, <1>7 DEF IInv

LEMMA AssignedKeeps ==
    ASSUME IInv, NEW v \in Vars, NEW x \in ValuesOf(TypeOf[v]), Assigned(v, x)
    PROVE  IInv'
BY StoreKeeps DEF Assigned

(* Steps that store nothing: the pointers apart, all is as it was.         *)
LEMMA BlocksAlone ==
    ASSUME IInv, UNCHANGED <<slots, defined, heap, pending, shared>>
    PROVE  Slotted' /\ Awaited' /\ Held' /\ OwnedBlocks' /\ LetsNeverChange'
<1>1. Slotted' /\ LetsNeverChange'
  BY DEF IInv, Slotted, LetsNeverChange, Aggregate
<1>2. \A b \in Bindings : (Bits(b)' = Bits(b)) /\ (IsSet(b)' <=> IsSet(b))
  BY DEF Bits, IsSet
<1>3. Held'
  BY <1>2 DEF IInv, Held, Contents, Aggregate
<1>4. OwnedBlocks'
  BY <1>2 DEF IInv, OwnedBlocks, Aggregate
<1>5. Awaited'
  BY <1>2 DEF IInv, Awaited, Aggregate
<1> QED
  BY <1>1, <1>3, <1>4, <1>5

LEMMA NothingStored ==
    ASSUME IInv, UNCHANGED <<slots, defined, heap, ptr, pending, shared>>
    PROVE  IInv'
<1>1. Pointed'
  BY DEF IInv, Pointed
<1> QED
  BY <1>1, BlocksAlone DEF IInv

(* The statements whose right side is new, or another binding's.           *)
LEMMA ConstructedKeeps ==
    ASSUME IInv, NEW v \in Vars, Constructed(v)
    PROVE  IInv'
BY StoreKeeps, NothingStored DEF Constructed, Overrun

LEMMA MistookKeeps ==
    ASSUME IInv, NEW v \in Vars, Mistook(v)
    PROVE  IInv'
BY NothingStored DEF Mistook, Overrun, Stop

LEMMA StaticInitKeeps ==
    ASSUME IInv, NEW v \in Statics, StaticInit(v)
    PROVE  IInv'
<1>1. v \in Vars /\ Statics \cup Lets \subseteq Bindings
  BY BindingsAssumption DEF Bindings
<1>2. ASSUME NEW b \in Statics \cup Lets, IsSet(b), TypeOf[b] = TypeOf[v], InitStatic(v, b),
             UNCHANGED <<ptr, pending>>
      PROVE  IInv'
  <2>1. b \in Bindings /\ Contents(b) \in ValuesOf(TypeOf[v])
    BY <1>1, <1>2, WhereItIs
  <2>2. CASE TypeOf[v] \in Memblocks
    <3>1. v \in Bindings /\ Aggregate(v)
      BY <1>1, <2>2, Kinds DEF Bindings
    <3> QED
      BY <1>1, <1>2, <2>1, <2>2, <3>1, HandleStored DEF InitStatic
  <2>3. CASE TypeOf[v] \notin Memblocks
    BY <1>1, <1>2, <2>1, <2>3, StoreKeeps DEF InitStatic
  <2> QED
    BY <2>2, <2>3
<1> QED
  BY <1>1, <1>2, ConstructedKeeps, MistookKeeps DEF StaticInit

(* The statements that clone, and the one that may take a wrong size.      *)
LEMMA AssignmentsKeep ==
    ASSUME IInv, NEW v \in Vars
    PROVE  /\ Construct(v) => IInv'
           /\ AssignMistaken(v) => IInv'
           /\ \A b \in Bindings : Copy(v, b) => IInv'
<1>1. ASSUME Construct(v) PROVE IInv'
  BY <1>1, ConstructedKeeps DEF Construct
<1>2. ASSUME AssignMistaken(v) PROVE IInv'
  BY <1>2, MistookKeeps DEF AssignMistaken
<1>3. ASSUME NEW b \in Bindings, Copy(v, b) PROVE IInv'
  BY <1>3, AssignedKeeps, WhereItIs DEF Copy
<1> QED
  BY <1>1, <1>2, <1>3

LEMMA PtrLoadKeeps ==
    ASSUME IInv, NEW v \in Vars, NEW p \in Pointers, PtrLoad(v, p)
    PROVE  IInv'
<1>1. CASE ptr[p] = Null
  BY <1>1, NothingStored DEF PtrLoad, Stop
<1>2. CASE ptr[p] # Null
  <2>1. ptr[p] \in Bindings /\ IsSet(ptr[p]) /\ TypeOf[ptr[p]] = TypeOf[v]
    BY <1>2 DEF IInv, Pointed, Slotted, PtrLoad, Bindings, IsSet
  <2> QED
    BY <2>1, <1>2, AssignedKeeps, WhereItIs DEF PtrLoad
<1> QED
  BY <1>1, <1>2

(* An element access whose check passes is of an element there is.         *)
LEMMA CheckedIndexIsCovered ==
    ASSUME NEW T \in Memblocks, NEW i \in Usize, ~(i >= Count[T])
    PROVE  Covers(T, i, 1)
BY TablesAssumption DEF Covers, Usize

(* So is a range, although the check forms no sum.                         *)
LEMMA CheckedRangeIsCovered ==
    ASSUME NEW T \in Memblocks, NEW U \in Memblocks,
           NEW i \in Usize, NEW j \in Usize, NEW len \in Usize,
           ~BadRange(len, i, Count[T], j, Count[U])
    PROVE  Covers(T, i, len) /\ Covers(U, j, len)
<1>1. Count[T] \in Nat /\ Count[U] \in Nat /\ i \in Nat /\ j \in Nat /\ len \in Nat
  BY TablesAssumption DEF Usize
<1> QED
  BY <1>1 DEF BadRange, Covers

(* The header of what is in use is the count of its type.                  *)
LEMMA HeaderIsCount ==
    ASSUME IInv, NEW b \in Bindings, IsSet(b), TypeOf[b] \in Memblocks
    PROVE  Header(Contents(b)) = Count[TypeOf[b]]
BY WhereItIs, MadeWithHeader DEF HasHeader

LEMMA LoadElementKeeps ==
    ASSUME IInv, NEW v \in Vars, NEW b \in Bindings, LoadElement(v, b)
    PROVE  IInv'
<1>1. PICK i \in Usize :
        \/ UNCHANGED <<slots, defined, heap, ptr, pending, shared>>
        \/ /\ Covers(TypeOf[b], i, 1) /\ TypeOf[v] \notin Memblocks
           /\ Assigned(v, ElementAt(TypeOf[b], Contents(b), i))
  BY DEF LoadElement, Stop, Overrun
<1>2. i \in Nat /\ TypeOf[b] \in Memblocks /\ Element[TypeOf[b]] = TypeOf[v] /\ IsSet(b)
  BY TablesAssumption DEF LoadElement, Usize
<1>3. Contents(b) \in ValuesOf(TypeOf[b])
  BY <1>2, WhereItIs
<1>4. CASE Covers(TypeOf[b], i, 1) /\ TypeOf[v] \notin Memblocks
  <2>1. ElementAt(TypeOf[b], Contents(b), i) \in ValuesOf(TypeOf[v])
    BY <1>2, <1>3, <1>4, ElementTyped
  <2> QED
    BY <2>1, <1>1, NothingStored, AssignedKeeps
<1> QED
  BY <1>1, <1>4, NothingStored

LEMMA StoreElementKeeps ==
    ASSUME IInv, NEW v \in Vars, NEW b \in Bindings, StoreElement(v, b)
    PROVE  IInv'
<1>1. v \in defined /\ v \in Bindings /\ IsSet(v) /\ TypeOf[v] \in Memblocks /\ Aggregate(v)
  BY BindingsAssumption, Kinds DEF StoreElement, IsSet, Bindings
<1>2. PICK i \in Usize :
        \/ UNCHANGED <<slots, defined, heap, ptr, pending, shared>>
        \/ /\ TypeOf[b] \notin Memblocks
           /\ Written(v, WithElement(TypeOf[v], Contents(v), i, Contents(b)))
  BY DEF StoreElement, Stop, Overrun
<1>3. i \in Nat /\ Element[TypeOf[v]] = TypeOf[b] /\ IsSet(b)
  BY TablesAssumption DEF StoreElement, Usize
<1>4. Contents(v) \in ValuesOf(TypeOf[v]) /\ Contents(b) \in ValuesOf(TypeOf[b])
  BY <1>1, <1>3, WhereItIs
<1>5. CASE TypeOf[b] \notin Memblocks
  <2>1. WithElement(TypeOf[v], Contents(v), i, Contents(b)) \in ValuesOf(TypeOf[v])
    BY <1>1, <1>3, <1>4, <1>5, WithElementTyped
  <2> QED
    BY <2>1, <1>1, <1>2, NothingStored, WrittenKeeps
<1> QED
  BY <1>2, <1>5, NothingStored

LEMMA CopyRangeKeeps ==
    ASSUME IInv, NEW v \in Vars, NEW b \in Bindings, CopyRange(v, b)
    PROVE  IInv'
<1>1. /\ v \in defined /\ v \in Bindings /\ IsSet(v) /\ Aggregate(v)
      /\ TypeOf[v] \in Memblocks /\ TypeOf[b] \in Memblocks /\ IsSet(b)
  BY BindingsAssumption, Kinds DEF CopyRange, IsSet, Bindings
<1>2. PICK i \in Usize, j \in Usize, len \in Usize :
        \/ UNCHANGED <<slots, defined, heap, ptr, pending, shared>>
        \/ /\ Alike(TypeOf[v], TypeOf[b])
           /\ Covers(TypeOf[v], i, len) /\ Covers(TypeOf[b], j, len)
           /\ Written(v, WithRange(TypeOf[v], Contents(v), i, Contents(b), j, len))
  BY DEF CopyRange, Stop, Overrun, vars
<1>3. Contents(v) \in ValuesOf(TypeOf[v]) /\ Contents(b) \in ValuesOf(TypeOf[b])
  BY <1>1, WhereItIs
<1>4. CASE /\ Element[TypeOf[v]] = Element[TypeOf[b]]
           /\ Covers(TypeOf[v], i, len) /\ Covers(TypeOf[b], j, len)
  <2>1. i \in Nat /\ j \in Nat /\ len \in Nat
    BY TablesAssumption DEF Usize
  <2>2. WithRange(TypeOf[v], Contents(v), i, Contents(b), j, len) \in ValuesOf(TypeOf[v])
    BY <2>1, <1>1, <1>3, <1>4, WithRangeTyped
  <2> QED
    BY <2>2, <1>1, <1>2, NothingStored, WrittenKeeps
<1> QED
  BY <1>2, <1>4, NothingStored DEF Alike

(* The statements on pointers.                                             *)
LEMMA PtrAddressKeeps ==
    ASSUME IInv, NEW v \in Vars, NEW p \in Pointers, PtrAddress(p, v)
    PROVE  IInv'
<1>1. v \in defined /\ UNCHANGED <<slots, defined, heap, pending, shared>>
      /\ ptr' = [ptr EXCEPT ![p] = v] /\ Pointee[p] = TypeOf[v]
  BY BindingsAssumption DEF PtrAddress, IsSet
<1>2. Pointed'
  BY <1>1 DEF IInv, Pointed
<1> QED
  BY <1>1, <1>2, BlocksAlone DEF IInv

LEMMA PtrStoreKeeps ==
    ASSUME IInv, NEW p \in Pointers, NEW b \in Bindings, PtrStore(p, b)
    PROVE  IInv'
<1>1. CASE ptr[p] = Null
  BY <1>1, NothingStored DEF PtrStore, Stop
<1>2. CASE ptr[p] # Null
  <2>1. /\ ptr[p] \in Vars /\ TypeOf[ptr[p]] = TypeOf[b] /\ IsSet(b)
        /\ StoreBits(ptr[p], Bits(b)) /\ UNCHANGED <<heap, ptr, pending>>
        /\ shared' = IF Aggregate(b) THEN shared \cup {TypeOf[b]} ELSE shared
    BY <1>2 DEF IInv, Pointed, Slotted, PtrStore
  <2>2. CASE Aggregate(b)
    <3>1. Aggregate(ptr[p])
      BY <2>1, <2>2 DEF Aggregate
    <3> QED
      BY <2>1, <2>2, <3>1, HandleStored
  <2>3. CASE ~Aggregate(b)
    <3>1. ~Aggregate(ptr[p])
      BY <2>1, <2>3 DEF Aggregate
    <3>2. b \in Vars /\ Contents(b) = slots[b] /\ Contents(b) \in ValuesOf(TypeOf[b])
      BY <2>1, <2>3, WhereItIs
    <3>3. Bits(b) \in ValuesOf(TypeOf[ptr[p]])
      BY <2>1, <3>2, BindingsAssumption DEF Bits
    <3> QED
      BY <2>1, <2>3, <3>1, <3>3, ScalarStored
  <2> QED
    BY <2>2, <2>3
<1> QED
  BY <1>1, <1>2

LEMMA MemcopyUnsafeKeeps ==
    ASSUME IInv, NEW p \in Pointers, NEW q \in Pointers, MemcopyUnsafe(p, q)
    PROVE  IInv'
<1>1. CASE ptr[p] = Null \/ ptr[q] = Null
  BY <1>1, NothingStored DEF MemcopyUnsafe, Stop
<1>2. CASE ptr[p] # Null /\ ptr[q] # Null
  <2>1. /\ ptr[p] \in defined /\ ptr[p] \in Vars /\ TypeOf[ptr[p]] = Pointee[p]
        /\ ptr[q] \in Vars /\ ptr[q] \in Bindings /\ IsSet(ptr[q]) /\ TypeOf[ptr[q]] = Pointee[p]
    BY <1>2 DEF IInv, Pointed, Slotted, MemcopyUnsafe, Bindings, IsSet
  <2>2. Contents(ptr[q]) \in ValuesOf(TypeOf[ptr[p]])
    BY <2>1, WhereItIs
  <2>3. CASE Pointee[p] = "scalar"
    <3>1. slots[ptr[q]] \in ValuesOf(TypeOf[ptr[p]]) /\ ~Aggregate(ptr[p])
      BY <2>1, <2>2, <2>3, WhereItIs DEF Aggregate
    <3> QED
      BY <2>1, <2>3, <3>1, <1>2, ScalarStored DEF MemcopyUnsafe
  <2>4. CASE Pointee[p] # "scalar"
    BY <2>1, <2>2, <2>4, <1>2, WrittenKeeps DEF MemcopyUnsafe, Aggregate
  <2> QED
    BY <2>3, <2>4
<1> QED
  BY <1>1, <1>2

LEMMA StepKeeps == IInv /\ [Next]_vars => IInv'
<1> SUFFICES ASSUME IInv, [Next]_vars PROVE IInv'
  OBVIOUS
<1>1. CASE RunBody
  BY <1>1, NothingStored DEF RunBody
<1>2. ASSUME NEW v \in Statics, StaticInit(v) PROVE IInv'
  BY <1>2, StaticInitKeeps
<1>3. ASSUME NEW v \in Vars, Construct(v) \/ AssignMistaken(v) PROVE IInv'
  BY <1>3, AssignmentsKeep
<1>4. ASSUME NEW v \in Vars, NEW b \in Bindings,
             Copy(v, b) \/ LoadElement(v, b) \/ StoreElement(v, b) \/ CopyRange(v, b)
      PROVE  IInv'
  BY <1>4, AssignmentsKeep, LoadElementKeeps, StoreElementKeeps, CopyRangeKeeps
<1>5. ASSUME NEW v \in Vars, NEW p \in Pointers, PtrLoad(v, p) \/ PtrAddress(p, v)
      PROVE  IInv'
  BY <1>5, PtrLoadKeeps, PtrAddressKeeps
<1>6. ASSUME NEW v \in Vars, NEW f \in Fields, BeginFieldAssign(v, f) PROVE IInv'
  BY <1>6, BeginKeeps
<1>7. ASSUME NEW x \in Scalars, EndFieldAssign(x) PROVE IInv'
  BY <1>7, EndKeeps
<1>8. ASSUME NEW p \in Pointers, NEW b \in Bindings, PtrStore(p, b) PROVE IInv'
  BY <1>8, PtrStoreKeeps
<1>9. ASSUME NEW p \in Pointers, NEW q \in Pointers, MemcopyUnsafe(p, q) PROVE IInv'
  BY <1>9, MemcopyUnsafeKeeps
<1>10. CASE UNCHANGED vars
  BY <1>10, NothingStored DEF vars
<1> QED
  BY <1>1, <1>2, <1>3, <1>4, <1>5, <1>6, <1>7, <1>8, <1>9, <1>10 DEF Next

(* In every program, two variables or constants have one block only if     *)
(* they are of one type and a handle of that type was stored uncloned.     *)
THEOREM ValueSemantics == Spec => []OwnedBlocks
<1>1. IInv => OwnedBlocks
  BY DEF IInv
<1> QED
  BY <1>1, InitHolds, StepKeeps, PTL DEF Spec

(* A constant keeps its value, although every reader of it is given the    *)
(* address of its block, as long as no handle of its type is stored.       *)
THEOREM ConstantsKept == Spec => []LetsNeverChange
<1>1. IInv => LetsNeverChange
  BY DEF IInv
<1> QED
  BY <1>1, InitHolds, StepKeeps, PTL DEF Spec

-----------------------------------------------------------------------------
(* The blocks that may be left.                                            *)
Excused(T, U) == Misbuilt(T) \/ (\E v \in Mistaken : TypeOf[v] = T) \/ ~Alike(T, U)
Left == outside' = outside \/ \E T, U : Excused(T, U) /\ outside' = outside \cup {<<T, U>>}

LEMMA ConstructedLeaves ==
    ASSUME NEW v \in Vars, Constructed(v)
    PROVE  Left
BY DEF Constructed, Overrun, Left, Excused

LEMMA MistookLeaves ==
    ASSUME NEW v \in Vars, Mistook(v)
    PROVE  Left
BY DEF Mistook, Overrun, Stop, Left, Excused

LEMMA LoadLeaves ==
    ASSUME IInv, NEW v \in Vars, NEW b \in Bindings, LoadElement(v, b)
    PROVE  Left
<1>1. /\ TypeOf[b] \in Memblocks /\ Element[TypeOf[b]] = TypeOf[v]
      /\ Header(Contents(b)) = Count[TypeOf[b]]
  BY HeaderIsCount DEF LoadElement
<1>2. CASE TypeOf[v] \in Memblocks
  <2>1. Excused(TypeOf[b], TypeOf[b])
    BY <1>1, <1>2 DEF Excused, Misbuilt, SizedByTag
  <2> QED
    BY <2>1 DEF LoadElement, Stop, Overrun, Assigned, Left
<1>3. CASE TypeOf[v] \notin Memblocks
  BY <1>1, <1>3, CheckedIndexIsCovered DEF LoadElement, Stop, Assigned, Left
<1> QED
  BY <1>2, <1>3

LEMMA StoreLeaves ==
    ASSUME IInv, NEW v \in Vars, NEW b \in Bindings, StoreElement(v, b)
    PROVE  Left
<1>1. /\ TypeOf[v] \in Memblocks /\ Element[TypeOf[v]] = TypeOf[b]
      /\ Header(Contents(v)) = Count[TypeOf[v]]
  BY HeaderIsCount DEF StoreElement, Bindings
<1>2. CASE TypeOf[b] \in Memblocks
  <2>1. Excused(TypeOf[v], TypeOf[v])
    BY <1>1, <1>2 DEF Excused, Misbuilt, SizedByTag
  <2> QED
    BY <2>1 DEF StoreElement, Stop, Overrun, Written, Left
<1>3. CASE TypeOf[b] \notin Memblocks
  BY <1>1, <1>3, CheckedIndexIsCovered DEF StoreElement, Stop, Written, Left
<1> QED
  BY <1>2, <1>3

LEMMA CopyLeaves ==
    ASSUME IInv, NEW v \in Vars, NEW b \in Bindings, CopyRange(v, b)
    PROVE  Left
<1>1. /\ TypeOf[v] \in Memblocks /\ TypeOf[b] \in Memblocks
      /\ Header(Contents(v)) = Count[TypeOf[v]] /\ Header(Contents(b)) = Count[TypeOf[b]]
  BY HeaderIsCount DEF CopyRange, Bindings
<1> QED
  BY <1>1, CheckedRangeIsCovered
     DEF CopyRange, Stop, Written, Overrun, Left, Excused, vars

LEMMA StepStaysInside == IInv /\ StaysInside /\ [Next]_vars => StaysInside'
<1> SUFFICES ASSUME IInv, [Next]_vars PROVE Left
  BY DEF StaysInside, Left, Excused
<1>1. ASSUME NEW v \in Vars, NEW b \in Bindings,
             LoadElement(v, b) \/ StoreElement(v, b) \/ CopyRange(v, b)
      PROVE  Left
  BY <1>1, LoadLeaves, StoreLeaves, CopyLeaves
<1>2. ASSUME NEW v \in Statics, StaticInit(v) PROVE Left
  <2>1. v \in Vars
    BY BindingsAssumption
  <2> QED
    BY <1>2, <2>1, ConstructedLeaves, MistookLeaves DEF StaticInit, Left
<1>3. ASSUME NEW v \in Vars, Construct(v) PROVE Left
  BY <1>3, ConstructedLeaves DEF Construct
<1>4. ASSUME NEW v \in Vars, AssignMistaken(v) PROVE Left
  BY <1>4, MistookLeaves DEF AssignMistaken
<1>5. CASE RunBody \/ UNCHANGED vars
  BY <1>5 DEF RunBody, vars, Left
<1>6. ASSUME NEW v \in Vars, NEW b \in Bindings, Copy(v, b) PROVE Left
  BY <1>6 DEF Copy, Assigned, Left
<1>7. ASSUME NEW v \in Vars, NEW p \in Pointers, PtrLoad(v, p) \/ PtrAddress(p, v)
      PROVE  Left
  BY <1>7 DEF PtrLoad, PtrAddress, Stop, Assigned, Left
<1>8. ASSUME NEW v \in Vars, NEW f \in Fields, BeginFieldAssign(v, f) PROVE Left
  BY <1>8 DEF BeginFieldAssign, Left
<1>9. ASSUME NEW x \in Scalars, EndFieldAssign(x) PROVE Left
  BY <1>9 DEF EndFieldAssign, Left
<1>10. ASSUME NEW p \in Pointers, NEW b \in Bindings, PtrStore(p, b) PROVE Left
  BY <1>10 DEF PtrStore, Stop, Left
<1>11. ASSUME NEW p \in Pointers, NEW q \in Pointers, MemcopyUnsafe(p, q) PROVE Left
  BY <1>11 DEF MemcopyUnsafe, Stop, Written, Left
<1> QED
  BY <1>1, <1>2, <1>3, <1>4, <1>5, <1>6, <1>7, <1>8, <1>9, <1>10, <1>11 DEF Next

(* No access of memblock_load, memblock_store or memblock_copy that passes *)
(* its check is outside its block, whatever the sizes and the operands,    *)
(* but to blocks whose constructor or whose assignment has a wrong size.   *)
THEOREM AccessesAreInside == Spec => []StaysInside
<1>1. Init => StaysInside
  BY DEF Init, StaysInside
<1> QED
  BY <1>1, InitHolds, StepKeeps, StepStaysInside, PTL DEF Spec

-----------------------------------------------------------------------------
InPhase ==
    phase \in {"statics", "body", "stopped"} /\ shared \subseteq Types /\ outside \subseteq Types \X Types

(* The phases and the two records of types.                                *)
LEMMA StepInPhase == InPhase /\ [Next]_vars => InPhase'
<1> SUFFICES ASSUME InPhase, [Next]_vars PROVE InPhase'
  OBVIOUS
<1> USE BindingsAssumption
<1>0. \A b \in Bindings : TypeOf[b] \in Types
  BY Kinds
<1>1. CASE RunBody \/ UNCHANGED vars
  BY <1>1 DEF RunBody, vars, InPhase
<1>2. ASSUME NEW v \in Statics, StaticInit(v) PROVE InPhase'
  BY <1>0, <1>2 DEF StaticInit, InitStatic, Constructed, Mistook, Overrun, Stop, InPhase, Bindings
<1>3. ASSUME NEW v \in Vars, Construct(v) \/ AssignMistaken(v) PROVE InPhase'
  BY <1>0, <1>3 DEF Construct, Constructed, AssignMistaken, Mistook, Overrun, Stop, InPhase, Bindings
<1>4. ASSUME NEW v \in Vars, NEW b \in Bindings,
             Copy(v, b) \/ LoadElement(v, b) \/ StoreElement(v, b) \/ CopyRange(v, b)
      PROVE  InPhase'
  <2>1. UNCHANGED shared /\ phase' \in {phase, "stopped"}
    BY <1>4 DEF Copy, LoadElement, StoreElement, CopyRange, Assigned, Written, Stop, Overrun,
               vars
  <2>2. outside' = outside \/ \E T, U \in {TypeOf[v], TypeOf[b]} : outside' = outside \cup {<<T, U>>}
    BY <1>4 DEF Copy, LoadElement, StoreElement, CopyRange, Assigned, Written, Stop, Overrun,
               vars
  <2> QED
    BY <1>0, <2>1, <2>2 DEF InPhase, Bindings
<1>5. ASSUME NEW v \in Vars, NEW p \in Pointers, PtrLoad(v, p) \/ PtrAddress(p, v)
      PROVE  InPhase'
  BY <1>5 DEF PtrLoad, PtrAddress, Assigned, Stop, InPhase
<1>6. ASSUME NEW v \in Vars, NEW f \in Fields, BeginFieldAssign(v, f) PROVE InPhase'
  BY <1>6 DEF BeginFieldAssign, InPhase
<1>7. ASSUME NEW x \in Scalars, EndFieldAssign(x) PROVE InPhase'
  BY <1>7 DEF EndFieldAssign, InPhase
<1>8. ASSUME NEW p \in Pointers, NEW b \in Bindings, PtrStore(p, b) PROVE InPhase'
  BY <1>0, <1>8 DEF PtrStore, Stop, InPhase
<1>9. ASSUME NEW p \in Pointers, NEW q \in Pointers, MemcopyUnsafe(p, q) PROVE InPhase'
  BY <1>9 DEF MemcopyUnsafe, Written, Stop, InPhase
<1> QED
  BY <1>1, <1>2, <1>3, <1>4, <1>5, <1>6, <1>7, <1>8, <1>9 DEF Next

LEMMA TypedState == IInv /\ InPhase => TypeOK
<1> SUFFICES ASSUME IInv, InPhase PROVE TypeOK
  OBVIOUS
<1> USE BindingsAssumption
<1>1. ASSUME NEW v \in Vars, v \in defined
      PROVE  slots[v] \in (IF Aggregate(v) THEN Handles ELSE Scalars) /\ slots[v] # Unset
  <2>1. v \in Bindings /\ IsSet(v) /\ Bits(v) = slots[v]
    BY <1>1 DEF Bindings, IsSet, Bits
  <2>2. CASE Aggregate(v)
    BY <2>1, <2>2, WhereItIs
  <2>3. CASE ~Aggregate(v)
    <3>1. TypeOf[v] = "scalar" /\ slots[v] \in ValuesOf(TypeOf[v])
      BY <2>1, <2>3, WhereItIs DEF Aggregate
    <3>2. \A U : U = "scalar" => ValuesOf(U) = Scalars
      BY TablesAssumption DEF ValuesOf
    <3> QED
      BY <2>3, <3>1, <3>2
  <2> QED
    BY <2>2, <2>3
<1>2. \A v \in Vars : v \notin defined => slots[v] = Unset
  BY DEF IInv, Slotted
<1>3. defined \subseteq Vars /\ DOMAIN heap = Handles
  BY DEF IInv, Slotted
<1>4. defined = {v \in Vars : slots[v] # Unset}
  BY <1>1, <1>2, <1>3
<1>5. \A p \in Pointers : ptr[p] \in {Null} \cup {v \in Vars : TypeOf[v] = Pointee[p]}
  BY <1>3 DEF IInv, Pointed
<1>6. \A k \in DOMAIN pending : pending[k].base \in Vars /\ pending[k].block \in Handles
  <2>1. pending \in Seq(Assignment)
    BY DEF IInv, Awaited
  <2>2. \A k \in DOMAIN pending : pending[k] \in Assignment
    BY <2>1, ElementOfSeq, LenProperties
  <2> QED
    BY <2>2 DEF Assignment
<1> QED
  BY <1>1, <1>2, <1>3, <1>4, <1>5, <1>6 DEF TypeOK, IInv, Held, InPhase

(* In every program what a slot, a block or a pointer holds has its type.  *)
THEOREM ValuesHaveTheirType == Spec => []TypeOK
<1>1. Init => InPhase
  BY DEF Init, InPhase
<1> QED
  BY <1>1, InitHolds, StepKeeps, StepInPhase, TypedState, PTL DEF Spec

-----------------------------------------------------------------------------
(* The executor implements variables that own their values: every          *)
(* statement of Values that stores no handle, and comes before one that    *)
(* does, is one of ValueStore, or leaves what the variables hold alone.    *)
UInv == IInv /\ shared = {}

(* The two modules have one idea of types and of what they hold.           *)
LEMMA SameTypes ==
    /\ \A T : Store!ValuesOf(T) = ValuesOf(T) /\ Store!Width(T) = Width(T)
    /\ Store!Usize = Usize /\ Store!Fields = Fields
BY DEF Store!ValuesOf, ValuesOf, Store!Width, Width, Store!Stride, Stride,
       Store!Usize, Usize, Store!Fields, Fields

LEMMA SameElements ==
    /\ \A T, i, n : Store!Covers(T, i, n) <=> Covers(T, i, n)
    /\ \A T, x, i : Store!ElementAt(T, x, i) = ElementAt(T, x, i)
    /\ \A T, x, i, y : Store!WithElement(T, x, i, y) = WithElement(T, x, i, y)
    /\ \A T, x, i, y, j, n : Store!WithRange(T, x, i, y, j, n) = WithRange(T, x, i, y, j, n)
BY DEF Store!Covers, Covers, Store!ElementAt, ElementAt, Store!WithElement, WithElement,
       Store!WithRange, WithRange, Store!At, At, Store!Stride, Stride

(* What an operand stands for is the value of the binding.                 *)
LEMMA OperandIsValue ==
    ASSUME UInv, NEW b \in Bindings, IsSet(b)
    PROVE  Store!Of(b) = Contents(b) /\ Store!IsSet(b)
<1>1. CASE b \in Lets
  BY <1>1, Kinds DEF UInv, IInv, LetsNeverChange, Store!Of, Store!IsSet, Contents, Bits
<1>2. CASE b \notin Lets
  <2>1. b \in Vars /\ b \in defined
    BY <1>2 DEF Bindings, IsSet
  <2> QED
    BY <1>2, <2>1 DEF Store!Of, Store!IsSet, Contents, Bits, StoredValue
<1> QED
  BY <1>1, <1>2

(* The value of a variable, as the store and as the executor have it.      *)
LEMMA VariableIsValue ==
    ASSUME UInv, NEW v \in defined
    PROVE  v \in Vars /\ v \in Bindings /\ IsSet(v) /\ StoredValue[v] = Contents(v)
<1>1. v \in Vars /\ v \notin Lets
  BY BindingsAssumption DEF UInv, IInv, Slotted
<1> QED
  BY <1>1 DEF Bindings, IsSet, StoredValue, Contents, Bits

-----------------------------------------------------------------------------
(* A slot that gets other bits marks the assignments that wait for it.     *)
LEMMA MarksReplaced ==
    ASSUME UInv, NEW v \in Vars, NEW h, StoreBits(v, h), UNCHANGED pending,
           \A k \in DOMAIN pending : pending[k].base = v => pending[k].block # h
    PROVE  Assignments' = [k \in DOMAIN Assignments |->
                [Assignments[k] EXCEPT !.replaced = @ \/ Assignments[k].base = v]]
<1>1. \A k \in DOMAIN pending : pending[k].base \in Vars
  BY DEF UInv, IInv, Awaited, Slotted
<1>2. slots' = [slots EXCEPT ![v] = h] /\ slots = [w \in Vars |-> slots[w]]
  BY DEF StoreBits, UInv, IInv, Slotted
<1>3. ASSUME NEW k \in DOMAIN pending
      PROVE  (slots'[pending[k].base] # pending[k].block)
                = ((slots[pending[k].base] # pending[k].block) \/ pending[k].base = v)
  <2>1. CASE pending[k].base = v
    BY <2>1, <1>2
  <2>2. CASE pending[k].base # v
    BY <2>2, <1>1, <1>2
  <2> QED
    BY <2>1, <2>2
<1>4. Assignments' = [k \in DOMAIN pending |->
        [base |-> pending[k].base, field |-> pending[k].field,
         replaced |-> slots'[pending[k].base] # pending[k].block]]
  BY DEF Assignments
<1>5. DOMAIN Assignments = DOMAIN pending
  BY DEF Assignments
<1>6. ASSUME NEW k \in DOMAIN pending
      PROVE  [Assignments[k] EXCEPT !.replaced = @ \/ Assignments[k].base = v]
                = [base |-> pending[k].base, field |-> pending[k].field,
                   replaced |-> slots'[pending[k].base] # pending[k].block]
  <2>1. Assignments[k] = [base |-> pending[k].base, field |-> pending[k].field,
                          replaced |-> slots[pending[k].base] # pending[k].block]
    BY DEF Assignments
  <2>2. Assignments[k].base = pending[k].base
        /\ Assignments[k].replaced = (slots[pending[k].base] # pending[k].block)
    BY <2>1
  <2>3. \A r : [Assignments[k] EXCEPT !.replaced = r]
                = [base |-> pending[k].base, field |-> pending[k].field, replaced |-> r]
    BY <2>1
  <2>4. (Assignments[k].replaced \/ Assignments[k].base = v)
            = (slots'[pending[k].base] # pending[k].block)
    BY <2>2, <1>3, Zenon
  <2> QED
    BY <2>3, <2>4, Zenon
<1> QED
  BY <1>4, <1>5, <1>6

LEMMA SameAssignments ==
    ASSUME UNCHANGED <<slots, pending>>
    PROVE  Assignments' = Assignments
BY DEF Assignments

(* StoreValue gives the variable the value, and no other one.              *)
LEMMA StoreIsBecome ==
    ASSUME UInv, NEW v \in Vars, NEW x \in ValuesOf(TypeOf[v]), StoreValue(v, x),
           UNCHANGED <<ptr, pending>>
    PROVE  Store!Become(v, x)
<1>1. v \in Bindings /\ defined' = defined \cup {v}
  BY DEF Bindings, StoreValue, StoreBits
<1>2. CASE Aggregate(v)
  <2>1. /\ Fresh \notin Referred /\ StoreBits(v, Fresh)
        /\ slots'[v] = Fresh /\ heap'[Fresh] = x
        /\ \A w \in Vars : w # v => slots'[w] = slots[w]
        /\ \A h \in Handles : h # Fresh => heap'[h] = heap[h]
    BY <1>2, ClonedIntoSlot DEF UInv
  <2>2. StoredValue' = [StoredValue EXCEPT ![v] = x]
    <3>1. \A w \in Vars : slots[w] # Fresh
      BY <2>1 DEF Referred
    <3>2. ASSUME NEW w \in Vars, w # v PROVE StoredValue'[w] = StoredValue[w]
      BY <3>1, <3>2, <2>1, <1>1 DEF StoredValue, Aggregate, UInv, IInv, Slotted
    <3>3. StoredValue'[v] = x
      BY <2>1, <1>1, <1>2 DEF StoredValue, Aggregate
    <3> QED
      BY <3>2, <3>3 DEF StoredValue
  <2>3. \A k \in DOMAIN pending : pending[k].block # Fresh
    BY <2>1 DEF Referred
  <2> QED
    BY <2>1, <2>2, <2>3, <1>1, MarksReplaced DEF Store!Become
<1>3. CASE ~Aggregate(v)
  <2>1. StoreBits(v, x) /\ UNCHANGED heap
    BY <1>3 DEF StoreValue
  <2>2. StoredValue' = [StoredValue EXCEPT ![v] = x]
    <3>1. slots' = [slots EXCEPT ![v] = x] /\ slots = [w \in Vars |-> slots[w]]
      BY <2>1 DEF StoreBits, UInv, IInv, Slotted
    <3>2. ASSUME NEW w \in Vars, w # v PROVE StoredValue'[w] = StoredValue[w]
      BY <3>1, <3>2, <2>1, <1>1 DEF StoredValue, Aggregate
    <3>3. StoredValue'[v] = x
      BY <3>1, <1>3 DEF StoredValue, Aggregate
    <3> QED
      BY <3>2, <3>3 DEF StoredValue
  <2>3. \A k \in DOMAIN pending : pending[k].base # v
    BY <1>3, TablesAssumption DEF UInv, IInv, Awaited, Aggregate
  <2> QED
    BY <2>1, <2>2, <2>3, <1>1, MarksReplaced DEF Store!Become
<1> QED
  BY <1>2, <1>3

(* A block that is written in place is its variable's alone.               *)
LEMMA WrittenIsChange ==
    ASSUME UInv, NEW v \in defined, Aggregate(v), NEW x, Written(v, x)
    PROVE  Store!Change(v, x)
<1>1. /\ v \in Vars /\ slots[v] \in Handles
      /\ heap' = [heap EXCEPT ![slots[v]] = x]
      /\ UNCHANGED <<slots, defined, ptr, pending>>
  BY DEF UInv, IInv, Slotted, Written
<1>0. v \in Bindings /\ IsSet(v) /\ Bits(v) = slots[v]
  BY VariableIsValue, BindingsAssumption DEF UInv, IInv, Slotted, Bits
<1>2. ASSUME NEW w \in Vars, w # v PROVE StoredValue'[w] = StoredValue[w]
  <2>1. CASE Aggregate(w) /\ w \in defined
    <3>1. slots[w] # slots[v]
      BY <2>1, <1>2, VariableIsValue, BindingsAssumption DEF UInv, IInv, OwnedBlocks, Bits
    <3> QED
      BY <3>1, <2>1, <1>1 DEF StoredValue, Aggregate, UInv, IInv, Slotted
  <2>2. CASE ~(Aggregate(w) /\ w \in defined)
    BY <2>2, <1>1 DEF StoredValue, Aggregate
  <2> QED
    BY <2>1, <2>2
<1>3. StoredValue'[v] = x
  BY <1>1 DEF StoredValue, Aggregate, UInv, IInv, Slotted
<1>4. StoredValue' = [StoredValue EXCEPT ![v] = x]
  BY <1>1, <1>2, <1>3 DEF StoredValue
<1> QED
  BY <1>1, <1>4, SameAssignments DEF Store!Change

(* A step of the executor that leaves slots and blocks alone.              *)
LEMMA NothingNoticed ==
    ASSUME UNCHANGED <<slots, defined, heap, ptr, pending>>
    PROVE  UNCHANGED Store!vars
BY SameAssignments DEF Store!vars, StoredValue, Aggregate

-----------------------------------------------------------------------------
(* The steps of Values that give a variable a value.                       *)
LEMMA ConstructedRefines ==
    ASSUME UInv, NEW v \in Vars, Constructed(v)
    PROVE  Store!Construct(v) \/ UNCHANGED Store!vars
<1>1. ASSUME NEW x \in ValuesOf(TypeOf[v]), StoreValue(v, x), UNCHANGED <<ptr, pending>>
      PROVE  Store!Construct(v)
  <2>1. Store!Become(v, x)
    BY <1>1, StoreIsBecome
  <2> QED
    BY <2>1, SameTypes DEF Store!Construct
<1> QED
  BY <1>1, NothingNoticed DEF Constructed, Overrun

LEMMA StaticInitRefines ==
    ASSUME UInv, NEW v \in Statics, StaticInit(v), shared' = {}
    PROVE  Store!Next \/ UNCHANGED Store!vars
<1>1. v \in Vars /\ v \in Bindings /\ Statics \cup Lets \subseteq Bindings
  BY BindingsAssumption DEF Bindings
<1>2. ASSUME Constructed(v) PROVE Store!Construct(v) \/ UNCHANGED Store!vars
  BY <1>1, <1>2, ConstructedRefines
<1>3. ASSUME NEW b \in Statics \cup Lets, IsSet(b), TypeOf[b] = TypeOf[v], InitStatic(v, b),
             UNCHANGED <<ptr, pending>>
      PROVE  Store!Copy(v, b)
  <2>1. StoreValue(v, Contents(b))
    BY <1>3 DEF InitStatic
  <2>2. Contents(b) \in ValuesOf(TypeOf[v])
    BY <1>1, <1>3, WhereItIs DEF UInv
  <2>3. Store!Become(v, Contents(b))
    BY <1>1, <1>3, <2>1, <2>2, StoreIsBecome
  <2> QED
    BY <1>1, <1>3, <2>3, OperandIsValue DEF Store!Copy
<1> QED
  BY <1>1, <1>2, <1>3, NothingNoticed
     DEF StaticInit, Mistook, Overrun, Stop, Store!Next, Bindings

LEMMA CopyRefines ==
    ASSUME UInv, NEW v \in Vars, NEW b \in Bindings, Copy(v, b)
    PROVE  Store!Copy(v, b)
<1>1. IsSet(b) /\ TypeOf[b] = TypeOf[v] /\ Assigned(v, Contents(b))
  BY DEF Copy
<1>2. Store!Become(v, Contents(b))
  BY <1>1, StoreIsBecome, WhereItIs DEF Assigned, UInv
<1> QED
  BY <1>1, <1>2, OperandIsValue DEF Store!Copy

LEMMA PtrLoadRefines ==
    ASSUME UInv, NEW v \in Vars, NEW p \in Pointers, PtrLoad(v, p)
    PROVE  Store!Load(v, p) \/ UNCHANGED Store!vars
<1>1. CASE ptr[p] = Null
  BY <1>1, NothingNoticed DEF PtrLoad, Stop
<1>2. CASE ptr[p] # Null
  <2>1. ptr[p] \in defined /\ TypeOf[ptr[p]] = TypeOf[v] /\ Pointee[p] = TypeOf[v]
    BY <1>2 DEF UInv, IInv, Pointed, PtrLoad
  <2>2. /\ ptr[p] \in Bindings /\ IsSet(ptr[p])
        /\ StoredValue[ptr[p]] = Contents(ptr[p])
    BY <2>1, VariableIsValue
  <2>3. Store!Become(v, Contents(ptr[p]))
    BY <1>2, <2>1, <2>2, StoreIsBecome, WhereItIs DEF PtrLoad, Assigned, UInv
  <2> QED
    BY <1>2, <2>1, <2>2, <2>3 DEF Store!Load
<1> QED
  BY <1>1, <1>2

LEMMA LoadElementRefines ==
    ASSUME UInv, NEW v \in Vars, NEW b \in Bindings, LoadElement(v, b)
    PROVE  Store!LoadElement(v, b) \/ UNCHANGED Store!vars
<1>1. IsSet(b) /\ TypeOf[b] \in Memblocks /\ Element[TypeOf[b]] = TypeOf[v]
  BY DEF LoadElement
<1>2. PICK i \in Usize :
        \/ UNCHANGED <<slots, defined, heap, ptr, pending>>
        \/ /\ Covers(TypeOf[b], i, 1) /\ TypeOf[v] \notin Memblocks
           /\ Assigned(v, ElementAt(TypeOf[b], Contents(b), i))
  BY DEF LoadElement, Stop, Overrun
<1>3. ASSUME Covers(TypeOf[b], i, 1), TypeOf[v] \notin Memblocks,
             Assigned(v, ElementAt(TypeOf[b], Contents(b), i))
      PROVE  Store!LoadElement(v, b)
  <2>1. i \in Nat /\ Contents(b) \in ValuesOf(TypeOf[b])
    BY <1>1, WhereItIs, TablesAssumption DEF UInv, Usize
  <2>2. ElementAt(TypeOf[b], Contents(b), i) \in ValuesOf(TypeOf[v])
    BY <1>1, <1>3, <2>1, ElementTyped
  <2>3. Store!Become(v, ElementAt(TypeOf[b], Contents(b), i))
    BY <1>3, <2>2, StoreIsBecome DEF Assigned
  <2> QED
    BY <1>1, <1>3, <2>3, OperandIsValue, SameTypes, SameElements DEF Store!LoadElement
<1> QED
  BY <1>2, <1>3, NothingNoticed

-----------------------------------------------------------------------------
(* The steps that write into a block.                                      *)
LEMMA StoreElementRefines ==
    ASSUME UInv, NEW v \in Vars, NEW b \in Bindings, StoreElement(v, b)
    PROVE  Store!StoreElement(v, b) \/ UNCHANGED Store!vars
<1>1. /\ v \in defined /\ v \in Bindings /\ IsSet(v) /\ IsSet(b) /\ Aggregate(v)
      /\ TypeOf[v] \in Memblocks /\ Element[TypeOf[v]] = TypeOf[b]
  BY BindingsAssumption, Kinds DEF StoreElement, IsSet, Bindings
<1>2. PICK i \in Usize :
        \/ UNCHANGED <<slots, defined, heap, ptr, pending>>
        \/ /\ Covers(TypeOf[v], i, 1)
           /\ Written(v, WithElement(TypeOf[v], Contents(v), i, Contents(b)))
  BY DEF StoreElement, Stop, Overrun
<1>3. ASSUME Covers(TypeOf[v], i, 1),
             Written(v, WithElement(TypeOf[v], Contents(v), i, Contents(b)))
      PROVE  Store!StoreElement(v, b)
  <2>1. Store!Change(v, WithElement(TypeOf[v], Contents(v), i, Contents(b)))
    BY <1>1, <1>3, WrittenIsChange
  <2>2. StoredValue[v] = Contents(v) /\ Store!Of(b) = Contents(b)
        /\ Store!IsSet(v) /\ Store!IsSet(b)
    BY <1>1, VariableIsValue, OperandIsValue
  <2> QED
    BY <1>1, <1>3, <2>1, <2>2, SameTypes, SameElements DEF Store!StoreElement
<1> QED
  BY <1>2, <1>3, NothingNoticed

LEMMA CopyRangeRefines ==
    ASSUME UInv, NEW v \in Vars, NEW b \in Bindings, CopyRange(v, b)
    PROVE  Store!CopyRange(v, b) \/ UNCHANGED Store!vars
<1>1. /\ v \in defined /\ v \in Bindings /\ IsSet(v) /\ IsSet(b) /\ Aggregate(v)
      /\ TypeOf[v] \in Memblocks /\ TypeOf[b] \in Memblocks
  BY BindingsAssumption, Kinds DEF CopyRange, IsSet, Bindings
<1>2. PICK i \in Usize, j \in Usize, len \in Usize :
        \/ UNCHANGED <<slots, defined, heap, ptr, pending>>
        \/ /\ Alike(TypeOf[v], TypeOf[b])
           /\ Covers(TypeOf[v], i, len) /\ Covers(TypeOf[b], j, len)
           /\ Written(v, WithRange(TypeOf[v], Contents(v), i, Contents(b), j, len))
  BY <1>1 DEF CopyRange, Stop, Overrun, vars
<1>3. ASSUME Alike(TypeOf[v], TypeOf[b]), Covers(TypeOf[v], i, len), Covers(TypeOf[b], j, len),
             Written(v, WithRange(TypeOf[v], Contents(v), i, Contents(b), j, len))
      PROVE  Store!CopyRange(v, b)
  <2>1. Store!Change(v, WithRange(TypeOf[v], Contents(v), i, Contents(b), j, len))
    BY <1>1, <1>3, WrittenIsChange
  <2>2. StoredValue[v] = Contents(v) /\ Store!Of(b) = Contents(b)
        /\ Store!IsSet(v) /\ Store!IsSet(b)
    BY <1>1, VariableIsValue, OperandIsValue
  <2> QED
    BY <1>1, <1>3, <2>1, <2>2, SameTypes, SameElements DEF Store!CopyRange, Alike
<1> QED
  BY <1>2, <1>3, NothingNoticed

-----------------------------------------------------------------------------
(* The statements on pointers.                                             *)
LEMMA PtrAddressRefines ==
    ASSUME UInv, NEW v \in Vars, NEW p \in Pointers, PtrAddress(p, v)
    PROVE  Store!AddressOf(p, v)
<1>1. /\ IsSet(v) /\ Pointee[p] = TypeOf[v] /\ v \in Bindings
      /\ ptr' = [ptr EXCEPT ![p] = v] /\ UNCHANGED <<slots, defined, heap, pending>>
  BY DEF PtrAddress, Bindings
<1>2. StoredValue' = StoredValue /\ Assignments' = Assignments
  BY <1>1, SameAssignments DEF StoredValue, Aggregate
<1> QED
  BY <1>1, <1>2, OperandIsValue DEF Store!AddressOf

LEMMA PtrStoreRefines ==
    ASSUME UInv, NEW p \in Pointers, NEW b \in Bindings, PtrStore(p, b), shared' = {}
    PROVE  Store!Store(p, b) \/ UNCHANGED Store!vars
<1>1. CASE ptr[p] = Null
  BY <1>1, NothingNoticed DEF PtrStore, Stop
<1>2. CASE ptr[p] # Null
  <2>1. /\ ptr[p] \in defined /\ ptr[p] \in Vars /\ TypeOf[ptr[p]] = Pointee[p]
        /\ IsSet(b) /\ Pointee[p] = TypeOf[b] /\ ~Aggregate(b)
        /\ StoreBits(ptr[p], Bits(b)) /\ UNCHANGED <<heap, ptr, pending>>
    BY <1>2 DEF UInv, IInv, Pointed, Slotted, PtrStore
  <2>2. Bits(b) = Contents(b) /\ Contents(b) \in ValuesOf(TypeOf[ptr[p]])
    <3>1. b \in Vars /\ Contents(b) = slots[b] /\ Contents(b) \in ValuesOf(TypeOf[b])
      BY <2>1, WhereItIs DEF UInv
    <3> QED
      BY <3>1, <2>1, BindingsAssumption DEF Bits
  <2>3. StoreValue(ptr[p], Contents(b)) /\ Store!Of(b) = Contents(b)
    BY <2>1, <2>2, OperandIsValue DEF StoreValue, Aggregate
  <2>4. Store!Become(ptr[p], Contents(b))
    BY <2>1, <2>2, <2>3, StoreIsBecome
  <2> QED
    BY <1>2, <2>1, <2>3, <2>4, OperandIsValue DEF Store!Store
<1> QED
  BY <1>1, <1>2

(* A scalar is overwritten in its slot.                                    *)
LEMMA ScalarIsChange ==
    ASSUME UInv, NEW v \in defined, ~Aggregate(v), NEW x \in ValuesOf(TypeOf[v]), StoreBits(v, x),
           UNCHANGED <<heap, ptr, pending>>
    PROVE  Store!Change(v, x)
<1>1. v \in Vars /\ defined' = defined
  BY DEF UInv, IInv, Slotted, StoreBits
<1>2. StoreValue(v, x)
  BY DEF StoreValue
<1>3. StoredValue' = [StoredValue EXCEPT ![v] = x]
  BY <1>1, <1>2, StoreIsBecome DEF Store!Become
<1>4. \A k \in DOMAIN pending :
        pending[k].base # v /\ slots'[pending[k].base] = slots[pending[k].base]
  BY TablesAssumption DEF UInv, IInv, Awaited, Slotted, Aggregate, StoreBits
<1>5. Assignments' = Assignments
  BY <1>4 DEF Assignments
<1> QED
  BY <1>1, <1>3, <1>5 DEF Store!Change

LEMMA MemcopyUnsafeRefines ==
    ASSUME UInv, NEW p \in Pointers, NEW q \in Pointers, MemcopyUnsafe(p, q)
    PROVE  Store!CopyThrough(p, q) \/ UNCHANGED Store!vars
<1>1. CASE ptr[p] = Null \/ ptr[q] = Null
  BY <1>1, NothingNoticed DEF MemcopyUnsafe, Stop
<1>2. CASE ptr[p] # Null /\ ptr[q] # Null
  <2>1. /\ ptr[p] \in defined /\ ptr[q] \in defined /\ Pointee[p] = Pointee[q]
        /\ TypeOf[ptr[p]] = Pointee[p] /\ TypeOf[ptr[q]] = Pointee[p]
    BY <1>2 DEF UInv, IInv, Pointed, MemcopyUnsafe
  <2>2. /\ ptr[p] \in Bindings /\ ptr[q] \in Vars /\ ptr[q] \in Bindings
        /\ StoredValue[ptr[q]] = Contents(ptr[q])
    BY <2>1, VariableIsValue
  <2>3. Store!Change(ptr[p], Contents(ptr[q]))
    <3>1. CASE Pointee[p] = "scalar"
      BY <1>2, <2>1, <2>2, <3>1, ScalarIsChange, WhereItIs
        DEF MemcopyUnsafe, Aggregate, Contents, UInv, IsSet
    <3>2. CASE Pointee[p] # "scalar"
      BY <1>2, <2>1, <3>2, WrittenIsChange DEF MemcopyUnsafe, Aggregate
    <3> QED
      BY <3>1, <3>2
  <2> QED
    BY <1>2, <2>1, <2>2, <2>3 DEF Store!CopyThrough
<1> QED
  BY <1>1, <1>2

-----------------------------------------------------------------------------
(* Field assignments under way, as the store sees them, of a stack q and   *)
(* of slots s.                                                             *)
Marked == [base : Vars, field : Fields, replaced : BOOLEAN]
Mark(a, s) == [base |-> a.base, field |-> a.field, replaced |-> s[a.base] # a.block]
Marks(q, s) == [k \in DOMAIN q |-> Mark(q[k], s)]

LEMMA AssignmentsAreMarks ==
    Assignments = Marks(pending, slots) /\ Assignments' = Marks(pending', slots')
BY DEF Assignments, Marks, Mark

LEMMA MarkAt ==
    ASSUME NEW q, NEW s, NEW k \in DOMAIN q
    PROVE  Marks(q, s)[k] = Mark(q[k], s)
BY DEF Marks

LEMMA MarksProperties ==
    ASSUME NEW q \in Seq(Assignment), NEW s
    PROVE  Marks(q, s) \in Seq(Marked) /\ Len(Marks(q, s)) = Len(q)
<1> DEFINE m == Marks(q, s)
<1>1. Len(q) \in Nat /\ DOMAIN q = 1 .. Len(q) /\ \A k \in 1 .. Len(q) : q[k] \in Assignment
  BY LenProperties, ElementOfSeq
<1>2. m \in [1 .. Len(q) -> Marked]
  BY <1>1 DEF Marks, Mark, Marked, Assignment
<1>3. DOMAIN m = 1 .. Len(q)
  BY <1>2
<1> HIDE DEF m
<1>4. m \in Seq(Marked)
  BY <1>1, <1>2, SeqDef
<1>5. Len(m) \in Nat /\ DOMAIN m = 1 .. Len(m)
  BY <1>4, LenProperties
<1>6. Len(m) = Len(q)
  BY <1>1, <1>3, <1>5
<1> QED
  BY <1>4, <1>6 DEF m

(* The stack without its last element.                                     *)
LEMMA ShorterByOne ==
    ASSUME NEW S, NEW q \in Seq(S), Len(q) \in Nat \ {0}
    PROVE  /\ SubSeq(q, 1, Len(q) - 1) \in Seq(S) /\ Len(SubSeq(q, 1, Len(q) - 1)) = Len(q) - 1
           /\ \A k \in 1 .. Len(q) - 1 : SubSeq(q, 1, Len(q) - 1)[k] = q[k]
<1> DEFINE n == Len(q) - 1
           r == SubSeq(q, 1, n)
<1>1. n \in Nat /\ \A i \in 1 .. n : i \in 1 .. Len(q)
  OBVIOUS
<1>2. \A i \in 1 .. n : q[i] \in S
  BY <1>1, ElementOfSeq
<1>3. /\ r \in Seq(S)
      /\ Len(r) = IF 1 <= n THEN n - 1 + 1 ELSE 0
      /\ \A i \in 1 .. n - 1 + 1 : r[i] = q[1 + i - 1]
  BY <1>1, <1>2, SubSeqProperties
<1> HIDE DEF r, n
<1>4. n - 1 + 1 = n /\ (~(1 <= n) => n = 0) /\ \A i \in 1 .. n : 1 + i - 1 = i
  BY <1>1
<1>5. r \in Seq(S) /\ Len(r) = n /\ \A i \in 1 .. n : r[i] = q[i]
  BY <1>3, <1>4
<1> QED
  BY <1>5 DEF r, n

(* An assignment that begins is one more, and waits.                       *)
LEMMA BeginRefines ==
    ASSUME UInv, NEW v \in Vars, NEW f \in Fields, BeginFieldAssign(v, f)
    PROVE  Store!BeginAssign(v, f)
<1> DEFINE a == [base |-> v, block |-> slots[v], field |-> f]
           b == [base |-> v, field |-> f, replaced |-> FALSE]
<1>1. /\ IsSet(v) /\ TypeOf[v] \in Structs /\ f < Width(TypeOf[v])
      /\ pending' = Append(pending, a) /\ UNCHANGED <<slots, defined, heap, ptr>>
  BY DEF BeginFieldAssign
<1>2. v \in Bindings /\ v \in defined /\ slots[v] \in Handles /\ pending \in Seq(Assignment)
  BY <1>1, Kinds, BindingsAssumption
     DEF UInv, IInv, Slotted, Awaited, IsSet, Bindings, Aggregate
<1>3. a \in Assignment /\ b \in Marked
  BY <1>2 DEF Assignment, Marked
<1>4. /\ pending' \in Seq(Assignment) /\ Len(pending') = Len(pending) + 1
      /\ pending'[Len(pending) + 1] = a
      /\ \A k \in 1 .. Len(pending) : pending'[k] = pending[k]
  BY <1>1, <1>2, <1>3, AppendProperties
<1>5. /\ Assignments \in Seq(Marked) /\ Len(Assignments) = Len(pending)
      /\ Assignments' \in Seq(Marked) /\ Len(Assignments') = Len(pending) + 1
  BY <1>2, <1>4, MarksProperties, AssignmentsAreMarks
<1>6. /\ Append(Assignments, b) \in Seq(Marked)
      /\ Len(Append(Assignments, b)) = Len(pending) + 1
      /\ Append(Assignments, b)[Len(pending) + 1] = b
      /\ \A k \in 1 .. Len(pending) : Append(Assignments, b)[k] = Assignments[k]
  BY <1>3, <1>5, AppendProperties
<1>7. /\ DOMAIN pending = 1 .. Len(pending) /\ Len(pending) \in Nat
      /\ DOMAIN pending' = 1 .. Len(pending')
  BY <1>2, <1>4, LenProperties
<1>8. ASSUME NEW k \in 1 .. Len(pending) + 1
      PROVE  Assignments'[k] = Append(Assignments, b)[k]
  <2>1. k \in DOMAIN pending'
    BY <1>4, <1>7
  <2>2. Assignments'[k] = Mark(pending'[k], slots)
    BY <2>1, <1>1, MarkAt, AssignmentsAreMarks
  <2>3. CASE k \in 1 .. Len(pending)
    <3>1. Assignments[k] = Mark(pending[k], slots)
      BY <2>3, <1>7, MarkAt, AssignmentsAreMarks
    <3> QED
      BY <2>2, <2>3, <3>1, <1>4, <1>6
  <2>4. CASE k = Len(pending) + 1
    <3>1. Mark(a, slots) = b
      BY DEF Mark
    <3> HIDE DEF a, b
    <3>2. pending'[k] = a
      BY <2>4, <1>4
    <3>3. Append(Assignments, b)[k] = b
      BY <2>4, <1>6
    <3>4. Mark(pending'[k], slots) = b
      BY <3>1, <3>2, Zenon
    <3> QED
      BY <2>2, <3>3, <3>4, Zenon
  <2>5. k \in 1 .. Len(pending) \/ k = Len(pending) + 1
    BY <1>7
  <2> QED
    BY <2>3, <2>4, <2>5, Zenon
<1>9. Assignments' = Append(Assignments, b)
  BY <1>5, <1>6, <1>8, SeqEqual
<1>10. StoredValue' = StoredValue
  BY <1>1 DEF StoredValue, Aggregate
<1> QED
  BY <1>1, <1>2, <1>9, <1>10, SameTypes, OperandIsValue DEF Store!BeginAssign

(* One that ends writes the field of the value it began with, which is the *)
(* base's if the base has not been given another.                          *)
LEMMA EndRefines ==
    ASSUME UInv, NEW x \in Scalars, EndFieldAssign(x)
    PROVE  Store!EndAssign(x)
<1> DEFINE n == Len(pending)
           a == pending[n]
           m == Assignments[n]
<1>1. /\ pending # <<>> /\ pending \in Seq(Assignment)
      /\ heap' = [heap EXCEPT ![a.block][a.field] = x]
      /\ pending' = SubSeq(pending, 1, n - 1)
      /\ UNCHANGED <<slots, defined, ptr>>
  BY DEF EndFieldAssign, UInv, IInv, Awaited
<1>2. /\ n \in DOMAIN pending /\ a \in Assignment /\ pending' \in Seq(Assignment)
      /\ \A k \in DOMAIN pending' : k \in DOMAIN pending /\ pending'[k] = pending[k]
  BY <1>1, Popped, Zenon
<1>3. n \in Nat \ {0}
  BY <1>1, EmptySeq
<1>4. /\ m.base = a.base /\ m.field = a.field
      /\ m.replaced <=> slots[a.base] # a.block
  BY <1>2 DEF Assignments
<1>5. /\ a.base \in Vars /\ a.base \in defined /\ Aggregate(a.base)
      /\ a.block \in Handles
      /\ \A b \in Bindings : Aggregate(b) /\ IsSet(b) /\ Bits(b) = a.block => b = a.base
  BY <1>2, Kinds, TablesAssumption DEF UInv, IInv, Awaited, Assignment, Aggregate
<1>6. ASSUME NEW w \in Vars, Aggregate(w), w \in defined, slots[w] # a.block \/ w # a.base
      PROVE  heap'[slots[w]] = heap[slots[w]]
  <2>1. slots[w] # a.block
    BY <1>5, <1>6, VariableIsValue, BindingsAssumption DEF Bits
  <2> QED
    BY <2>1, <1>1, <1>6 DEF UInv, IInv, Slotted
<1>7. ASSUME NEW w \in Vars, slots[w] # a.block \/ w # a.base
      PROVE  StoredValue'[w] = StoredValue[w]
  <2>1. CASE Aggregate(w) /\ w \in defined
    BY <1>1, <1>6, <1>7, <2>1 DEF StoredValue, Aggregate
  <2>2. CASE ~(Aggregate(w) /\ w \in defined)
    BY <1>1, <2>2 DEF StoredValue, Aggregate
  <2> QED
    BY <2>1, <2>2
<1>8. m.replaced => StoredValue' = StoredValue
  <2> SUFFICES ASSUME m.replaced PROVE StoredValue' = StoredValue
    OBVIOUS
  <2>1. \A w \in Vars : StoredValue'[w] = StoredValue[w]
    BY <1>4, <1>7
  <2> QED
    BY <2>1 DEF StoredValue
<1>9. ~m.replaced => StoredValue' = [StoredValue EXCEPT ![m.base][m.field] = x]
  <2> SUFFICES ASSUME slots[a.base] = a.block
               PROVE  StoredValue' = [StoredValue EXCEPT ![a.base][a.field] = x]
    BY <1>4
  <2> DEFINE cells == [heap[a.block] EXCEPT ![a.field] = x]
  <2>1. heap'[a.block] = cells
    BY <1>1, <1>5 DEF UInv, IInv, Slotted
  <2>2. StoredValue[a.base] = heap[a.block] /\ StoredValue'[a.base] = cells
    BY <2>1, <1>1, <1>5 DEF StoredValue, Aggregate
  <2>3. \A w \in Vars : w # a.base => StoredValue'[w] = StoredValue[w]
    BY <1>7
  <2> QED
    BY <2>2, <2>3 DEF StoredValue
<1>10. /\ Assignments \in Seq(Marked) /\ Len(Assignments) = n
       /\ Assignments' \in Seq(Marked) /\ Len(Assignments') = Len(pending')
  BY <1>1, <1>2, MarksProperties, AssignmentsAreMarks
<1>11. Assignments' = SubSeq(Assignments, 1, n - 1)
  <2> DEFINE r == SubSeq(Assignments, 1, n - 1)
  <2>1. /\ r \in Seq(Marked) /\ Len(r) = n - 1
        /\ \A k \in 1 .. n - 1 : r[k] = Assignments[k]
    BY <1>3, <1>10, ShorterByOne
  <2>2. /\ Len(pending') = n - 1
        /\ \A k \in 1 .. n - 1 : pending'[k] = pending[k]
    BY <1>1, <1>3, ShorterByOne
  <2>3. DOMAIN pending = 1 .. n /\ DOMAIN pending' = 1 .. n - 1
    BY <1>1, <1>2, <2>2, LenProperties
  <2>4. ASSUME NEW k \in 1 .. n - 1 PROVE Assignments'[k] = r[k]
    <3>1. Assignments'[k] = Mark(pending'[k], slots)
      BY <1>1, <2>3, MarkAt, AssignmentsAreMarks
    <3>2. Assignments[k] = Mark(pending[k], slots)
      BY <1>3, <2>3, MarkAt, AssignmentsAreMarks
    <3> QED
      BY <3>1, <3>2, <2>1, <2>2
  <2> HIDE DEF r
  <2>5. Assignments' = r
    BY <1>10, <2>1, <2>2, <2>4, SeqEqual
  <2> QED
    BY <2>5 DEF r
<1>12. Assignments # <<>>
  BY <1>3, <1>10, EmptySeq
<1> QED
  BY <1>1, <1>8, <1>9, <1>10, <1>11, <1>12 DEF Store!EndAssign

-----------------------------------------------------------------------------
LEMMA InitRefines == Init => Store!Init
<1> SUFFICES ASSUME Init PROVE Store!Init
  OBVIOUS
<1>1. /\ slots = [v \in Vars |-> Unset] /\ defined = {}
      /\ ptr = [p \in Pointers |-> Null] /\ pending = <<>>
  BY DEF Init
<1>2. StoredValue = [v \in Vars |-> Unset]
  BY <1>1 DEF StoredValue
<1>3. Assignments = <<>>
  <2>1. pending \in Seq(Assignment) /\ Len(pending) = 0
    BY <1>1
  <2>2. Assignments \in Seq(Marked) /\ Len(Assignments) = 0
    BY <2>1, MarksProperties, AssignmentsAreMarks
  <2> QED
    BY <2>2, EmptySeq
<1> QED
  BY <1>1, <1>2, <1>3 DEF Store!Init

(* What has been shared stays so.                                          *)
LEMMA SharedGrows == [Next]_vars => shared \subseteq shared'
<1> SUFFICES ASSUME [Next]_vars PROVE shared \subseteq shared'
  OBVIOUS
<1>1. CASE RunBody \/ UNCHANGED vars
  BY <1>1 DEF RunBody, vars
<1>2. ASSUME NEW v \in Statics, StaticInit(v) PROVE shared \subseteq shared'
  BY <1>2 DEF StaticInit, InitStatic, Constructed, Mistook, Overrun, Stop
<1>3. ASSUME NEW v \in Vars, Construct(v) \/ AssignMistaken(v) PROVE shared \subseteq shared'
  BY <1>3 DEF Construct, Constructed, AssignMistaken, Mistook, Overrun, Stop
<1>4. ASSUME NEW v \in Vars, NEW b \in Bindings,
             Copy(v, b) \/ LoadElement(v, b) \/ StoreElement(v, b) \/ CopyRange(v, b)
      PROVE  shared \subseteq shared'
  BY <1>4 DEF Copy, LoadElement, StoreElement, CopyRange, Assigned, Written, Stop, Overrun,
              vars
<1>5. ASSUME NEW v \in Vars, NEW p \in Pointers, PtrLoad(v, p) \/ PtrAddress(p, v)
      PROVE  shared \subseteq shared'
  BY <1>5 DEF PtrLoad, PtrAddress, Assigned, Stop
<1>6. ASSUME NEW v \in Vars, NEW f \in Fields, BeginFieldAssign(v, f)
      PROVE  shared \subseteq shared'
  BY <1>6 DEF BeginFieldAssign
<1>7. ASSUME NEW x \in Scalars, EndFieldAssign(x) PROVE shared \subseteq shared'
  BY <1>7 DEF EndFieldAssign
<1>8. ASSUME NEW p \in Pointers, NEW b \in Bindings, PtrStore(p, b) PROVE shared \subseteq shared'
  BY <1>8 DEF PtrStore, Stop
<1>9. ASSUME NEW p \in Pointers, NEW q \in Pointers, MemcopyUnsafe(p, q)
      PROVE  shared \subseteq shared'
  BY <1>9 DEF MemcopyUnsafe, Written, Stop
<1> QED
  BY <1>1, <1>2, <1>3, <1>4, <1>5, <1>6, <1>7, <1>8, <1>9 DEF Next

(* Each statement is the one of the store it is named for, or is not       *)
(* noticed there.                                                          *)
LEMMA StepRefines ==
    UInv /\ shared' = {} /\ [Next]_vars => Store!Next \/ UNCHANGED Store!vars
<1> SUFFICES ASSUME UInv, shared' = {}, [Next]_vars
             PROVE  Store!Next \/ UNCHANGED Store!vars
  OBVIOUS
<1> USE DEF Bindings
<1>1. CASE RunBody
  BY <1>1, NothingNoticed DEF RunBody
<1>2. ASSUME NEW v \in Statics, StaticInit(v) PROVE Store!Next \/ UNCHANGED Store!vars
  BY <1>2, StaticInitRefines
<1>3. ASSUME NEW v \in Vars, Construct(v) \/ AssignMistaken(v)
      PROVE  Store!Next \/ UNCHANGED Store!vars
  <2>1. Construct(v) => Store!Construct(v) \/ UNCHANGED Store!vars
    BY ConstructedRefines DEF Construct
  <2>2. AssignMistaken(v) => UNCHANGED Store!vars
    BY NothingNoticed DEF AssignMistaken, Mistook, Overrun, Stop
  <2> QED
    BY <1>3, <2>1, <2>2 DEF Store!Next
<1>4. ASSUME NEW v \in Vars, NEW b \in Bindings,
             Copy(v, b) \/ LoadElement(v, b) \/ StoreElement(v, b) \/ CopyRange(v, b)
      PROVE  Store!Next \/ UNCHANGED Store!vars
  <2>1. \/ Store!Copy(v, b) \/ Store!LoadElement(v, b) \/ Store!StoreElement(v, b)
        \/ Store!CopyRange(v, b) \/ UNCHANGED Store!vars
    BY <1>4, CopyRefines, LoadElementRefines, StoreElementRefines, CopyRangeRefines
  <2> QED
    BY <2>1 DEF Store!Next
<1>5. ASSUME NEW v \in Vars, NEW p \in Pointers, PtrLoad(v, p) \/ PtrAddress(p, v)
      PROVE  Store!Next \/ UNCHANGED Store!vars
  BY <1>5, PtrLoadRefines, PtrAddressRefines DEF Store!Next
<1>6. ASSUME NEW v \in Vars, NEW f \in Fields, BeginFieldAssign(v, f) PROVE Store!Next
  BY <1>6, BeginRefines, SameTypes DEF Store!Next
<1>7. ASSUME NEW x \in Scalars, EndFieldAssign(x) PROVE Store!Next
  BY <1>7, EndRefines DEF Store!Next
<1>8. ASSUME NEW p \in Pointers, NEW b \in Bindings, PtrStore(p, b)
      PROVE  Store!Next \/ UNCHANGED Store!vars
  BY <1>8, PtrStoreRefines DEF Store!Next
<1>9. ASSUME NEW p \in Pointers, NEW q \in Pointers, MemcopyUnsafe(p, q)
      PROVE  Store!Next \/ UNCHANGED Store!vars
  BY <1>9, MemcopyUnsafeRefines DEF Store!Next
<1>10. CASE UNCHANGED vars
  BY <1>10, NothingNoticed DEF vars
<1> QED
  BY <1>1, <1>2, <1>3, <1>4, <1>5, <1>6, <1>7, <1>8, <1>9, <1>10 DEF Next

(* In every program the executor implements variables that own their       *)
(* values, up to the first handle that is stored: until then neither the   *)
(* handles, nor the heap, nor the block a field assignment reads before    *)
(* its right side runs can be noticed.                                     *)
THEOREM Refinement == Spec => ImplementsValueStore
<1>1. IInv /\ [Next]_vars => [shared' = {} => Store!Next]_(Store!vars)
  <2> SUFFICES ASSUME IInv, [Next]_vars, shared' = {}
               PROVE  Store!Next \/ UNCHANGED Store!vars
    OBVIOUS
  <2>1. UInv
    BY SharedGrows DEF UInv
  <2> QED
    BY <2>1, StepRefines
<1> QED
  BY <1>1, InitRefines, InitHolds, StepKeeps, PTL DEF Spec, ImplementsValueStore
=============================================================================
