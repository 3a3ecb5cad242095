----------------------------- MODULE Aggregates -----------------------------
(***************************************************************************)
(* What a struct or a memblock holds, as cells: one cell per scalar, inner *)
(* aggregates laid out in place. A memblock starts with a header cell, its *)
(* element count (src/vm/executor/tc_memblock_exec.c, tc_struct_exec.c).   *)
(* Bytes, padding and the widths of the scalar types are left out.         *)
(***************************************************************************)
EXTENDS Integers

CONSTANTS
    Scalars,    \* what a scalar variable or a cell may hold
    Structs,    \* the struct types, and
    CellCount,  \*     how many cells a struct has, or a memblock
    Memblocks,  \* the memblock types,
    Element,    \*     the type of their elements, and
    Count,      \*     how many they have
    UsizeRange  \* the operands of type usize are 0 .. UsizeRange - 1

Types == Structs \cup Memblocks \cup {"scalar"}
Usize == 0 .. UsizeRange - 1

(* tc_memblock_element_bytes. *)
Stride(T) == IF Element[T] = "scalar" THEN 1 ELSE CellCount[Element[T]]
Width(T) == IF T \in Memblocks THEN 1 + Count[T] * Stride(T) ELSE CellCount[T]
Header(cells) == cells[0]
Fields == UNION {0 .. CellCount[T] - 1 : T \in Structs}

(* The values of a type: a scalar, or the cells of an aggregate. *)
ValuesOf(T) ==
    CASE T = "scalar" -> Scalars
      [] T \in Structs -> [0 .. Width(T) - 1 -> Scalars]
      [] T \in Memblocks -> {[k \in 0 .. Width(T) - 1 |-> IF k = 0 THEN Count[T] ELSE cells[k]] :
                             cells \in [1 .. Width(T) - 1 -> Scalars]}

(* tc_exec_memblock_clone writes the declared count into the copy's header. *)
Cloned(T, cells) == IF T \in Memblocks THEN [cells EXCEPT ![0] = Count[T]] ELSE cells

(* Mutant: the header is forgotten. *)
AtStart(T, i) == i * Stride(T)

(* tc_memblock_element_ptr: the first cell of element i. *)
At(T, i) == 1 + i * Stride(T)
ElementAt(T, cells, i) ==
    IF Element[T] = "scalar" THEN cells[At(T, i)]
    ELSE [k \in 0 .. Stride(T) - 1 |-> cells[At(T, i) + k]]
WithElement(T, cells, i, value) ==
    [k \in DOMAIN cells |->
        IF k \in At(T, i) .. At(T, i) + Stride(T) - 1
        THEN IF Element[T] = "scalar" THEN value ELSE value[k - At(T, i)]
        ELSE cells[k]]

(* The move of memblock_copy, through a temporary, so that it may overlap. *)
WithRange(T, dst, i, src, j, len) ==
    [k \in DOMAIN dst |->
        IF k \in At(T, i) .. At(T, i + len) - 1
        THEN src[k - At(T, i) + At(T, j)]
        ELSE dst[k]]

(* The elements i .. i + len - 1 are elements of a block of type T. *)
Covers(T, i, len) == i + len <= Count[T]
=============================================================================
