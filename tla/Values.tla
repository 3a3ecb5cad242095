------------------------------- MODULE Values -------------------------------
(***************************************************************************)
(* How the executor keeps values (src/vm/executor: tc_executor.c,          *)
(* tc_struct_exec.c, tc_memblock_exec.c, tc_ptr_exec.c). A variable has a  *)
(* slot. A scalar is in the slot; of a struct or a memblock the slot has a *)
(* handle, the address of a heap block, and every statement has to say     *)
(* whether it copies the block or the handle. Constants have blocks too,   *)
(* made by the analyzer, and are read through their handles.               *)
(*                                                                         *)
(* Blocks are freed when the program ends and never before. A block that   *)
(* nothing refers to can never be found again, as handles come from slots  *)
(* only: its name is used again here, so that the model is finite.         *)
(***************************************************************************)
EXTENDS Aggregates, Sequences

CONSTANTS
    Vars, Lets, TypeOf, LetValue, Pointers, Pointee, Unset, Null,
    Statics,        \* the variables that are static var
    Handles,        \* the addresses of blocks
    LetBlock,       \* the address of each constant's block
    Bytes,          \* the size of each struct, and of the elements of a memblock
    FirstStruct,    \* the struct that was registered first
    Holds,          \* the memblock types of a struct's fields, and of theirs
    Mistaken,       \* the variables some statement may give a value of another type
    MaxAssigning    \* bound: field assignments under way at a time

(* The type tables, as the analyzer accepts them. *)
ASSUME TablesAssumption ==
    /\ Structs \cap Memblocks = {} /\ "scalar" \notin Structs \cup Memblocks
    /\ CellCount \in [Structs \cup Memblocks -> Nat \ {0}]
    /\ Count \in [Memblocks -> Nat \ {0}]
    /\ Element \in [Memblocks -> Types]
    /\ \A T \in Memblocks : CellCount[T] = Width(T)
    /\ UsizeRange \in Nat

(* Slots and blocks are for the analyzer to hand out: each constant has a  *)
(* block of its own, with its value.                                       *)
ASSUME BindingsAssumption ==
    /\ Vars \cap Lets = {} /\ Statics \subseteq Vars /\ Mistaken \subseteq Vars /\ Null \notin Vars
    /\ TypeOf \in [Vars \cup Lets -> Types]
    /\ \A c \in Lets : TypeOf[c] # "scalar" /\ LetValue[c] \in ValuesOf(TypeOf[c])
    /\ LetBlock \in [Lets -> Handles] /\ Unset \notin Handles \cup Scalars
    /\ \A c, d \in Lets : c # d => LetBlock[c] # LetBlock[d]

VARIABLES
    slots,      \* the slot of each variable
    defined,    \* the variables that have been given a value
    heap,       \* the cells of each block
    ptr,        \* the slot each pointer points to, as the variable it is of
    pending,    \* tc_exec_struct_field_assign calls in their right side
    phase,      \* "statics", then "body", or "stopped" by an error
    shared,     \* the types of which a handle was stored and not cloned, and
    outside     \*     those of the blocks that were taken for larger or others

vars == <<slots, defined, heap, ptr, pending, phase, shared, outside>>
Bindings == Vars \cup Lets

Aggregate(b) == TypeOf[b] # "scalar"
IsSet(b) == b \in defined \cup Lets

(* tc_eval_operand: the bits of a binding, which are a handle when its     *)
(* type is an aggregate, and what they stand for.                          *)
Bits(b) == IF b \in Lets THEN LetBlock[b] ELSE slots[b]
Contents(b) == IF Aggregate(b) THEN heap[Bits(b)] ELSE slots[b]

Init ==
    /\ slots = [v \in Vars |-> Unset]
    /\ defined = {}
    /\ heap = [h \in Handles |->
                IF h \in {LetBlock[c] : c \in Lets}
                THEN LetValue[CHOOSE c \in Lets : LetBlock[c] = h]
                ELSE <<>>]
    /\ ptr = [p \in Pointers |-> Null]
    /\ pending = <<>>
    /\ phase = "statics"
    /\ shared = {}
    /\ outside = {}

(* malloc: a block nothing refers to. *)
Referred ==
    {slots[v] : v \in Vars} \cup {LetBlock[c] : c \in Lets}
        \cup {pending[k].block : k \in DOMAIN pending}
Unreferred == Handles \ Referred
(* Mutant: a block is released when its variable gets another. *)
FreshToSlots == CHOOSE h \in Handles : h \notin {slots[v] : v \in Vars} \cup {LetBlock[c] : c \in Lets}
Fresh == CHOOSE h \in Handles : h \notin Referred

(* tc_exec_struct_clone and tc_exec_memblock_clone into a slot; a scalar   *)
(* is its own copy.                                                        *)
StoreBits(v, bits) == slots' = [slots EXCEPT ![v] = bits] /\ defined' = defined \cup {v}
StoreValue(v, x) ==
    IF Aggregate(v)
    THEN /\ Unreferred # {}
         /\ StoreBits(v, Fresh)
         /\ heap' = [heap EXCEPT ![Fresh] = Cloned(TypeOf[v], x)]
    ELSE StoreBits(v, x) /\ UNCHANGED heap

Stop ==
    /\ phase' = "stopped"
    /\ UNCHANGED <<slots, defined, heap, ptr, pending, shared, outside>>

(* A block of type U is accessed as if it were one of type T, or where it  *)
(* has ended: what comes then is not followed.                             *)
Overrun(T, U) ==
    /\ outside' = outside \cup {<<T, U>>} /\ phase' = "stopped"
    /\ UNCHANGED <<slots, defined, heap, ptr, pending, shared>>

(* tc_eval_rhs makes the element type of a memblock constructor from its   *)
(* tag alone: a struct is taken for the first one of the table, and a      *)
(* memblock for its handle. The block has the wrong size then, and so it   *)
(* has among the fields of a struct.                                       *)
SizedByTag(T) ==
    /\ T \in Memblocks
    /\ \/ Element[T] \in Memblocks
       \/ Element[T] \in Structs /\ Bytes[Element[T]] # Bytes[FirstStruct]
Misbuilt(T) == SizedByTag(T) \/ (T \in Structs /\ \E U \in Holds[T] : SizedByTag(U))

(* A constructor, and the clone of what it makes, which is of the real     *)
(* size. (A static var keeps the block as it is: the next statement that   *)
(* reads it is the one that leaves it.)                                    *)
Constructed(v) ==
    \/ /\ ~SizedByTag(TypeOf[v])
       /\ \E x \in ValuesOf(TypeOf[v]) : StoreValue(v, x)
       /\ UNCHANGED <<ptr, pending, phase, shared, outside>>
    \/ Misbuilt(TypeOf[v]) /\ Overrun(TypeOf[v], TypeOf[v])

(* What the checks let through as a value of v's type and is none: a block *)
(* of another count, a literal for an aggregate, a struct field that is    *)
(* returned; and a struct whose size tc_execute_statement_at takes from a  *)
(* symbol it finds by the variable's name.                                 *)
Mistook(v) == v \in Mistaken /\ (Overrun(TypeOf[v], TypeOf[v]) \/ Stop)

-----------------------------------------------------------------------------
(* Mutant: nothing is cloned. *)
InitStaticShared(v, b) == StoreBits(v, Bits(b)) /\ UNCHANGED <<heap, shared>>

(* tc_exec_init_all_static_vars: a struct is cloned, anything else is put  *)
(* into the slot as it was evaluated.                                      *)
InitStatic(v, b) ==
    IF TypeOf[v] \in Memblocks
    THEN StoreBits(v, Bits(b)) /\ shared' = shared \cup {TypeOf[v]} /\ UNCHANGED heap
    ELSE StoreValue(v, Contents(b)) /\ UNCHANGED shared

StaticInit(v) ==
    /\ phase = "statics" /\ ~IsSet(v)
    /\ \/ Constructed(v) \/ Mistook(v)
       \/ \E b \in Statics \cup Lets :
            /\ IsSet(b) /\ TypeOf[b] = TypeOf[v] /\ InitStatic(v, b)
            /\ UNCHANGED <<ptr, pending, phase, outside>>

RunBody ==
    /\ phase = "statics" /\ \A v \in Statics : IsSet(v)
    /\ phase' = "body" /\ UNCHANGED <<slots, defined, heap, ptr, pending, shared, outside>>

-----------------------------------------------------------------------------
(* A variable definition, an assignment, an argument on its way to its     *)
(* parameter and a returned value: the right side, then a clone. While a   *)
(* field assignment waits for its right side the statements are the        *)
(* callee's, which can name the base only if it is static.                 *)
Nameable(v) == \A k \in DOMAIN pending : pending[k].base = v => v \in Statics
Running(v) == phase = "body" /\ Nameable(v)
Assigned(v, x) == StoreValue(v, x) /\ UNCHANGED <<ptr, pending, phase, shared, outside>>

Construct(v) == Running(v) /\ Constructed(v)

Copy(v, b) ==
    /\ Running(v) /\ IsSet(b) /\ TypeOf[b] = TypeOf[v]
    /\ Assigned(v, Contents(b))

PtrLoad(v, p) ==
    /\ Running(v) /\ Pointee[p] = TypeOf[v]
    /\ IF ptr[p] = Null THEN Stop ELSE Assigned(v, Contents(ptr[p]))

AssignMistaken(v) == Running(v) /\ Mistook(v)

(* memblock_load checks the index against the header of the block. Of a    *)
(* memblock inside another it takes the first bytes for a handle.          *)
LoadElement(v, b) ==
    /\ Running(v) /\ IsSet(b) /\ TypeOf[b] \in Memblocks /\ Element[TypeOf[b]] = TypeOf[v]
    /\ \E i \in Usize :
       IF i >= Header(Contents(b)) THEN Stop
       ELSE IF ~Covers(TypeOf[b], i, 1) \/ TypeOf[v] \in Memblocks THEN Overrun(TypeOf[b], TypeOf[b])
       ELSE Assigned(v, ElementAt(TypeOf[b], Contents(b), i))

-----------------------------------------------------------------------------
(* Statements that write into the block a variable has. *)
Written(v, x) ==
    /\ heap' = [heap EXCEPT ![slots[v]] = x]
    /\ UNCHANGED <<slots, defined, ptr, pending, phase, shared, outside>>

StoreElement(v, b) ==
    /\ Running(v) /\ IsSet(v) /\ IsSet(b)
    /\ TypeOf[v] \in Memblocks /\ Element[TypeOf[v]] = TypeOf[b]
    /\ \E i \in Usize :
       IF i >= Header(Contents(v)) THEN Stop
       ELSE IF ~Covers(TypeOf[v], i, 1) \/ TypeOf[b] \in Memblocks THEN Overrun(TypeOf[v], TypeOf[v])
       ELSE Written(v, WithElement(TypeOf[v], Contents(v), i, Contents(b)))

(* Mutant: the obvious check, whose sums wrap. *)
BadRangeSum(len, i, dstCount, j, srcCount) ==
    (i + len) % UsizeRange > dstCount \/ (j + len) % UsizeRange > srcCount

(* The range check of memblock_copy, written so that no sum is formed: the *)
(* difference is of operands that have just been compared.                 *)
BadRange(len, i, dstCount, j, srcCount) ==
    \/ len > 0 /\ \/ len > dstCount \/ i > dstCount - len
                  \/ len > srcCount \/ j > srcCount - len
    \/ len = 0 /\ (i > dstCount \/ j > srcCount)

(* The elements are compared with the destination's only: of the source    *)
(* they may be of another type.                                            *)
Alike(T, U) == Element[T] = Element[U] /\ Bytes[T] = Bytes[U]

(* Constants have no slot, in which memblock_copy looks for its source:    *)
(* that is an internal error.                                              *)
CopyRange(v, b) ==
    /\ Running(v) /\ IsSet(v) /\ IsSet(b)
    /\ TypeOf[v] \in Memblocks /\ TypeOf[b] \in Memblocks
    /\ \E i, j, len \in Usize :
       IF b \in Lets \/ BadRange(len, i, Header(Contents(v)), j, Header(Contents(b))) THEN Stop
       ELSE IF len = 0 THEN UNCHANGED vars
       ELSE IF /\ Alike(TypeOf[v], TypeOf[b])
               /\ Covers(TypeOf[v], i, len) /\ Covers(TypeOf[b], j, len)
       THEN Written(v, WithRange(TypeOf[v], Contents(v), i, Contents(b), j, len))
       ELSE Overrun(TypeOf[v], TypeOf[b])

(* tc_exec_struct_field_assign reads the handle of its base, evaluates the *)
(* right side, which may be a call, and writes into the block it read.     *)
BeginFieldAssign(v, f) ==
    /\ Running(v) /\ IsSet(v) /\ TypeOf[v] \in Structs /\ f < Width(TypeOf[v])
    /\ Len(pending) < MaxAssigning
    /\ pending' = Append(pending, [base |-> v, block |-> slots[v], field |-> f])
    /\ UNCHANGED <<slots, defined, heap, ptr, phase, shared, outside>>

EndFieldAssign(x) ==
    /\ phase = "body" /\ pending # <<>>
    /\ LET a == pending[Len(pending)]
       IN heap' = [heap EXCEPT ![a.block][a.field] = x]
    /\ pending' = SubSeq(pending, 1, Len(pending) - 1)
    /\ UNCHANGED <<slots, defined, ptr, phase, shared, outside>>

-----------------------------------------------------------------------------
(* Pointers are slot numbers. *)
PtrAddress(p, v) ==
    /\ Running(v) /\ IsSet(v) /\ Pointee[p] = TypeOf[v]
    /\ ptr' = [ptr EXCEPT ![p] = v]
    /\ UNCHANGED <<slots, defined, heap, pending, phase, shared, outside>>

(* tc_exec_ptr_store puts the bits of its operand into the slot. *)
PtrStore(p, b) ==
    /\ phase = "body" /\ IsSet(b) /\ Pointee[p] = TypeOf[b]
    /\ IF ptr[p] = Null THEN Stop
       ELSE /\ StoreBits(ptr[p], Bits(b))
            /\ shared' = IF Aggregate(b) THEN shared \cup {TypeOf[b]} ELSE shared
            /\ UNCHANGED <<heap, ptr, pending, phase, outside>>

(* memcopy_unsafe of one whole object: of an aggregate the block's cells   *)
(* are moved (tc_memcopy_region), of a scalar the slot's bits.             *)
MemcopyUnsafe(p, q) ==
    /\ phase = "body" /\ Pointee[p] = Pointee[q]
    /\ IF ptr[p] = Null \/ ptr[q] = Null THEN Stop
       ELSE IF Pointee[p] = "scalar"
       THEN /\ StoreBits(ptr[p], slots[ptr[q]])
            /\ UNCHANGED <<heap, ptr, pending, phase, shared, outside>>
       ELSE Written(ptr[p], Contents(ptr[q]))

-----------------------------------------------------------------------------
Next ==
    \/ RunBody
    \/ \E v \in Statics : StaticInit(v)
    \/ \E v \in Vars : Construct(v) \/ AssignMistaken(v)
    \/ \E v \in Vars, b \in Bindings :
        Copy(v, b) \/ LoadElement(v, b) \/ StoreElement(v, b) \/ CopyRange(v, b)
    \/ \E v \in Vars, p \in Pointers : PtrLoad(v, p) \/ PtrAddress(p, v)
    \/ \E v \in Vars, f \in Fields : BeginFieldAssign(v, f)
    \/ \E x \in Scalars : EndFieldAssign(x)
    \/ \E p \in Pointers, b \in Bindings : PtrStore(p, b)
    \/ \E p, q \in Pointers : MemcopyUnsafe(p, q)

Spec == Init /\ [][Next]_vars
-----------------------------------------------------------------------------
(* The state has its types; in particular every memblock in use has the    *)
(* count of its declaration in its header, which the bounds checks rely on.*)
TypeOK ==
    /\ \A v \in Vars : slots[v] \in {Unset} \cup IF Aggregate(v) THEN Handles ELSE Scalars
    /\ defined = {v \in Vars : slots[v] # Unset}
    /\ DOMAIN heap = Handles
    /\ \A b \in Bindings : IsSet(b) => Contents(b) \in ValuesOf(TypeOf[b])
    /\ \A p \in Pointers : ptr[p] \in {Null} \cup {v \in Vars : TypeOf[v] = Pointee[p]}
    /\ \A k \in DOMAIN pending : pending[k].base \in Vars /\ pending[k].block \in Handles
    /\ phase \in {"statics", "body", "stopped"} /\ shared \subseteq Types /\ outside \subseteq Types \X Types

(* Value semantics: no two bindings, constants included, have one block    *)
(* (the clones of tc_exec_struct_store_value, tc_exec_memblock_clone and   *)
(* tc_exec_init_static_var), except that those of a type may after one of  *)
(* the two statements that do not clone was executed for that type.        *)
OwnedBlocks ==
    \A b, d \in Bindings :
        b # d /\ Aggregate(b) /\ Aggregate(d) /\ IsSet(b) /\ IsSet(d) /\ Bits(b) = Bits(d)
            => TypeOf[b] = TypeOf[d] /\ TypeOf[b] \in shared

(* Blocks are left only by the known mistakes about types: no element      *)
(* access that passes its check (memblock_load, memblock_store,            *)
(* memblock_copy) is outside, and every clone has the size of its source.  *)
StaysInside ==
    \A T, U \in Types : <<T, U>> \in outside =>
        Misbuilt(T) \/ (\E v \in Mistaken : TypeOf[v] = T) \/ ~Alike(T, U)

(* A memblock has its count and then its elements, each of its own type    *)
(* (language standard, 3.8.3: "the block of sizeof_bits(usize) + count x  *)
(* sizeof_bits(T) is allocated, every element is initialised with v"): what *)
(* tc_eval_rhs makes is of the size that its readers take it to have. The  *)
(* code does not keep it: it is violated in the run values (README,        *)
(* section 6, 31).                                                         *)
BlocksFit == \A T \in Types : <<T, T>> \notin outside

(* A constant is not changed, whatever is done through the handle its      *)
(* readers get (tc_exec_load_binding), while handles of its type are not   *)
(* stored.                                                                 *)
LetsNeverChange == \A c \in Lets : TypeOf[c] \notin shared => heap[LetBlock[c]] = LetValue[c]

(* The executor implements variables that own their values: up to the      *)
(* first statement that stores a handle handles, the heap and the block a  *)
(* field assignment read early cannot be noticed.                          *)
StoredValue == [v \in Vars |-> IF Aggregate(v) /\ v \in defined THEN heap[slots[v]] ELSE slots[v]]
Assignments ==
    [k \in DOMAIN pending |->
        [base |-> pending[k].base, field |-> pending[k].field,
         replaced |-> slots[pending[k].base] # pending[k].block]]
Store == INSTANCE ValueStore WITH value <- StoredValue, target <- ptr, assigning <- Assignments
ImplementsValueStore == Store!Init /\ [][shared' = {} => Store!Next]_(Store!vars)
=============================================================================
