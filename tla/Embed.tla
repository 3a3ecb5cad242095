------------------------------- MODULE Embed -------------------------------
(***************************************************************************)
(* The host interface (src/vm/embed/tc_embed.c) over the slot array of one *)
(* TcEmbedCtx. The declared slots of the program are [0, Declared); above  *)
(* them, up to Capacity, lies the temporary region, a stack that grows     *)
(* down: the host lays C arrays there, hands TC functions pointers to them *)
(* and pops them again. TC functions run between the host's calls and      *)
(* write their parameters, static variables and, through pointers,         *)
(* temporary slots.                                                        *)
(*                                                                         *)
(* What the host is promised is simpler: every array it has open is an     *)
(* array of its own. "open" is that view, the data of the open arrays,     *)
(* innermost last; no operation of the code reads it.                      *)
(***************************************************************************)
EXTENDS Integers, Sequences, SequencesExt

CONSTANTS
    Declared,       \* runtime slots of the program
    TmpMin,         \* TC_EMBED_TMP_MIN
    MaxDepth,       \* TC_EMBED_TMP_MAX_DEPTH
    Values,         \* what a slot may hold
    Uninit,         \* the one of them an uninitialised slot holds
    Funcs,          \* functions of the program
    ParamSlots,     \* the parameter slots of each function, in order
    SizeRange,      \* a size_t is a number below this
    MaxCount        \* bound: longest array and argument list

ASSUME EmbedAssumption ==
    /\ Declared \in Nat /\ TmpMin \in Nat \ {0} /\ MaxDepth \in Nat /\ MaxCount \in Nat
    /\ Uninit \in Values
    /\ ParamSlots \in [Funcs -> Seq(0 .. Declared - 1)]
    /\ \A f \in Funcs : IsInjective(ParamSlots[f])

(* tc_embed_slot_capacity_of                                               *)
Base     == IF Declared > 0 THEN Declared ELSE 1
Capacity == Base + (IF Base > TmpMin THEN Base ELSE TmpMin)
Slot     == 0 .. Capacity - 1

(* The slot array is allocated, so that its length is a size_t.            *)
ASSUME SizeAssumption == SizeRange \in Nat /\ Capacity < SizeRange

VARIABLES
    slots,      \* exec_ctx.slots
    tmpTop,     \* tmp_top
    marks,      \* tmp_marks[0 .. tmp_depth-1]
    err,        \* error_flag
    rc,         \* result of the last call
    open        \* the host's view: the open arrays, [base, data]

vars == <<slots, tmpTop, marks, err, rc, open>>

Arrays == UNION {[1 .. n -> Values] : n \in 0 .. MaxCount}

(* tc_embed_create: static variables have their initial values.            *)
Init ==
    /\ slots \in [Slot -> Values]
    /\ \A s \in Declared .. Capacity - 1 : slots[s] = Uninit
    /\ tmpTop = Capacity
    /\ marks = <<>>
    /\ err = FALSE /\ rc = 0
    /\ open = <<>>

Succeed == rc' = 0
Fail ==
    /\ rc' = -1 /\ err' = TRUE
    /\ UNCHANGED <<slots, tmpTop, marks, open>>

(* Mutant: the region may be laid over the declared slots.                *)
RoomExhausted(n) == Len(marks) >= MaxDepth \/ tmpTop < n

(* The difference is of numbers of type size_t, and wraps.                 *)
Exhausted(n) ==
    Len(marks) >= MaxDepth \/ tmpTop < n \/ (tmpTop - n) % SizeRange < Declared

Reserve(n) ==
    /\ marks' = Append(marks, tmpTop)
    /\ tmpTop' = tmpTop - n

Opened(base, data) == open' = Append(open, [base |-> base, data |-> data])

(* The slots of a fresh region keep what an earlier region left in them.   *)
TmpBegin(n) ==
    IF Exhausted(n) THEN Fail
    ELSE /\ Reserve(n)
         /\ Opened(tmpTop - n, [i \in 1 .. n |-> slots[tmpTop - n + i - 1]])
         /\ Succeed
         /\ UNCHANGED <<slots, err>>

(* Mutant: the outermost mark is restored.                                *)
TmpEndAll ==
    /\ open' = IF open = <<>> THEN open ELSE Front(open)
    /\ IF marks = <<>>
       THEN UNCHANGED <<tmpTop, marks>>
       ELSE tmpTop' = Head(marks) /\ marks' = Front(marks)
    /\ UNCHANGED <<slots, err, rc>>

(* The host ends the innermost array it opened, or one end too many.       *)
TmpEnd ==
    /\ open' = IF open = <<>> THEN open ELSE Front(open)
    /\ IF marks = <<>>
       THEN UNCHANGED <<tmpTop, marks>>
       ELSE tmpTop' = Last(marks) /\ marks' = Front(marks)
    /\ UNCHANGED <<slots, err, rc>>

(* tc_embed_make_ptr: no data makes a null pointer and opens no region, so *)
(* a host that pairs every make_ptr with a tmp_end would pop a region of   *)
(* another array: the host of this model does not count it as open.        *)
(* Otherwise each element is written with tc_embed_slot_write, which also  *)
(* clears the error.                                                       *)
MakePtr(data) ==
    LET n == Len(data)
        base == tmpTop - n
    IN  IF n = 0
        THEN Succeed /\ UNCHANGED <<slots, tmpTop, marks, err, open>>
        ELSE IF Exhausted(n) THEN Fail
        ELSE /\ Reserve(n)
             /\ slots' = [s \in Slot |-> IF base <= s /\ s < tmpTop
                                         THEN data[s - base + 1] ELSE slots[s]]
             /\ Opened(base, data)
             /\ err' = FALSE
             /\ Succeed

(* A store by the host or by a TC function: to a slot outside the open     *)
(* arrays, or to element i of the open array k through its pointer.        *)
StoreTo(f, v) ==
    \/ \E s \in 0 .. tmpTop - 1 :
          slots' = [f EXCEPT ![s] = v] /\ UNCHANGED open
    \/ \E k \in 1 .. Len(open) : \E i \in 1 .. Len(open[k].data) :
          /\ slots' = [f EXCEPT ![open[k].base + i - 1] = v]
          /\ open' = [open EXCEPT ![k].data[i] = v]

HostWrite(v) ==
    /\ StoreTo(slots, v)
    /\ err' = FALSE
    /\ Succeed
    /\ UNCHANGED <<tmpTop, marks>>

(* tc_embed_call: the arguments go to the static parameter slots one by    *)
(* one, then the body runs; it may store, and it may end in a runtime      *)
(* error after it has stored.                                              *)
WithArgs(f, args) ==
    [s \in Slot |->
        IF \E i \in 1 .. Len(args) : ParamSlots[f][i] = s
        THEN args[CHOOSE i \in 1 .. Len(args) : ParamSlots[f][i] = s]
        ELSE slots[s]]

Call(f, args, v) ==
    IF Len(args) # Len(ParamSlots[f]) THEN Fail
    ELSE /\ StoreTo(WithArgs(f, args), v)
         /\ \/ Succeed /\ err' = FALSE
            \/ rc' = -1 /\ err' = TRUE
         /\ UNCHANGED <<tmpTop, marks>>

(* A slot out of range, an element type make_ptr does not lay out, or a    *)
(* function that does not exist.                                           *)
Refuse == Fail

Next ==
    \/ Refuse
    \/ \E n \in 0 .. SizeRange - 1 : TmpBegin(n)
    \/ TmpEnd
    \/ \E data \in Arrays : MakePtr(data)
    \/ \E v \in Values : HostWrite(v)
    \/ \E f \in Funcs, args \in Arrays, v \in Values : Call(f, args, v)

Spec == Init /\ [][Next]_vars

-----------------------------------------------------------------------------

TypeOK ==
    /\ slots \in [Slot -> Values]
    /\ tmpTop \in 0 .. Capacity
    /\ marks \in Seq(0 .. Capacity)
    /\ err \in BOOLEAN /\ rc \in {0, -1}
    /\ open \in Seq([base : 0 .. Capacity, data : Seq(Values)])

(* The regions of the open arrays lie one below the other between the      *)
(* declared slots and the capacity, each starting where the one opened     *)
(* before it ends, however begins, ends and failures are nested.           *)
RegionsNest ==
    /\ Declared <= tmpTop
    /\ Len(marks) <= MaxDepth
    /\ Len(open) = Len(marks)
    /\ \A k \in 1 .. Len(open) :
          /\ open[k].base + Len(open[k].data) = marks[k]
          /\ open[k].base = IF k = Len(marks) THEN tmpTop ELSE marks[k + 1]
    /\ IF marks = <<>> THEN tmpTop = Capacity ELSE marks[1] = Capacity

(* What the host laid into an open array is there when a TC function reads *)
(* it: no argument, static variable or other array shares a slot with it   *)
(* (Embed design, section 16.4: temporary and declared slots are disjoint).*)
OpenDataIntact ==
    \A k \in 1 .. Len(open) : \A i \in 1 .. Len(open[k].data) :
        slots[open[k].base + i - 1] = open[k].data[i]
=============================================================================
