----------------------------- MODULE ValueStore -----------------------------
(***************************************************************************)
(* What the language promises of variables: each owns its value, of        *)
(* whatever type, and a statement changes the variables it names and the   *)
(* ones it reaches through a pointer, no others. There are no handles and  *)
(* no heap. A field assignment whose right side is a call is for the       *)
(* value its base has when it begins: if the callee gives the base another *)
(* value, that one stays.                                                  *)
(***************************************************************************)
EXTENDS Aggregates, Sequences

CONSTANTS
    Vars,       \* the bindings with a slot: var, static var, parameters
    Lets,       \* the constants of aggregate type
    TypeOf,     \* the type of each of them
    LetValue,   \* the cells of each constant
    Pointers,   \* the bindings of pointer type, and
    Pointee,    \*     the type each points to
    Unset, Null

VARIABLES
    value,      \* the value of each variable
    defined,    \* the variables that have been given one
    target,     \* the binding each pointer points to, or Null
    assigning   \* field assignments under way, outermost first

vars == <<value, defined, target, assigning>>

Init ==
    /\ value = [v \in Vars |-> Unset]
    /\ defined = {}
    /\ target = [p \in Pointers |-> Null]
    /\ assigning = <<>>

Of(b) == IF b \in Lets THEN LetValue[b] ELSE value[b]
IsSet(b) == b \in defined \cup Lets

(* A variable gets a new value. *)
Become(v, x) ==
    /\ value' = [value EXCEPT ![v] = x]
    /\ defined' = defined \cup {v}
    /\ assigning' = [k \in DOMAIN assigning |->
                        [assigning[k] EXCEPT !.replaced = @ \/ assigning[k].base = v]]
    /\ UNCHANGED target

(* A variable's value changes in part, or is overwritten in place. *)
Change(v, x) == value' = [value EXCEPT ![v] = x] /\ UNCHANGED <<defined, target, assigning>>

Construct(v) == \E x \in ValuesOf(TypeOf[v]) : Become(v, x)
Copy(v, b) == IsSet(b) /\ TypeOf[b] = TypeOf[v] /\ Become(v, Of(b))
Load(v, p) == target[p] # Null /\ Pointee[p] = TypeOf[v] /\ Become(v, value[target[p]])
LoadElement(v, b) ==
    /\ IsSet(b) /\ TypeOf[b] \in Memblocks /\ Element[TypeOf[b]] = TypeOf[v]
    /\ \E i \in Usize :
        Covers(TypeOf[b], i, 1) /\ Become(v, ElementAt(TypeOf[b], Of(b), i))
StoreElement(v, b) ==
    /\ IsSet(v) /\ IsSet(b) /\ TypeOf[v] \in Memblocks /\ Element[TypeOf[v]] = TypeOf[b]
    /\ \E i \in Usize :
        Covers(TypeOf[v], i, 1) /\ Change(v, WithElement(TypeOf[v], value[v], i, Of(b)))
CopyRange(v, b) ==
    /\ IsSet(v) /\ IsSet(b) /\ TypeOf[v] \in Memblocks /\ TypeOf[b] \in Memblocks
    /\ Element[TypeOf[v]] = Element[TypeOf[b]]
    /\ \E i, j, len \in Usize :
        /\ Covers(TypeOf[v], i, len) /\ Covers(TypeOf[b], j, len)
        /\ Change(v, WithRange(TypeOf[v], value[v], i, Of(b), j, len))
AddressOf(p, v) ==
    /\ IsSet(v) /\ Pointee[p] = TypeOf[v]
    /\ target' = [target EXCEPT ![p] = v] /\ UNCHANGED <<value, defined, assigning>>
Store(p, b) ==
    /\ target[p] # Null /\ IsSet(b) /\ Pointee[p] = TypeOf[b]
    /\ Become(target[p], Of(b))
CopyThrough(p, q) ==
    /\ target[p] # Null /\ target[q] # Null /\ Pointee[p] = Pointee[q]
    /\ Change(target[p], value[target[q]])
BeginAssign(v, f) ==
    /\ IsSet(v) /\ TypeOf[v] \in Structs /\ f < Width(TypeOf[v])
    /\ assigning' = Append(assigning, [base |-> v, field |-> f, replaced |-> FALSE])
    /\ UNCHANGED <<value, defined, target>>
EndAssign(x) ==
    /\ assigning # <<>>
    /\ assigning' = SubSeq(assigning, 1, Len(assigning) - 1)
    /\ LET a == assigning[Len(assigning)]
       IN value' = IF a.replaced THEN value ELSE [value EXCEPT ![a.base][a.field] = x]
    /\ UNCHANGED <<defined, target>>

Next ==
    \/ \E v \in Vars :
        \/ Construct(v)
        \/ \E b \in Vars \cup Lets :
            Copy(v, b) \/ LoadElement(v, b) \/ StoreElement(v, b) \/ CopyRange(v, b)
        \/ \E p \in Pointers : Load(v, p)
        \/ \E p \in Pointers : AddressOf(p, v)
        \/ \E f \in Fields : BeginAssign(v, f)
    \/ \E p \in Pointers, b \in Vars \cup Lets : Store(p, b)
    \/ \E p, q \in Pointers : CopyThrough(p, q)
    \/ \E x \in Scalars : EndAssign(x)

Spec == Init /\ [][Next]_vars
=============================================================================
