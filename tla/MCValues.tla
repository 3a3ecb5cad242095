------------------------------ MODULE MCValues ------------------------------
(***************************************************************************)
(* A program with two struct variables, one of them static, a static       *)
(* memblock of two such structs, a scalar, a constant of either aggregate  *)
(* type, and pointers to structs and to the scalar; and what its           *)
(* constructors get wrong: a memblock of structs of another size, and a    *)
(* constant memblock of memblocks.                                         *)
(***************************************************************************)
EXTENDS Values

MCTypeOf == [b \in Vars \cup Lets |->
                CASE b \in {"s", "t", "c"} -> "S"
                  [] b \in {"m", "d"} -> "M"
                  [] b = "n" -> "N"
                  [] b = "e" -> "K"
                  [] b = "i" -> "scalar"]
MCLetValue == [b \in Lets |->
                CASE b = "c" -> [k \in {0} |-> 1]
                  [] b = "d" -> [k \in 0 .. 2 |-> IF k = 0 THEN 2 ELSE k - 1]
                  [] b = "e" -> [k \in 0 .. 3 |-> 1]]
MCLetBlock == [b \in Lets |-> CASE b = "c" -> 1 [] b = "d" -> 2 [] b = "e" -> 3]
MCPointee == [q \in Pointers |-> IF q = "pi" THEN "scalar" ELSE "S"]
MCCellCount == [T \in Structs \cup Memblocks |->
                CASE T \in Structs -> 1 [] T = "M" -> 3 [] T = "N" -> 2 [] T = "K" -> 4]
MCElement == [T \in Memblocks |-> CASE T = "M" -> "S" [] T = "N" -> "R" [] T = "K" -> "M"]
MCCount == [T \in Memblocks |-> IF T = "M" THEN 2 ELSE 1]
MCBytes == [T \in Structs \cup Memblocks |-> IF T \in {"R", "N"} THEN 8 ELSE 1]
MCHolds == [T \in Structs |-> {}]

(* States are told apart up to the names of the blocks: a block is named   *)
(* by who refers to it. (The allocator's choice of a name has no effect.)  *)
(* Of a run that has stopped, which leaves the rest of the state as it is, *)
(* only what it was stopped for is told apart.                             *)
Owners(h) ==
    <<{b \in Bindings : Aggregate(b) /\ IsSet(b) /\ Bits(b) = h},
      {k \in DOMAIN pending : pending[k].block = h}>>
View ==
    IF phase = "stopped" THEN <<phase, outside>> ELSE
    <<[b \in Bindings |-> IF Aggregate(b) /\ IsSet(b) THEN <<Owners(Bits(b)), Contents(b)>>
                          ELSE <<Bits(b)>>],
      [k \in DOMAIN pending |-> <<pending[k].base, pending[k].field, Owners(pending[k].block),
                                  heap[pending[k].block]>>],
      ptr, phase, shared, outside>>

(* Bound: once a handle has been stored, only the structs, the block of    *)
(* them and the pointer to one are used.                                   *)
FewAfterSharing ==
    shared # {} => defined \subseteq {"s", "t", "m"} /\ ptr["pt"] = Null /\ ptr["pi"] = Null
=============================================================================
