------------------------------- MODULE MCCalls -------------------------------
(* Programs of a few functions with one or two parameters.                 *)
EXTENDS Calls

CONSTANTS FuncCount, MaxCalls, MaxActive

(* The last of n functions has two.                                        *)
ParamCounts(n) == [f \in 1 .. n |-> IF f = n THEN 2 ELSE 1]

(* The entry module holds the functions from the (k+1)-st on; libraries    *)
(* call libraries only.                                                    *)
Programs(n, k, max, line) ==
    {[n |-> n, entry |-> k + 1 .. n, calls |-> c, params |-> ParamCounts(n), line |-> line] :
        c \in {d \in [1 .. n -> BoundedSeq(1 .. n, max)] :
                 \A f \in 1 .. n : (f <= k => ToSet(d[f]) \subseteq 1 .. k)}}

(* Libraries without recursion: each calls those before it.                *)
Layered(n, k, max, line) ==
    {q \in Programs(n, k, max, line) : \A f \in 1 .. k : ToSet(q.calls[f]) \subseteq 1 .. f - 1}

OwnLine(n) == [f \in 1 .. n |-> f]
SameLine(n) == [f \in 1 .. n |-> 1]

(* Every line is a function's own and no library recurs; libraries that    *)
(* recur; a function of the entry that shares its line with a library's.   *)
SmallCallPrograms ==
    UNION {Layered(FuncCount, k, MaxCalls, OwnLine(FuncCount)) : k \in 0 .. FuncCount - 1}
        \cup UNION {Programs(FuncCount, k, 1, OwnLine(FuncCount)) : k \in 1 .. FuncCount - 1}
        \cup Layered(FuncCount, 1, 1, [OwnLine(FuncCount) EXCEPT ![FuncCount] = 1])

SharedLines == Layered(FuncCount, FuncCount - 1, MaxCalls, SameLine(FuncCount))

(* Bound: a recursion the check does not see is followed to this depth.    *)
Shallow == Len(active) <= MaxActive
=============================================================================
