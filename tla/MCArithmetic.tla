---------------------------- MODULE MCArithmetic ----------------------------
EXTENDS Arithmetic
\* A host of four bits, with types of the host's width and of half of it.
MCIntTypes == {"int2", "uint2", "int4", "uint4"}
MCSigned == {"int2", "int4"}
MCWidth == [T \in MCIntTypes \cup {"bool"} |-> IF T \in {"int4", "uint4"} THEN 4 ELSE 2]
=============================================================================
