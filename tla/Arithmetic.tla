----------------------------- MODULE Arithmetic -----------------------------
(***************************************************************************)
(* Fixed-width integers (src/vm/runtime: tc_sem_int.c, tc_sem_bitwise.c,   *)
(* tc_sem_cast.c, tc_semantics.c). Every operation is computed with the    *)
(* host's 64-bit integers, and has to come out as if it had been computed  *)
(* with integers of the type's width: the definitions below do what the C  *)
(* code does, with HostWidth for 64.                                       *)
(*                                                                         *)
(* The operations are used three times: by the analyzer, which folds       *)
(* constants, by the executor on tagged slots, and by compiled programs on *)
(* bare 64-bit slots. A behaviour folds a chain of constants, stores the   *)
(* last in a variable, and runs a program on the variable's slot in both   *)
(* back ends. The slot is reached as a variable or through a pointer, and  *)
(* a cast may have given the pointer another type.                         *)
(***************************************************************************)
EXTENDS Integers

CONSTANTS
    HostWidth,      \* the width of int64_t and uint64_t
    IntTypes, Bool, \* the integer types and bool
    Signed,         \* the signed ones
    Width,          \* the width of each type; of bool too, a byte
    None

Types == IntTypes \cup {Bool}

(* What tc_type_bit_width promises, and the laws of powers of two, of      *)
(* which the provers know nothing. tc_umul64 splits a host word into       *)
(* halves; every narrower type fits into a half, so that a product fits    *)
(* into the word.                                                          *)
ASSUME WidthsAssumption ==
    /\ Bool \notin IntTypes /\ Signed \subseteq IntTypes
    /\ HostWidth \in Nat /\ HostWidth > 1 /\ HostWidth % 2 = 0
    /\ Width \in [Types -> 2 .. HostWidth]
    /\ \A T \in Types : Width[T] = HostWidth \/ Width[T] <= HostWidth \div 2
ASSUME PowersAssumption ==
    /\ 2^0 = 1 /\ 2^1 = 2
    /\ \A u, v \in 0 .. HostWidth :
        2^u \in Nat \ {0} /\ (u + v <= HostWidth => 2^(u + v) = 2^u * 2^v)

VARIABLES
    slot,       \* the executor's slot: a value with the type it was stored as
    raw,        \* the slot of the compiled program: a host word
    instr,      \* the operation about to be done, or None
    status,     \* "folding", "running", or the error the executor ended with
    exit,       \* the same of the compiled program
    narrowed    \* a value was copied at a type too narrow for its bits

vars == <<slot, raw, instr, status, exit, narrowed>>

-----------------------------------------------------------------------------
(* Words and values. *)
Modulus(T) == 2^Width[T]
HostModulus == 2^HostWidth
HostMin == -(2^(HostWidth - 1))
HostMax == 2^(HostWidth - 1) - 1
MinSigned(T) == -(2^(Width[T] - 1))
MaxSigned(T) == 2^(Width[T] - 1) - 1
SignedInRange(v, T) == MinSigned(T) <= v /\ v <= MaxSigned(T)

ToUnsigned(T, bits) == bits % Modulus(T)
BitsToSigned(T, bits) ==
    LET masked == ToUnsigned(T, bits)
    IN  IF masked >= 2^(Width[T] - 1) THEN masked - Modulus(T) ELSE masked
SignedToBits(T, v) == (v % HostModulus) % Modulus(T)

(* tc_value_make. *)
Make(T, bits) == [type |-> T, bits |-> ToUnsigned(T, bits)]
Truth(b) == Make(Bool, IF b THEN 1 ELSE 0)

Yields(value) == [error |-> None, value |-> value]
Fails(error) == [error |-> error, value |-> None]

(* A signed operation of the host that leaves the range of int64_t has no  *)
(* defined result.                                                         *)
Defined(v) == HostMin <= v /\ v <= HostMax

(* The host divides towards zero. *)
Magnitude(v) == IF v < 0 THEN -v ELSE v
Quotient(a, b) ==
    LET q == Magnitude(a) \div Magnitude(b) IN IF (a < 0) = (b < 0) THEN q ELSE -q
Remainder(a, b) == a - b * Quotient(a, b)

-----------------------------------------------------------------------------
(* tc_sem_int.c. A strict result is checked twice: whether the host can    *)
(* represent it, before the host computes it, and whether the type can.    *)
AddOverflows(a, b) ==
    \/ b > 0 /\ a > HostMax - b
    \/ b < 0 /\ a < HostMin - b
SubOverflows(a, b) ==
    \/ b < 0 /\ a > HostMax + b
    \/ b > 0 /\ a < HostMin + b
MulOverflows(a, b) ==
    /\ a # 0 /\ b # 0
    /\ IF a > 0
       THEN IF b > 0 THEN a > Quotient(HostMax, b) ELSE b < Quotient(HostMin, a)
       ELSE IF b > 0 THEN a < Quotient(HostMin, b) ELSE a < Quotient(HostMax, b)

InRange(T, v) ==
    IF ~Defined(v) THEN Fails("undefined")
    ELSE IF ~SignedInRange(v, T) THEN Fails("overflow")
    ELSE Yields(Make(T, SignedToBits(T, v)))
Strict(T, overflows, v) == IF overflows THEN Fails("overflow") ELSE InRange(T, v)

(* tc_umul64: the low word of a product of two words, by halves. *)
LowProduct(a, b) ==
    LET base == 2^(HostWidth \div 2)
        p0 == (a % base) * (b % base)
        p1 == (a % base) * (b \div base)
        p2 == (a \div base) * (b % base)
        c0 == (p0 \div base) + (p1 % base) + (p2 % base)
    IN  (p0 % base) + ((c0 * base) % HostModulus)

WrapMul(T, a, b) ==
    IF Width[T] = HostWidth
    THEN Yields(Make(T, LowProduct(SignedToBits(T, a), SignedToBits(T, b))))
    ELSE IF ~Defined(a * b) THEN Fails("undefined")
    ELSE Yields(Make(T, SignedToBits(T, a * b)))

Divide(op, T, a, b) ==
    IF b = 0 THEN Fails("division by zero")
    ELSE IF a = MinSigned(T) /\ b = -1
    THEN IF op = "mod" THEN Yields(Make(T, 0)) ELSE Fails("overflow")
    ELSE InRange(T, IF op = "div" THEN Quotient(a, b) ELSE Remainder(a, b))
SignedArith(op, T, mode, x, y) ==
    LET a == BitsToSigned(T, x)
        b == BitsToSigned(T, y)
    IN  CASE op \in {"div", "mod"} -> Divide(op, T, a, b)
          [] op = "add" /\ mode = "wrap" -> Yields(Make(T, (ToUnsigned(T, a) + ToUnsigned(T, b)) % HostModulus))
          [] op = "sub" /\ mode = "wrap" -> Yields(Make(T, (ToUnsigned(T, a) - ToUnsigned(T, b)) % HostModulus))
          [] op = "mul" /\ mode = "wrap" -> WrapMul(T, a, b)
          [] op = "add" /\ mode = "strict" -> Strict(T, AddOverflows(a, b), a + b)
          [] op = "sub" /\ mode = "strict" -> Strict(T, SubOverflows(a, b), a - b)
          [] op = "mul" /\ mode = "strict" -> Strict(T, MulOverflows(a, b), a * b)

UnsignedArith(op, T, x, y) ==
    LET a == ToUnsigned(T, x)
        b == ToUnsigned(T, y)
    IN  CASE op \in {"div", "mod"} /\ b = 0 -> Fails("division by zero")
          [] op = "div" /\ b # 0 -> Yields(Make(T, a \div b))
          [] op = "mod" /\ b # 0 -> Yields(Make(T, a % b))
          [] op = "add" -> Yields(Make(T, (a + b) % HostModulus))
          [] op = "sub" -> Yields(Make(T, (a - b) % HostModulus))
          [] op = "mul" -> Yields(Make(T, IF Width[T] = HostWidth THEN LowProduct(a, b)
                                          ELSE (a * b) % HostModulus))

(* tc_validate_arith_mode; tc_exec_arith. *)
Arith(op, T, mode, x, y) ==
    IF mode = "wrap" /\ (T \notin Signed \/ op \in {"div", "mod"}) THEN Fails("mode mismatch")
    ELSE IF T \in Signed THEN SignedArith(op, T, mode, x, y)
    ELSE UnsignedArith(op, T, x, y)

(* tc_validate_unary_mode; tc_exec_unary. *)
Unary(op, T, mode, x) ==
    LET bits == ToUnsigned(T, x)
        v == BitsToSigned(T, bits)
    IN  IF mode = "wrap" /\ (op # "neg" \/ T \notin Signed) THEN Fails("mode mismatch")
        ELSE IF T \in Signed /\ (op = "abs" \/ mode = "strict")
        THEN IF v = MinSigned(T) THEN Fails("overflow")
             ELSE IF ~Defined(-v) THEN Fails("undefined")
             ELSE Yields([type |-> T, bits |-> SignedToBits(T, IF op = "abs" THEN Magnitude(v) ELSE -v)])
        ELSE Yields([type |-> T,
                     bits |-> CASE op = "abs" -> bits
                                [] op = "neg" -> IF bits = 0 THEN 0
                                                 ELSE (Modulus(T) - 1 - bits + 1) % Modulus(T)])

-----------------------------------------------------------------------------
(* tc_sem_bitwise.c. *)
Bit(bits, k) == (bits \div 2^k) % 2
WordOf(S) ==
    CHOOSE n \in 0 .. HostModulus - 1 : \A k \in 0 .. HostWidth - 1 : Bit(n, k) = 1 <=> k \in S
Positions(T) == 0 .. Width[T] - 1

BitwiseBinary(op, T, x, y) ==
    LET a == {k \in Positions(T) : Bit(x, k) = 1}
        b == {k \in Positions(T) : Bit(y, k) = 1}
    IN  Yields(Make(T, WordOf(CASE op = "and" -> a \cap b
                                [] op = "or" -> a \cup b
                                [] op = "xor" -> (a \cup b) \ (a \cap b))))
(* Mutant: the bits above the width are inverted too, and kept.             *)
BitwiseNotUnmasked(T, x) == Yields([type |-> T, bits |-> HostModulus - 1 - ToUnsigned(T, x)])
BitwiseNot(T, x) == Yields(Make(T, HostModulus - 1 - ToUnsigned(T, x)))

(* tc_shift_count. *)
ShiftCount(T, y) == IF T \in Signed THEN BitsToSigned(T, y) ELSE ToUnsigned(T, y)

(* tc_smul_pow2_overflow: v times 2^k leaves the host's range. INT64_MAX   *)
(* divided by 2^k would refuse the product that is exactly INT64_MIN.      *)
PowOverflows(v, k) ==
    /\ k > 0 /\ v # 0
    /\ \/ k >= HostWidth
       \/ v > 0 /\ v > HostMax \div 2^k
       \/ v = HostMin
       \/ v < 0 /\ -v > 2^(HostWidth - 1) \div 2^k

(* Mutant: zero is zero, however far it is shifted. *)
NonzeroShiftedOut(T, bits, k) == bits # 0 /\ k >= Width[T]
ShiftedOut(T, bits, k) == k >= Width[T]

ShiftLeft(T, mode, x, k) ==
    LET bits == ToUnsigned(T, x)
        v == BitsToSigned(T, bits)
    IN  IF ShiftedOut(T, bits, k)
        THEN IF mode = "wrap" THEN Yields(Make(T, 0)) ELSE Fails("overflow")
        ELSE IF bits = 0 THEN Yields(Make(T, 0))
        ELSE IF mode = "wrap" THEN Yields(Make(T, (bits * 2^k) % HostModulus))
        ELSE IF T \in Signed THEN Strict(T, PowOverflows(v, k), v * 2^k)
        ELSE IF k > 0 /\ bits > (Modulus(T) - 1) \div 2^k THEN Fails("overflow")
        ELSE Yields(Make(T, bits * 2^k))
(* The sign is filled in by hand; >> of a negative number is the host's. *)
ShiftRight(T, x, k) ==
    LET bits == ToUnsigned(T, x)
        mask == Modulus(T) - 1
        fill == IF T \in Signed /\ BitsToSigned(T, bits) < 0 THEN mask - mask \div 2^k ELSE 0
    IN  IF k >= Width[T] THEN Yields(Make(T, 0))
        ELSE Yields(Make(T, bits \div 2^k + fill))

(* tc_exec_shift: a negative count is found before anything else. *)
Shift(op, T, mode, x, y) ==
    LET k == ShiftCount(T, y)
    IN  IF mode = "wrap" /\ op # "shl" THEN Fails("mode mismatch")
        ELSE IF k < 0 THEN Fails("negative shift count")
        ELSE IF op = "shl" THEN ShiftLeft(T, mode, x, k)
        ELSE ShiftRight(T, x, k)

-----------------------------------------------------------------------------
(* tc_semantics.c: comparisons and logic. *)
(* Mutant: words are compared. *)
ComparedAsWord(T, bits) == ToUnsigned(T, bits)
Compared(T, bits) == IF T \in Signed THEN BitsToSigned(T, bits) ELSE ToUnsigned(T, bits)

Compare(op, T, x, y) ==
    LET a == Compared(T, x)
        b == Compared(T, y)
    IN  Yields(Truth(CASE op = "eq" -> a = b [] op = "ne" -> a # b
                       [] op = "lt" -> a < b [] op = "le" -> a <= b
                       [] op = "gt" -> a > b [] op = "ge" -> a >= b))

(* Any other bits than 0 are true: a bool may hold what a pointer left. *)
Logic(op, x, y) ==
    Yields(Truth(CASE op = "and" -> x # 0 /\ y # 0
                   [] op = "or" -> x # 0 \/ y # 0
                   [] op = "xor" -> (x # 0) # (y # 0)
                   [] op = "not" -> x = 0))

-----------------------------------------------------------------------------
(* tc_sem_cast.c. The source is a value, and has its own type. *)
(* Mutant: narrowing from unsigned to unsigned keeps the low bits. *)
CastFitsIfSigned(target, source) ==
    LET v == BitsToSigned(source.type, source.bits)
        u == ToUnsigned(source.type, source.bits)
    IN  IF source.type \in Signed
        THEN IF target \in Signed THEN SignedInRange(v, target)
             ELSE v >= 0 /\ v <= Modulus(target) - 1
        ELSE target \in Signed => u <= MaxSigned(target)
CastFits(target, source) ==
    LET v == BitsToSigned(source.type, source.bits)
        u == ToUnsigned(source.type, source.bits)
    IN  IF source.type \in Signed
        THEN IF target \in Signed THEN SignedInRange(v, target)
             ELSE v >= 0 /\ v <= Modulus(target) - 1
        ELSE u <= (IF target \in Signed THEN MaxSigned(target) ELSE Modulus(target) - 1)

CastInteger(target, source) ==
    IF ~CastFits(target, source) THEN Fails("cast overflow")
    ELSE Yields(Make(target, IF source.type \in Signed
                             THEN BitsToSigned(source.type, source.bits) % HostModulus
                             ELSE ToUnsigned(source.type, source.bits)))

Cast(target, source) ==
    IF source.type = target THEN Yields(source)
    ELSE IF source.type = Bool THEN Yields(Make(target, IF source.bits # 0 THEN 1 ELSE 0))
    ELSE IF target = Bool THEN Yields(Truth(ToUnsigned(source.type, source.bits) # 0))
    ELSE CastInteger(target, source)

Truncate(target, source) ==
    IF Bool \in {target, source.type} \/ Width[target] >= Width[source.type]
    THEN Fails("mode mismatch")
    ELSE Yields(Make(target, source.bits))

Bitcast(target, source) ==
    IF Bool \in {target, source.type} THEN Fails("type mismatch")
    ELSE IF Width[target] # Width[source.type] THEN Fails("bitcast width")
    ELSE Yields(Make(target, source.bits))

-----------------------------------------------------------------------------
(* One operation on an operand and a literal, or a conversion: tc_eval_rhs *)
(* of the executor, the folding of tc_const_eval.c and the tc_aot_ calls   *)
(* all lead to these.                                                      *)
ArithOps == {"add", "sub", "mul", "div", "mod"}
UnaryOps == {"abs", "neg"}
BitOps == {"and", "or", "xor"}
ShiftOps == {"shl", "shr"}
CompareOps == {"eq", "ne", "lt", "le", "gt", "ge"}
Conversions == {"cast", "truncate", "bitcast"}
Ops == ArithOps \cup UnaryOps \cup BitOps \cup {"not"} \cup ShiftOps \cup CompareOps \cup Conversions

Apply(i, operand) ==
    LET x == operand.bits
    IN  CASE i.op = "cast" -> Cast(i.target, operand)
          [] i.op = "truncate" -> Truncate(i.target, operand)
          [] i.op = "bitcast" -> Bitcast(i.target, operand)
          [] i.op \in BitOps \cup {"not"} /\ i.type = Bool -> Logic(i.op, x, i.other)
          [] i.op \in ArithOps -> Arith(i.op, i.type, i.mode, x, i.other)
          [] i.op \in UnaryOps -> Unary(i.op, i.type, i.mode, x)
          [] i.op \in BitOps /\ i.type # Bool -> BitwiseBinary(i.op, i.type, x, i.other)
          [] i.op = "not" /\ i.type # Bool -> BitwiseNot(i.type, x)
          [] i.op \in ShiftOps -> Shift(i.op, i.type, i.mode, x, i.other)
          [] i.op \in CompareOps -> Compare(i.op, i.type, x, i.other)

(* What the grammar and the checks of types let through. *)
Instrs ==
    {i \in [op : Ops, type : Types, mode : {"strict", "wrap"}, target : Types,
            other : 0 .. HostModulus - 1] :
        /\ i.mode = "wrap" => i.op \in ArithOps \cup UnaryOps \cup ShiftOps
        /\ i.type = Bool => i.op \in BitOps \cup {"not"} \cup Conversions
        /\ i.op \notin Conversions => i.target = i.type
        /\ i.other < (IF i.type = Bool THEN 2 ELSE Modulus(i.type))
        /\ i.op \in UnaryOps \cup {"not"} \cup Conversions => i.other = 0}

(* tc_const_map_runtime_error; a mode or a type that does not fit is       *)
(* reported as it is.                                                      *)
FoldError(error) ==
    CASE error = "overflow" -> "constant overflow"
      [] error = "division by zero" -> "constant division by zero"
      [] error = "negative shift count" -> "constant expression"
      [] error = "cast overflow" -> "constant cast overflow"
      [] OTHER -> error

(* The analyzer refuses these in any expression, constant or not. *)
StaticErrors == {"mode mismatch", "type mismatch", "bitcast width"}
RuntimeErrors == {"overflow", "division by zero", "negative shift count", "cast overflow"}
ASSUME NoneAssumption == None \notin StaticErrors \cup RuntimeErrors
Statuses ==
    {"folding", "running"} \cup RuntimeErrors \cup StaticErrors \cup {FoldError(e) : e \in RuntimeErrors}

(* Mutant: an operand has the type it was stored with. *)
LoadedAsStored(T, value) == value
(* tc_exec_load_binding: an operand has the type of its use. *)
Loaded(T, value) == IF value.type # T THEN Make(T, value.bits) ELSE value

-----------------------------------------------------------------------------
Literals(T) == 0 .. (IF T = Bool THEN 2 ELSE Modulus(T)) - 1

Init ==
    /\ \E T \in Types : \E bits \in Literals(T) : slot = Make(T, bits) /\ raw = bits
    /\ instr = None
    /\ status = "folding" /\ exit = "folding"
    /\ narrowed = FALSE

(* The next operation: of a constant, whose type is its own, or of the     *)
(* variable, at any type. The back ends are compared until narrowed.       *)
Fetch ==
    /\ instr = None /\ ~narrowed
    /\ \/ status = "folding" /\ instr' \in {i \in Instrs : i.type = slot.type}
       \/ /\ status = "running" /\ exit = "running"
          /\ instr' \in {i \in Instrs :
                          Apply(i, Make(i.type, 0)).error \notin StaticErrors}
    /\ UNCHANGED <<slot, raw, status, exit, narrowed>>

(* let c: U = op(T, c, other) *)
Fold ==
    /\ instr # None /\ status = "folding"
    /\ LET result == Apply(instr, slot)
       IN  IF result.error = None
           THEN slot' = result.value /\ raw' = result.value.bits /\ UNCHANGED <<status, exit>>
           ELSE status' = FoldError(result.error) /\ exit' = status' /\ UNCHANGED <<slot, raw>>
    /\ instr' = None
    /\ UNCHANGED narrowed

(* var v: T = c: both back ends are given the bits of the constant. *)
Start ==
    /\ instr = None /\ status = "folding"
    /\ status' = "running" /\ exit' = "running"
    /\ UNCHANGED <<slot, raw, instr, narrowed>>

(* ptr_store(U, p, op(T, v, other)), in both. tc_aot_arith and the others  *)
(* make a value of the bare slot.                                          *)
Execute ==
    /\ instr # None /\ status = "running"
    /\ LET result == Apply(instr, Loaded(instr.type, slot))
           compiled == Apply(instr, Make(instr.type, raw))
       IN  /\ IF result.error = None
              THEN slot' = result.value /\ UNCHANGED status
              ELSE status' = result.error /\ UNCHANGED slot
           /\ IF compiled.error = None
              THEN raw' = compiled.value.bits /\ UNCHANGED exit
              ELSE exit' = compiled.error /\ UNCHANGED raw
    /\ instr' = None
    /\ UNCHANGED narrowed

(* var v: T = ptr_load(T, p), then ptr_store(T, p, v). Only a bool is      *)
(* normalised. The executor makes the value anew where v is used; compiled *)
(* programs copy the word.                                                 *)
Copy(T) ==
    /\ instr = None /\ status = "running" /\ exit = "running" /\ ~narrowed
    /\ IF T = Bool
       THEN slot' = Truth(slot.bits # 0) /\ raw' = (IF raw # 0 THEN 1 ELSE 0) /\ UNCHANGED narrowed
       ELSE /\ slot' = Loaded(T, slot)
            /\ narrowed' = (raw >= Modulus(T))
            /\ UNCHANGED raw
    /\ UNCHANGED <<instr, status, exit>>

Next ==
    \/ Fetch \/ Fold \/ Start \/ Execute
    \/ \E T \in Types : Copy(T)

Spec == Init /\ [][Next]_vars

-----------------------------------------------------------------------------
(* What the language standard (6.3 to 6.6) says of the operations, in the  *)
(* integers.                                                               *)
Numbers(T) == IF T \in Signed THEN MinSigned(T) .. MaxSigned(T) ELSE 0 .. Modulus(T) - 1
NumberOf(T, bits) == CHOOSE n \in Numbers(T) : n % Modulus(T) = bits % Modulus(T)
BitsOf(T, n) == n % Modulus(T)

TruncatedQuotient(a, b) ==
    CHOOSE q \in -HostModulus .. HostModulus :
        LET r == a - q * b
        IN  /\ Magnitude(r) < Magnitude(b)
            /\ r = 0 \/ (r < 0) = (a < 0)

Mathematical(op, a, b) ==
    CASE op = "add" -> a + b
      [] op = "sub" -> a - b
      [] op = "mul" -> a * b
      [] op = "div" -> TruncatedQuotient(a, b)
      [] op = "mod" -> a - b * TruncatedQuotient(a, b)
      [] op = "abs" -> Magnitude(a)
      [] op = "neg" -> -a
      [] op = "shl" -> a * 2^b
      [] op = "shr" -> a \div 2^b

(* The errors the standard names for an operation, or None. The quotient   *)
(* of MIN and -1 is no number of the type; a shift of the width or more    *)
(* overflows whatever is shifted.                                          *)
StandardError(i, a) ==
    LET b == NumberOf(i.type, i.other)
        wraps == i.mode = "wrap" \/ (i.type \notin Signed /\ i.op # "shl")
        mayWrap == i.op = "shl" \/ (i.op \in {"add", "sub", "mul", "neg"} /\ i.type \in Signed)
    IN  IF i.mode = "wrap" /\ ~mayWrap THEN "mode mismatch"
        ELSE IF i.op \in {"div", "mod"} /\ b = 0 THEN "division by zero"
        ELSE IF i.op \in ShiftOps /\ b < 0 THEN "negative shift count"
        ELSE IF i.op = "shl" /\ b >= Width[i.type]
        THEN IF wraps THEN None ELSE "overflow"
        ELSE IF wraps \/ i.op = "shr" \/ Mathematical(i.op, a, b) \in Numbers(i.type)
        THEN None ELSE "overflow"

StandardBits(i, a) ==
    LET b == NumberOf(i.type, i.other)
    IN  IF i.op \in ShiftOps /\ b >= Width[i.type] THEN 0
        ELSE BitsOf(i.type, Mathematical(i.op, a, b))

(* The values that an operation has before the step, at the type of use.   *)
Operand == NumberOf(instr.type, slot.bits)
Operating == instr # None /\ instr' = None
Ended(error) == IF status = "folding" THEN status' = FoldError(error) ELSE status' = error
Result(T, bits) == status' = status /\ slot' = [type |-> T, bits |-> bits]

-----------------------------------------------------------------------------
(* Properties. *)

(* A value's bits never reach beyond the width of its type, whatever       *)
(* sequence of operations, folded constants and stores through pointers    *)
(* made it: tc_value_make and the masks of tc_exec_unary keep what the     *)
(* comparisons of bits (casts, logic) rely on.                             *)
TypeOK ==
    /\ slot \in [type : Types, bits : 0 .. HostModulus - 1]
    /\ slot.bits < Modulus(slot.type)
    /\ raw \in 0 .. HostModulus - 1
    /\ instr \in Instrs \cup {None}
    /\ {status, exit} \subseteq Statuses
    /\ narrowed \in BOOLEAN

NumberIsExact ==
    LET error == StandardError(instr, Operand)
    IN  IF error # None THEN Ended(error)
        ELSE Result(instr.type, StandardBits(instr, Operand))

OrderIsExact ==
    LET b == NumberOf(instr.type, instr.other)
        holds == \/ Operand = b /\ instr.op \in {"eq", "le", "ge"}
                 \/ Operand < b /\ instr.op \in {"lt", "le", "ne"}
                 \/ Operand > b /\ instr.op \in {"gt", "ge", "ne"}
    IN  Result(Bool, IF holds THEN 1 ELSE 0)

TruthIsExact ==
    LET a == IF slot.bits % Modulus(Bool) = 0 THEN 0 ELSE 1
        b == instr.other
    IN  Result(Bool, CASE instr.op = "and" -> a * b
                       [] instr.op = "or" -> IF a + b > 0 THEN 1 ELSE 0
                       [] instr.op = "xor" -> (a + b) % 2
                       [] instr.op = "not" -> 1 - a)

BitsAreExact ==
    /\ status' = status /\ slot'.type = instr.type /\ slot'.bits < Modulus(instr.type)
    /\ \A k \in Positions(instr.type) :
          LET a == Bit(slot.bits, k)
              b == Bit(instr.other, k)
          IN  Bit(slot'.bits, k) = CASE instr.op = "and" -> a * b
                                     [] instr.op = "or" -> IF a + b > 0 THEN 1 ELSE 0
                                     [] instr.op = "xor" -> (a + b) % 2
                                     [] instr.op = "not" -> 1 - a

(* Arithmetic, negation and shifts give the number of the standard, or the *)
(* error it names, although the host computes with words of another width: *)
(* MIN / -1, MIN % -1, the negation of MIN, products that leave the word,  *)
(* counts that are negative or reach the width. Comparisons order numbers  *)
(* and not words, logic takes any nonzero byte for true. Folded constants  *)
(* fail with the matching compile-time error. No operation of the host     *)
(* leaves the range where C defines it: "undefined" is no error of the     *)
(* standard (tc_sem_int.c, tc_exec_shift, tc_exec_compare).                *)
ResultsAreExact ==
    [][Operating =>
         CASE instr.op \in ArithOps \cup UnaryOps \cup ShiftOps -> NumberIsExact
           [] instr.op \in CompareOps -> OrderIsExact
           [] instr.op \in BitOps \cup {"not"} /\ instr.type = Bool -> TruthIsExact
           [] OTHER -> TRUE]_vars

(* Bitwise operations act on the bits of the type and on no other, and     *)
(* what they leave is a value of the type (tc_sem_bitwise.c).              *)
BitwiseIsExact ==
    [][Operating /\ instr.op \in BitOps \cup {"not"} /\ instr.type # Bool => BitsAreExact]_vars

(* A cast gives the same number, or fails when the target has no such      *)
(* number, for every mix of widths and signedness; truncate keeps the low  *)
(* bits, bitcast all of them (tc_sem_cast.c).                              *)
ConversionsAreExact ==
    [][Operating /\ instr.op \in Conversions
       => LET T == instr.type
              U == instr.target
              bits == slot.bits % Modulus(T)
          IN  IF instr.op = "truncate" /\ (Bool \in {T, U} \/ Width[U] >= Width[T])
              THEN Ended("mode mismatch")
              ELSE IF instr.op = "bitcast" /\ Bool \in {T, U} THEN Ended("type mismatch")
              ELSE IF instr.op = "bitcast" /\ Width[U] # Width[T] THEN Ended("bitcast width")
              ELSE IF instr.op # "cast" \/ T = U THEN Result(U, bits % Modulus(U))
              ELSE IF U = Bool \/ T = Bool THEN Result(U, IF bits = 0 THEN 0 ELSE 1)
              ELSE IF Operand \in Numbers(U) THEN Result(U, BitsOf(U, Operand))
              ELSE Ended("cast overflow")]_vars

(* The executor and the compiled program have the same value or fail with  *)
(* the same error, whatever type a pointer has made of the slot, until a   *)
(* word is copied at a type too narrow for it.                             *)
AgreeUntilNarrowed == status = exit /\ (~narrowed => slot.bits = raw)
=============================================================================
