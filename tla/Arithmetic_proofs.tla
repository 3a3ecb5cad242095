-------------------------- MODULE Arithmetic_proofs --------------------------
(***************************************************************************)
(* Integers of every width: no operation leaves the range in which the     *)
(* host's arithmetic is defined, no value has bits beyond its width, the   *)
(* two back ends agree, and the numbers are those of the language.         *)
(***************************************************************************)
EXTENDS Arithmetic, WellFoundedInduction, TLAPS

(* Division by a positive number, of which the provers know only this.     *)
LEMMA Division ==
    \A a \in Int, b \in Nat \ {0} :
        /\ a \div b \in Int /\ b * (a \div b) <= a /\ a < b * (a \div b) + b
        /\ a % b \in 0 .. b - 1 /\ (a \in 0 .. b - 1 => a % b = a)
OBVIOUS

LEMMA Remainders ==
    \A a \in Int, b \in Nat \ {0} : a % b \in 0 .. b - 1 /\ a % b \in Int /\ a % b \in Nat
OBVIOUS

LEMMA Quotients ==
    \A a \in Nat, b \in Nat \ {0} : a \div b \in 0 .. a
OBVIOUS

LEMMA Signs ==
    \A a, b \in Int : (-a) * (-b) = a * b /\ (-a) * b = -(a * b) /\ a * (-b) = -(a * b)
OBVIOUS

LEMMA ProductsGrow ==
    \A a, b, c \in Nat : a <= b => a * c <= b * c
OBVIOUS

(* A number that is at most a quotient, times the divisor.                 *)
LEMMA BelowQuotient ==
    ASSUME NEW a \in Nat, NEW b \in Nat \ {0}, NEW n \in Nat, a <= n \div b
    PROVE  a * b <= n
<1> DEFINE q == n \div b
<1>1. q \in Nat /\ b * q <= n
  BY Division, Quotients
<1> HIDE DEF q
<1>2. a * b <= q * b
  BY <1>1, ProductsGrow DEF q
<1>3. q * b = b * q /\ a * b \in Nat /\ q * b \in Nat
  BY <1>1
<1> QED
  BY <1>1, <1>2, <1>3

-----------------------------------------------------------------------------
(* Every type fits into a host word, and one narrower than it into a half. *)
LEMMA Powers ==
    ASSUME NEW k \in 0 .. HostWidth - 1
    PROVE  2^k \in Nat \ {0} /\ 2^(k + 1) = 2 * 2^k
<1>1. k \in 0 .. HostWidth /\ 1 \in 0 .. HostWidth /\ k + 1 <= HostWidth
  BY WidthsAssumption
<1>2. 2^(k + 1) = 2^k * 2^1 /\ 2^1 = 2 /\ 2^k \in Nat \ {0}
  BY <1>1, PowersAssumption
<1> QED
  BY <1>2

LEMMA PowersGrow ==
    ASSUME NEW u \in 0 .. HostWidth, NEW w \in 0 .. HostWidth, u <= w
    PROVE  2^u \in Nat \ {0} /\ 2^w \in Nat \ {0} /\ 2^u <= 2^w
<1>1. w - u \in 0 .. HostWidth /\ u + (w - u) = w /\ u + (w - u) <= HostWidth
  BY WidthsAssumption
<1>2. 2^w = 2^u * 2^(w - u)
  BY <1>1, PowersAssumption
<1>3. 2^u \in Nat \ {0} /\ 2^(w - u) \in Nat \ {0} /\ 2^w \in Nat \ {0}
  BY <1>1, PowersAssumption
<1>4. \A x, y, z \in Nat \ {0} : z = x * y => x <= z
  OBVIOUS
<1> QED
  BY <1>2, <1>3, <1>4

LEMMA Moduli ==
    ASSUME NEW T \in Types
    PROVE  /\ Width[T] \in 2 .. HostWidth /\ HostWidth \in Nat
           /\ Modulus(T) \in Nat /\ Modulus(T) >= 4 /\ Modulus(T) <= HostModulus
           /\ HostModulus \in Nat
           /\ Modulus(T) = 2 * 2^(Width[T] - 1) /\ 2^(Width[T] - 1) \in Nat \ {0}
           /\ HostModulus = 2 * 2^(HostWidth - 1) /\ 2^(HostWidth - 1) \in Nat \ {0}
<1>1. Width[T] \in 2 .. HostWidth /\ HostWidth \in Nat /\ HostWidth > 1
  BY WidthsAssumption
<1>2. /\ Width[T] - 1 \in 0 .. HostWidth - 1 /\ Width[T] - 1 + 1 = Width[T]
      /\ HostWidth - 1 \in 0 .. HostWidth - 1 /\ HostWidth - 1 + 1 = HostWidth
      /\ 1 \in 0 .. HostWidth - 1 /\ 0 \in 0 .. HostWidth - 1
      /\ 2 \in 0 .. HostWidth /\ Width[T] \in 0 .. HostWidth /\ HostWidth \in 0 .. HostWidth
  BY <1>1
<1>3. 2^(1 + 1) = 2 * 2^1 /\ 2^1 = 2
  BY <1>2, Powers, PowersAssumption
<1>4. 2^2 = 4
  BY <1>3
<1>5. 2^2 <= 2^Width[T]
  <2>1. 2 <= Width[T] /\ 2 \in 0 .. HostWidth /\ Width[T] \in 0 .. HostWidth
    BY <1>1, <1>2
  <2> QED
    BY <2>1, PowersGrow, Zenon
<1>6. 2^Width[T] <= 2^HostWidth /\ 2^Width[T] \in Nat /\ 2^HostWidth \in Nat
  BY <1>1, <1>2, PowersGrow
<1>7. /\ 2^Width[T] = 2 * 2^(Width[T] - 1) /\ 2^(Width[T] - 1) \in Nat \ {0}
      /\ 2^HostWidth = 2 * 2^(HostWidth - 1) /\ 2^(HostWidth - 1) \in Nat \ {0}
  BY <1>2, Powers
<1>8. \A m \in Nat : 4 <= m => m >= 4
  OBVIOUS
<1> QED
  BY <1>1, <1>4, <1>5, <1>6, <1>7, <1>8, Zenon DEF Modulus, HostModulus

-----------------------------------------------------------------------------
(* A value has no bits beyond the width of its type, and an operation ends *)
(* in one, or in an error of the standard.                                 *)
IsValue(x) == x \in [type : Types, bits : Nat] /\ x.bits < Modulus(x.type)
Errors == RuntimeErrors \cup StaticErrors
IsResult(r) == (r.error = None /\ IsValue(r.value)) \/ (r.error # None /\ r.error \in Errors)

LEMMA MadeIsValue ==
    ASSUME NEW T \in Types, NEW bits \in Int
    PROVE  /\ IsValue(Make(T, bits)) /\ Make(T, bits).type = T
           /\ bits \in 0 .. Modulus(T) - 1 => Make(T, bits) = [type |-> T, bits |-> bits]
<1>1. Modulus(T) \in Nat \ {0}
  BY Moduli
<1>2. bits % Modulus(T) \in 0 .. Modulus(T) - 1
      /\ (bits \in 0 .. Modulus(T) - 1 => bits % Modulus(T) = bits)
  BY <1>1, Division
<1> QED
  BY <1>1, <1>2 DEF IsValue, Make, ToUnsigned

LEMMA MaskedIsResult ==
    ASSUME NEW T \in Types, NEW bits \in 0 .. Modulus(T) - 1
    PROVE  IsResult(Yields([type |-> T, bits |-> bits]))
BY Moduli DEF IsResult, Yields, IsValue

LEMMA MadeIsResult ==
    ASSUME NEW T \in Types, NEW bits \in Int
    PROVE  IsResult(Yields(Make(T, bits)))
BY MadeIsValue DEF IsResult, Yields

LEMMA FailureIsResult ==
    ASSUME NEW e \in Errors
    PROVE  IsResult(Fails(e))
BY NoneAssumption DEF IsResult, Fails, Errors

LEMMA TruthIsResult ==
    ASSUME NEW b PROVE IsResult(Yields(Truth(b)))
BY MadeIsResult DEF Truth, Types

(* Operands, as words and as numbers.                                      *)
LEMMA Operands ==
    ASSUME NEW T \in Types, NEW x \in Int
    PROVE  /\ ToUnsigned(T, x) \in 0 .. Modulus(T) - 1
           /\ SignedInRange(BitsToSigned(T, x), T) /\ BitsToSigned(T, x) \in Int
           /\ SignedToBits(T, x) \in 0 .. Modulus(T) - 1
           /\ ToUnsigned(T, x) \in Nat /\ SignedToBits(T, x) \in Nat
<1>1. /\ Modulus(T) \in Nat \ {0} /\ HostModulus \in Nat \ {0}
      /\ Modulus(T) = 2 * 2^(Width[T] - 1) /\ 2^(Width[T] - 1) \in Nat \ {0}
  BY Moduli
<1>2. x % Modulus(T) \in 0 .. Modulus(T) - 1
  BY <1>1, Division
<1>3. x % HostModulus \in Int
  BY <1>1, Division
<1>4. (x % HostModulus) % Modulus(T) \in 0 .. Modulus(T) - 1
  BY <1>1, <1>3, Division
<1>5. /\ ToUnsigned(T, x) \in 0 .. Modulus(T) - 1
      /\ SignedToBits(T, x) \in 0 .. Modulus(T) - 1
  BY <1>2, <1>4 DEF ToUnsigned, SignedToBits
<1>6. \A u, m, h \in Nat : u \in 0 .. m - 1 /\ m = 2 * h
        => LET v == IF u >= h THEN u - m ELSE u IN v \in Int /\ -h <= v /\ v <= h - 1
  OBVIOUS
<1> QED
  BY <1>1, <1>5, <1>6 DEF BitsToSigned, SignedInRange, MinSigned, MaxSigned

(* The range of a type is in the host's.                                   *)
LEMMA InHostRange ==
    ASSUME NEW T \in Types
    PROVE  /\ HostMin \in Int /\ HostMax \in Nat /\ HostMin = -HostMax - 1
           /\ MinSigned(T) \in Int /\ MaxSigned(T) \in Nat /\ MinSigned(T) = -MaxSigned(T) - 1
           /\ HostMin <= MinSigned(T) /\ MaxSigned(T) <= HostMax
BY Moduli DEF HostMin, HostMax, MinSigned, MaxSigned

-----------------------------------------------------------------------------
(* What the host is asked to compute, it can.                              *)
LEMMA InRangeIsResult ==
    ASSUME NEW T \in Types, NEW v \in Int, Defined(v)
    PROVE  IsResult(InRange(T, v))
<1>1. SignedToBits(T, v) \in Int
  BY Operands, Moduli
<1> QED
  BY <1>1, MadeIsResult, FailureIsResult DEF InRange, Errors, RuntimeErrors

LEMMA StrictIsResult ==
    ASSUME NEW T \in Types, NEW overflows \in BOOLEAN, NEW v \in Int,
           ~overflows => Defined(v)
    PROVE  IsResult(Strict(T, overflows, v))
BY InRangeIsResult, FailureIsResult DEF Strict, Errors, RuntimeErrors

LEMMA NumberIsDefined ==
    ASSUME NEW T \in Types, NEW v \in Int, SignedInRange(v, T)
    PROVE  Defined(v)
BY InHostRange DEF SignedInRange, Defined

LEMMA SumsDefined ==
    ASSUME NEW T \in Types, NEW a \in Int, NEW b \in Int,
           Defined(a), Defined(b)
    PROVE  /\ ~AddOverflows(a, b) => Defined(a + b)
           /\ ~SubOverflows(a, b) => Defined(a - b)
BY InHostRange DEF AddOverflows, SubOverflows, Defined

(* Division towards zero, by the signs of the operands.                    *)
LEMMA QuotientBySigns ==
    ASSUME NEW a \in Int, NEW b \in Int, b # 0
    PROVE  /\ Magnitude(a) \in Nat /\ Magnitude(b) \in Nat \ {0}
           /\ Magnitude(a) \div Magnitude(b) \in 0 .. Magnitude(a)
           /\ Magnitude(b) * (Magnitude(a) \div Magnitude(b)) <= Magnitude(a)
           /\ Quotient(a, b) = IF (a < 0) = (b < 0) THEN Magnitude(a) \div Magnitude(b)
                               ELSE -(Magnitude(a) \div Magnitude(b))
           /\ Quotient(a, b) \in Int
<1>1. Magnitude(a) \in Nat /\ Magnitude(b) \in Nat \ {0}
  BY DEF Magnitude
<1>2. Magnitude(a) \div Magnitude(b) \in 0 .. Magnitude(a)
  BY <1>1, Quotients
<1>3. Magnitude(b) * (Magnitude(a) \div Magnitude(b)) <= Magnitude(a)
  <2>1. Magnitude(a) \in Int
    BY <1>1
  <2> QED
    BY <2>1, <1>1, Division, Zenon
<1>4. Quotient(a, b) = IF (a < 0) = (b < 0) THEN Magnitude(a) \div Magnitude(b)
                       ELSE -(Magnitude(a) \div Magnitude(b))
  BY DEF Quotient
<1> QED
  BY <1>1, <1>2, <1>3, <1>4

(* A product that passes the check by division is in the host's range.     *)
LEMMA ProductsDefined ==
    ASSUME NEW T \in Types, NEW a \in Int, NEW b \in Int, ~MulOverflows(a, b)
    PROVE  Defined(a * b)
<1> DEFINE max == HostMax
           h == -HostMin
<1>1. max \in Nat /\ h = max + 1 /\ HostMin = -h /\ HostMin < 0
  BY InHostRange
<1>2. Magnitude(HostMax) = max /\ Magnitude(HostMin) = h
  BY <1>1 DEF Magnitude
<1> HIDE DEF max, h
<1>3. CASE a = 0 \/ b = 0
  <2>1. a * b = 0
    BY <1>3
  <2> QED
    BY <2>1, <1>1 DEF Defined, max, h
<1>4. CASE a > 0 /\ b > 0
  <2>1. Quotient(HostMax, b) = max \div b
    BY <1>1, <1>2, <1>4 DEF Quotient, Magnitude, max
  <2>2. max \div b \in Int /\ a <= max \div b
    BY <2>1, <1>1, <1>4, Division DEF MulOverflows
  <2>3. a * b <= max
    BY <2>2, <1>1, <1>4, BelowQuotient
  <2>4. a * b \in Nat
    BY <1>4
  <2> QED
    BY <2>3, <2>4, <1>1 DEF Defined, max
<1>5. CASE a > 0 /\ b < 0
  <2>1. Quotient(HostMin, a) = -(h \div a)
    BY <1>1, <1>2, <1>5 DEF Quotient, Magnitude
  <2>2. h \div a \in Int /\ -b <= h \div a
    BY <2>1, <1>1, <1>5, Division DEF MulOverflows
  <2>3. (-b) * a <= h
    BY <2>2, <1>1, <1>5, BelowQuotient
  <2>4. (-b) * a \in Nat /\ a * b = -((-b) * a)
    BY <1>5
  <2> QED
    BY <2>3, <2>4, <1>1 DEF Defined, max
<1>6. CASE a < 0 /\ b > 0
  <2>1. Quotient(HostMin, b) = -(h \div b)
    BY <1>1, <1>2, <1>6 DEF Quotient, Magnitude
  <2>2. h \div b \in Int /\ -a <= h \div b
    BY <2>1, <1>1, <1>6, Division DEF MulOverflows
  <2>3. (-a) * b <= h
    BY <2>2, <1>1, <1>6, BelowQuotient
  <2>4. (-a) * b \in Nat /\ a * b = -((-a) * b)
    BY <1>6
  <2> QED
    BY <2>3, <2>4, <1>1 DEF Defined, max
<1>7. CASE a < 0 /\ b < 0
  <2>1. Quotient(HostMax, b) = -(max \div (-b))
    BY <1>1, <1>2, <1>7 DEF Quotient, Magnitude, max
  <2>2. max \div (-b) \in Int /\ -a <= max \div (-b)
    BY <2>1, <1>1, <1>7, Division DEF MulOverflows
  <2>3. (-a) * (-b) <= max
    BY <2>2, <1>1, <1>7, BelowQuotient
  <2>4. (-a) * (-b) \in Nat /\ a * b = (-a) * (-b)
    BY <1>7
  <2> QED
    BY <2>3, <2>4, <1>1 DEF Defined, max
<1> QED
  BY <1>3, <1>4, <1>5, <1>6, <1>7

(* Only MIN / -1 has a quotient that is not in range.                      *)
LEMMA QuotientsInRange ==
    ASSUME NEW T \in Types, NEW a \in Int, NEW b \in Int, SignedInRange(a, T), b # 0,
           ~(a = MinSigned(T) /\ b = -1)
    PROVE  /\ Quotient(a, b) \in Int /\ SignedInRange(Quotient(a, b), T)
           /\ Remainder(a, b) \in Int /\ SignedInRange(Remainder(a, b), T)
<1> DEFINE m == Magnitude(a)
           n == Magnitude(b)
           q == m \div n
           t == MaxSigned(T)
<1>1. /\ t \in Nat /\ MinSigned(T) = -t - 1
      /\ -t - 1 <= a /\ a <= t /\ ~(a = -t - 1 /\ b = -1)
  BY InHostRange DEF SignedInRange
<1>2. /\ m \in Nat /\ n \in Nat \ {0} /\ q \in 0 .. m /\ n * q <= m
      /\ Quotient(a, b) = IF (a < 0) = (b < 0) THEN q ELSE -q
  BY QuotientBySigns
<1>3. m = (IF a < 0 THEN -a ELSE a) /\ n = (IF b < 0 THEN -b ELSE b)
  BY DEF Magnitude
<1> HIDE DEF m, n, q, t
<1>4. n >= 2 => 2 * q <= m
  <2>1. n >= 2 => 2 * q <= n * q
    BY <1>2, ProductsGrow
  <2> QED
    BY <2>1, <1>2
<1>5. Quotient(a, b) \in Int /\ -t - 1 <= Quotient(a, b) /\ Quotient(a, b) <= t
  BY <1>1, <1>2, <1>3, <1>4
<1>6. n * q \in Nat
  BY <1>2
<1>7. b * Quotient(a, b) = IF a < 0 THEN -(n * q) ELSE n * q
  BY <1>2, <1>3
<1>8. /\ Remainder(a, b) \in Int
      /\ -t - 1 <= Remainder(a, b) /\ Remainder(a, b) <= t
  BY <1>1, <1>2, <1>3, <1>6, <1>7 DEF Remainder
<1> QED
  BY <1>1, <1>5, <1>8 DEF SignedInRange, t

-----------------------------------------------------------------------------
(* The operations, each a value or an error of the standard.               *)
LEMMA LowProductIsInt ==
    ASSUME NEW a \in Int, NEW b \in Int PROVE LowProduct(a, b) \in Int
<1> DEFINE base == 2^(HostWidth \div 2)
           p0 == (a % base) * (b % base)
           p1 == (a % base) * (b \div base)
           p2 == (a \div base) * (b % base)
           c0 == (p0 \div base) + (p1 % base) + (p2 % base)
<1>1. base \in Nat \ {0} /\ HostModulus \in Nat \ {0}
  <2>1. HostWidth \div 2 \in 0 .. HostWidth /\ HostWidth \in 0 .. HostWidth
    BY WidthsAssumption
  <2> QED
    BY <2>1, PowersAssumption DEF HostModulus
<1> HIDE DEF base
<1>2. /\ a % base \in Int /\ b % base \in Int /\ a \div base \in Int /\ b \div base \in Int
  BY <1>1, Division
<1>3. p0 \in Int /\ p1 \in Int /\ p2 \in Int
  BY <1>2
<1> HIDE DEF p0, p1, p2
<1>4. p0 \div base \in Int /\ p0 % base \in Int /\ p1 % base \in Int /\ p2 % base \in Int
  BY <1>1, <1>3, Division
<1>5. c0 * base \in Int
  BY <1>1, <1>4
<1> HIDE DEF c0
<1>6. (c0 * base) % HostModulus \in Int
  BY <1>1, <1>5, Division
<1>7. (p0 % base) + ((c0 * base) % HostModulus) \in Int
  BY <1>4, <1>6
<1> QED
  BY <1>7 DEF LowProduct, base, p0, p1, p2, c0

(* Of a type of half the host's width or less the product fits.            *)
LEMMA NarrowProductDefined ==
    ASSUME NEW T \in Types, Width[T] # HostWidth, NEW a \in Int, NEW b \in Int,
           SignedInRange(a, T), SignedInRange(b, T)
    PROVE  Defined(a * b)
<1> DEFINE w == Width[T]
           h == 2^(w - 1)
           g == 2^(HostWidth - 1)
<1>1. w \in 2 .. HostWidth /\ HostWidth \in Nat /\ 2 * w <= HostWidth
  BY WidthsAssumption
<1>2. w - 1 \in 0 .. HostWidth /\ w \in 0 .. HostWidth /\ 2 * w - 1 \in 0 .. HostWidth
      /\ HostWidth - 1 \in 0 .. HostWidth /\ 2 * w - 1 <= HostWidth - 1
      /\ (w - 1) + w = 2 * w - 1 /\ 2 * w - 1 <= HostWidth
  BY <1>1
<1>3. 2^(2 * w - 1) = h * 2^w /\ 2^w = 2 * h /\ h \in Nat \ {0}
  <2>1. 2^((w - 1) + w) = h * 2^w
    BY <1>2, PowersAssumption
  <2> QED
    BY <2>1, <1>2, Moduli DEF Modulus
<1>4. 2^(2 * w - 1) <= g /\ g \in Nat
  BY <1>2, PowersGrow
<1>5. HostMin = -g /\ HostMax = g - 1 /\ MinSigned(T) = -h /\ MaxSigned(T) = h - 1
  BY DEF HostMin, HostMax, MinSigned, MaxSigned
<1> HIDE DEF h, g
<1>6. h * h \in Nat /\ h * h >= 1 /\ h * (2 * h) = 2 * (h * h)
  BY <1>3
<1>7. 2 * (h * h) <= g
  BY <1>3, <1>4, <1>6
<1>8. a * b \in Int /\ a * b <= h * h /\ -(h * h) <= a * b
  <2>1. -h <= a /\ a <= h /\ -h <= b /\ b <= h
    BY <1>3, <1>5 DEF SignedInRange
  <2>2. \A x, y \in Nat : x <= h /\ y <= h => x * y \in Nat /\ x * y <= h * h
    <3> TAKE x, y \in Nat
    <3>1. x <= h => x * y <= h * y
      BY <1>3, ProductsGrow
    <3>2. y <= h => y * h <= h * h
      BY <1>3, ProductsGrow
    <3>3. x * y \in Nat /\ h * y = y * h /\ h * y \in Nat
      BY <1>3
    <3> QED
      BY <1>6, <3>1, <3>2, <3>3
  <2>3. (-a) * (-b) = a * b /\ (-a) * b = -(a * b) /\ a * (-b) = -(a * b)
    BY Signs
  <2>4. /\ a < 0 => -a \in Nat /\ -a <= h
        /\ b < 0 => -b \in Nat /\ -b <= h
        /\ a >= 0 => a \in Nat
        /\ b >= 0 => b \in Nat
    BY <2>1, <1>3
  <2>5. a >= 0 /\ b >= 0 => a * b \in Nat /\ a * b <= h * h
    BY <2>1, <2>2, <2>4, Zenon
  <2>6. a < 0 /\ b < 0 => (-a) * (-b) \in Nat /\ (-a) * (-b) <= h * h
    BY <2>2, <2>4, Zenon
  <2>7. a < 0 /\ b >= 0 => (-a) * b \in Nat /\ (-a) * b <= h * h
    BY <2>1, <2>2, <2>4, Zenon
  <2>8. a >= 0 /\ b < 0 => a * (-b) \in Nat /\ a * (-b) <= h * h
    BY <2>1, <2>2, <2>4, Zenon
  <2>9. a * b \in Int
    OBVIOUS
  <2> QED
    BY <2>3, <2>5, <2>6, <2>7, <2>8, <2>9, <1>6
<1> QED
  BY <1>4, <1>5, <1>6, <1>7, <1>8 DEF Defined

LEMMA SignedArithIsResult ==
    ASSUME NEW T \in Types, NEW op \in ArithOps, NEW mode \in {"strict", "wrap"},
           NEW x \in Int, NEW y \in Int
    PROVE  IsResult(SignedArith(op, T, mode, x, y))
<1> DEFINE a == BitsToSigned(T, x)
           b == BitsToSigned(T, y)
<1>1. /\ a \in Int /\ b \in Int /\ SignedInRange(a, T) /\ SignedInRange(b, T)
  BY Operands
<1>2. Defined(a) /\ Defined(b) /\ HostModulus \in Nat \ {0}
  BY <1>1, NumberIsDefined, Moduli
<1>3. SignedArith(op, T, mode, x, y) =
        CASE op \in {"div", "mod"} -> Divide(op, T, a, b)
          [] op = "add" /\ mode = "wrap" -> Yields(Make(T, (ToUnsigned(T, a) + ToUnsigned(T, b)) % HostModulus))
          [] op = "sub" /\ mode = "wrap" -> Yields(Make(T, (ToUnsigned(T, a) - ToUnsigned(T, b)) % HostModulus))
          [] op = "mul" /\ mode = "wrap" -> WrapMul(T, a, b)
          [] op = "add" /\ mode = "strict" -> Strict(T, AddOverflows(a, b), a + b)
          [] op = "sub" /\ mode = "strict" -> Strict(T, SubOverflows(a, b), a - b)
          [] op = "mul" /\ mode = "strict" -> Strict(T, MulOverflows(a, b), a * b)
  BY DEF SignedArith
<1> HIDE DEF a, b
<1>4. IsResult(Divide(op, T, a, b))
  <2>1. CASE b = 0
    BY <2>1, FailureIsResult DEF Divide, Errors, RuntimeErrors
  <2>2. CASE b # 0 /\ a = MinSigned(T) /\ b = -1
    <3>1. IsResult(Yields(Make(T, 0)))
      BY MadeIsResult
    <3>2. IsResult(Fails("overflow"))
      BY FailureIsResult DEF Errors, RuntimeErrors
    <3> QED
      BY <2>2, <3>1, <3>2 DEF Divide
  <2>3. CASE b # 0 /\ ~(a = MinSigned(T) /\ b = -1)
    <3>1. IsResult(InRange(T, Quotient(a, b))) /\ IsResult(InRange(T, Remainder(a, b)))
      BY <2>3, <1>1, QuotientsInRange, NumberIsDefined, InRangeIsResult
    <3> QED
      BY <2>3, <3>1 DEF Divide
  <2> QED
    BY <2>1, <2>2, <2>3
<1>5. /\ IsResult(Yields(Make(T, (ToUnsigned(T, a) + ToUnsigned(T, b)) % HostModulus)))
      /\ IsResult(Yields(Make(T, (ToUnsigned(T, a) - ToUnsigned(T, b)) % HostModulus)))
  <2>1. ToUnsigned(T, a) \in Int /\ ToUnsigned(T, b) \in Int
    BY <1>1, Operands, Moduli
  <2>2. \A n \in Int : n % HostModulus \in Int
    BY <1>2, Division
  <2> QED
    BY <2>1, <2>2, MadeIsResult
<1>6. IsResult(WrapMul(T, a, b))
  <2>1. CASE Width[T] = HostWidth
    <3>1. SignedToBits(T, a) \in Int /\ SignedToBits(T, b) \in Int
      BY <1>1, Operands, Moduli
    <3> QED
      BY <2>1, <3>1, LowProductIsInt, MadeIsResult DEF WrapMul
  <2>2. CASE Width[T] # HostWidth
    <3>1. a * b \in Int /\ Defined(a * b)
      BY <2>2, <1>1, NarrowProductDefined
    <3>2. SignedToBits(T, a * b) \in Int
      BY <3>1, Operands, Moduli
    <3> QED
      BY <2>2, <3>1, <3>2, MadeIsResult DEF WrapMul
  <2> QED
    BY <2>1, <2>2
<1>7. /\ IsResult(Strict(T, AddOverflows(a, b), a + b))
      /\ IsResult(Strict(T, SubOverflows(a, b), a - b))
      /\ IsResult(Strict(T, MulOverflows(a, b), a * b))
  <2>1. /\ AddOverflows(a, b) \in BOOLEAN /\ SubOverflows(a, b) \in BOOLEAN
        /\ MulOverflows(a, b) \in BOOLEAN
    BY DEF AddOverflows, SubOverflows, MulOverflows
  <2>2. a + b \in Int /\ a - b \in Int /\ a * b \in Int
    BY <1>1
  <2> QED
    BY <2>1, <2>2, <1>1, <1>2, SumsDefined, ProductsDefined, StrictIsResult
<1> QED
  BY <1>3, <1>4, <1>5, <1>6, <1>7 DEF ArithOps

LEMMA UnsignedArithIsResult ==
    ASSUME NEW T \in Types, NEW op \in ArithOps, NEW x \in Int, NEW y \in Int
    PROVE  IsResult(UnsignedArith(op, T, x, y))
<1> DEFINE a == ToUnsigned(T, x)
           b == ToUnsigned(T, y)
<1>1. a \in Nat /\ b \in Nat /\ HostModulus \in Nat \ {0}
  BY Operands, Moduli
<1>2. UnsignedArith(op, T, x, y) =
        CASE op \in {"div", "mod"} /\ b = 0 -> Fails("division by zero")
          [] op = "div" /\ b # 0 -> Yields(Make(T, a \div b))
          [] op = "mod" /\ b # 0 -> Yields(Make(T, a % b))
          [] op = "add" -> Yields(Make(T, (a + b) % HostModulus))
          [] op = "sub" -> Yields(Make(T, (a - b) % HostModulus))
          [] op = "mul" -> Yields(Make(T, IF Width[T] = HostWidth THEN LowProduct(a, b)
                                          ELSE (a * b) % HostModulus))
  BY DEF UnsignedArith
<1> HIDE DEF a, b
<1>3. IsResult(Fails("division by zero"))
  BY FailureIsResult DEF Errors, RuntimeErrors
<1>4. b # 0 => IsResult(Yields(Make(T, a \div b))) /\ IsResult(Yields(Make(T, a % b)))
  <2>1. b # 0 => a \div b \in Int /\ a % b \in Int
    BY <1>1, Division
  <2> QED
    BY <2>1, MadeIsResult
<1>5. \A n \in Int : IsResult(Yields(Make(T, n % HostModulus)))
  <2>1. \A n \in Int : n % HostModulus \in Int
    BY <1>1, Division
  <2> QED
    BY <2>1, MadeIsResult
<1>6. a + b \in Int /\ a - b \in Int /\ a * b \in Int /\ a \in Int /\ b \in Int
  BY <1>1
<1>7. /\ IsResult(Yields(Make(T, (a + b) % HostModulus)))
      /\ IsResult(Yields(Make(T, (a - b) % HostModulus)))
      /\ IsResult(Yields(Make(T, IF Width[T] = HostWidth THEN LowProduct(a, b)
                                 ELSE (a * b) % HostModulus)))
  BY <1>5, <1>6, LowProductIsInt, MadeIsResult
<1> QED
  BY <1>2, <1>3, <1>4, <1>7 DEF ArithOps

LEMMA ArithIsResult ==
    ASSUME NEW T \in Types, NEW op \in ArithOps, NEW mode \in {"strict", "wrap"},
           NEW x \in Int, NEW y \in Int
    PROVE  IsResult(Arith(op, T, mode, x, y))
<1>1. IsResult(Fails("mode mismatch"))
  BY FailureIsResult DEF Errors, StaticErrors
<1> QED
  BY <1>1, SignedArithIsResult, UnsignedArithIsResult DEF Arith

LEMMA UnaryIsResult ==
    ASSUME NEW T \in Types, NEW op \in UnaryOps, NEW mode \in {"strict", "wrap"},
           NEW x \in Int
    PROVE  IsResult(Unary(op, T, mode, x))
<1> DEFINE bits == ToUnsigned(T, x)
           v == BitsToSigned(T, bits)
           kept == CASE op = "abs" -> bits
                     [] op = "neg" -> IF bits = 0 THEN 0
                                      ELSE (Modulus(T) - 1 - bits + 1) % Modulus(T)
           changed == SignedToBits(T, IF op = "abs" THEN Magnitude(v) ELSE -v)
<1>1. /\ bits \in 0 .. Modulus(T) - 1 /\ Modulus(T) \in Nat \ {0}
      /\ v \in Int /\ SignedInRange(v, T)
  <2>1. bits \in 0 .. Modulus(T) - 1 /\ Modulus(T) \in Nat \ {0}
    BY Operands, Moduli
  <2>2. bits \in Int
    BY <2>1
  <2> QED
    BY <2>1, <2>2, Operands
<1>2. Unary(op, T, mode, x) =
        IF mode = "wrap" /\ (op # "neg" \/ T \notin Signed) THEN Fails("mode mismatch")
        ELSE IF T \in Signed /\ (op = "abs" \/ mode = "strict")
        THEN IF v = MinSigned(T) THEN Fails("overflow")
             ELSE IF ~Defined(-v) THEN Fails("undefined")
             ELSE Yields([type |-> T, bits |-> changed])
        ELSE Yields([type |-> T, bits |-> kept])
  BY DEF Unary
<1> HIDE DEF bits, v
<1>3. v # MinSigned(T) => Defined(-v)
  BY <1>1, InHostRange DEF SignedInRange, Defined
<1>4. IsResult(Yields([type |-> T, bits |-> changed]))
  <2>1. (IF op = "abs" THEN Magnitude(v) ELSE -v) \in Int
    BY <1>1 DEF Magnitude
  <2>2. changed \in 0 .. Modulus(T) - 1
    BY <2>1, Operands
  <2> QED
    BY <2>2, MaskedIsResult
<1>5. IsResult(Yields([type |-> T, bits |-> kept]))
  <2>1. (Modulus(T) - 1 - bits + 1) % Modulus(T) \in 0 .. Modulus(T) - 1
    <3>1. Modulus(T) - 1 - bits + 1 \in Int
      BY <1>1
    <3> QED
      BY <3>1, <1>1, Division
  <2>2. kept \in 0 .. Modulus(T) - 1
    BY <2>1, <1>1 DEF UnaryOps
  <2> QED
    BY <2>2, MaskedIsResult
<1>6. IsResult(Fails("mode mismatch")) /\ IsResult(Fails("overflow"))
  BY FailureIsResult DEF Errors, StaticErrors, RuntimeErrors
<1> QED
  BY <1>2, <1>3, <1>4, <1>5, <1>6

LEMMA Euclid ==
    \A a \in Int, b \in Nat \ {0} :
        /\ a \div b \in Int /\ b * (a \div b) <= a /\ a < b * (a \div b) + b
        /\ a % b = a - b * (a \div b) /\ a % b \in 0 .. b - 1
OBVIOUS

(* Remainders are unique, and see only multiples.                          *)
LEMMA Multiples ==
    ASSUME NEW m \in Nat \ {0}, NEW k \in Int
    PROVE  m * k \in Int /\ (k >= 1 => m * k >= m) /\ (k <= -1 => m * k <= -m)
<1>1. k >= 1 => m * k >= m
  <2>1. k >= 1 => k - 1 \in Nat /\ m * k = m * (k - 1) + m
    OBVIOUS
  <2>2. k >= 1 => m * (k - 1) \in Nat
    BY <2>1
  <2> QED
    BY <2>1, <2>2
<1>2. k <= -1 => m * k <= -m
  <2>1. k <= -1 => -k - 1 \in Nat /\ m * k = -(m * (-k - 1)) - m
    OBVIOUS
  <2>2. k <= -1 => m * (-k - 1) \in Nat
    BY <2>1
  <2> QED
    BY <2>1, <2>2
<1> QED
  BY <1>1, <1>2

LEMMA Unique ==
    ASSUME NEW m \in Nat \ {0}, NEW a \in Int, NEW q \in Int, NEW r \in 0 .. m - 1,
           a = m * q + r
    PROVE  a % m = r /\ a \div m = q
<1> DEFINE d == a \div m
<1>1. d \in Int /\ m * d <= a /\ a < m * d + m /\ a % m = a - m * d
  BY Euclid
<1> HIDE DEF d
<1>2. m * (q - d) = m * q - m * d /\ m * q \in Int /\ m * d \in Int /\ q - d \in Int
  BY <1>1
<1>3. -m < m * (q - d) /\ m * (q - d) < m
  BY <1>1, <1>2
<1>4. ~(q - d >= 1) /\ ~(q - d <= -1)
  BY <1>2, <1>3, Multiples
<1>5. q = d
  BY <1>1, <1>4
<1> QED
  BY <1>1, <1>5 DEF d

LEMMA ModPlus ==
    ASSUME NEW m \in Nat \ {0}, NEW a \in Int, NEW k \in Int
    PROVE  (a + m * k) % m = a % m /\ (a + m * k) \div m = a \div m + k
<1> DEFINE d == a \div m
           r == a % m
<1>1. d \in Int /\ r \in 0 .. m - 1 /\ r = a - m * d
  BY Euclid
<1> HIDE DEF d, r
<1>2. a + m * k = m * (d + k) + r /\ d + k \in Int /\ a + m * k \in Int
  BY <1>1
<1> QED
  BY <1>1, <1>2, Unique DEF d, r

LEMMA DivMod ==
    \A a \in Nat, b \in Nat \ {0} :
        a \div b \in Nat /\ a % b \in 0 .. b - 1 /\ a % b \in Nat /\ a = b * (a \div b) + (a % b)
<1>1. \A a \in Nat, b \in Nat \ {0} : a \div b \in 0 .. a /\ a % b \in 0 .. b - 1 /\ a % b \in Nat
  BY Quotients, Remainders
<1>2. \A a \in Nat, b \in Nat \ {0} : a % b = a - b * (a \div b)
  BY Euclid
<1> TAKE a \in Nat, b \in Nat \ {0}
<1> DEFINE q == a \div b
           t == a % b
<1>3. q \in 0 .. a /\ t \in 0 .. b - 1 /\ t \in Nat /\ t = a - b * q
  BY <1>1, <1>2, Zenon
<1> HIDE DEF q, t
<1>4. q \in Nat /\ a = b * q + t
  BY <1>3
<1> QED
  BY <1>3, <1>4, Zenon DEF q, t

(* The bits of a number below 2^w are those below w: by induction on w, as *)
(* a fact about the least width for which some set of bits has no number.  *)
LEMMA LeastElement ==
    ASSUME NEW S, S \subseteq Nat, S # {}
    PROVE  \E m \in S : \A k \in S : m <= k
<1>1. IsWellFoundedOn(OpToRel(<, Nat), Nat)
  BY NatLessThanWellFounded
<1>2. PICK m \in S : \A y \in S : ~(<<y, m>> \in OpToRel(<, Nat))
  BY <1>1, WFMin
<1>3. \A y \in S : ~(y < m)
  BY <1>2 DEF OpToRel
<1> QED
  BY <1>3

LEMMA BitOfNumber ==
    ASSUME NEW n \in Nat, NEW k \in 0 .. HostWidth
    PROVE  /\ n \div 2^k \in Nat
           /\ Bit(n, k) = (n \div 2^k) % 2 /\ Bit(n, k) \in {0, 1}
<1>1. 2^k \in Nat \ {0}
  BY WidthsAssumption, PowersAssumption
<1>2. n \div 2^k \in 0 .. n
  BY <1>1, Quotients
<1>3. (n \div 2^k) % 2 \in 0 .. 1
  BY <1>2, Remainders
<1> QED
  BY <1>2, <1>3 DEF Bit

(* A multiple of 2^w more leaves the bits below w as they are.             *)
LEMMA LowBits ==
    ASSUME NEW w \in 0 .. HostWidth, NEW k \in 0 .. w - 1, NEW r \in Nat, NEW q \in Nat
    PROVE  Bit(r + 2^w * q, k) = Bit(r, k)
<1> DEFINE p == 2^k
           h == 2^(w - k - 1)
           d == r \div p
<1>1. /\ k \in 0 .. HostWidth - 1 /\ k + 1 \in 0 .. HostWidth /\ w - k - 1 \in 0 .. HostWidth
      /\ (k + 1) + (w - k - 1) = w /\ (k + 1) + (w - k - 1) <= HostWidth
  BY WidthsAssumption
<1>2. 2^w = 2^(k + 1) * h /\ h \in Nat \ {0}
  BY <1>1, PowersAssumption
<1>3. 2^(k + 1) = 2 * p /\ p \in Nat \ {0}
  BY <1>1, Powers
<1> HIDE DEF p, h
<1>4. (2 * p) * h * q = p * (2 * (h * q)) /\ h * q \in Nat
  BY <1>2, <1>3
<1>5. 2^w * q = p * (2 * (h * q))
  BY <1>2, <1>3, <1>4
<1>6. (r + p * (2 * (h * q))) \div p = d + 2 * (h * q)
  <2>1. 2 * (h * q) \in Int
    BY <1>4
  <2> QED
    BY <1>3, <2>1, ModPlus
<1>7. d \in Nat
  BY <1>3, Quotients
<1> HIDE DEF d
<1>8. (d + 2 * (h * q)) % 2 = d % 2
  BY <1>4, <1>7, ModPlus
<1> QED
  BY <1>5, <1>6, <1>8 DEF Bit, p, d

LEMMA MaskedBits ==
    ASSUME NEW w \in 0 .. HostWidth, NEW k \in 0 .. w - 1, NEW n \in Nat
    PROVE  Bit(n % 2^w, k) = Bit(n, k)
<1> DEFINE m == 2^w
           q == n \div m
           r == n % m
<1>1. m \in Nat \ {0}
  BY PowersAssumption
<1>2. q \in Nat /\ r \in Nat /\ n = r + m * q
  <2> HIDE DEF m
  <2>1. q \in Nat /\ r \in Nat /\ n = m * q + r
    BY <1>1, DivMod, Zenon DEF q, r
  <2> HIDE DEF q, r
  <2> QED
    BY <1>1, <2>1
<1> HIDE DEF q, r
<1>3. Bit(r + m * q, k) = Bit(r, k)
  BY <1>2, LowBits
<1> QED
  BY <1>2, <1>3 DEF r

(* A number with exactly the bits of S.                                    *)
HasBits(n, S) == \A k \in 0 .. HostWidth - 1 : Bit(n, k) = 1 <=> k \in S
Representable(w) == \A S \in SUBSET (0 .. w - 1) : \E n \in 0 .. 2^w - 1 : HasBits(n, S)

LEMMA HighBits ==
    ASSUME NEW w \in 0 .. HostWidth, NEW n \in 0 .. 2^w - 1, NEW k \in w .. HostWidth
    PROVE  Bit(n, k) = 0
<1>1. k \in 0 .. HostWidth /\ w <= k
  BY WidthsAssumption
<1>2. 2^w \in Nat \ {0} /\ 2^k \in Nat \ {0} /\ 2^w <= 2^k
  BY <1>1, PowersGrow
<1>3. n \in 0 .. 2^k - 1 /\ n = 2^k * 0 + n
  BY <1>2
<1>4. n \div 2^k = 0
  <2> DEFINE p == 2^k
             z == 0
  <2>1. p \in Nat \ {0} /\ n \in Int /\ n \in 0 .. p - 1 /\ z \in Int /\ n = p * z + n
    BY <1>2, <1>3
  <2> HIDE DEF p, z
  <2>2. n \div p = z
    BY <2>1, Unique
  <2> QED
    BY <2>2 DEF p, z
<1>5. 0 % 2 = 0
  OBVIOUS
<1> QED
  BY <1>4, <1>5 DEF Bit

LEMMA OneBitMore ==
    ASSUME NEW w \in 0 .. HostWidth - 1, Representable(w)
    PROVE  Representable(w + 1)
<1> SUFFICES ASSUME NEW S \in SUBSET (0 .. w + 1 - 1)
             PROVE  \E n \in 0 .. 2^(w + 1) - 1 : HasBits(n, S)
  BY DEF Representable
<1> DEFINE m == 2^w
           R == S \ {w}
<1>1. m \in Nat \ {0} /\ 2^(w + 1) = 2 * m /\ w \in Nat /\ w \in 0 .. HostWidth
  BY Powers, WidthsAssumption
<1>2. R \in SUBSET (0 .. w - 1)
  BY <1>1
<1>3. PICK r \in 0 .. m - 1 : HasBits(r, R)
  BY <1>2 DEF Representable
<1>4. r \in Nat
  BY <1>1
<1>5. CASE w \notin S
  <2>1. R = S
    BY <1>5
  <2>2. r \in 0 .. 2^(w + 1) - 1
    BY <1>1
  <2> QED
    BY <1>3, <2>1, <2>2
<1>6. CASE w \in S
  <2> DEFINE n == r + m * 1
  <2>1. n \in 0 .. 2^(w + 1) - 1 /\ n \in Nat
    BY <1>1
  <2>2. ASSUME NEW k \in 0 .. HostWidth - 1 PROVE Bit(n, k) = 1 <=> k \in S
    <3>1. CASE k < w
      <4>1. k \in 0 .. w - 1 /\ (k \in R <=> k \in S)
        BY <3>1, <1>1
      <4> DEFINE one == 1
      <4>2. one \in Nat
        OBVIOUS
      <4> HIDE DEF one
      <4>3. Bit(r + 2^w * one, k) = Bit(r, k)
        BY <1>1, <1>4, <4>1, <4>2, LowBits
      <4> QED
        BY <1>3, <4>1, <4>3 DEF HasBits, one
    <3>2. CASE k = w
      <4>1. n = m * 1 + r
        BY <1>1, <1>4
      <4>2. n \div m = 1
        <5> DEFINE one == 1
        <5>1. one \in Int
          OBVIOUS
        <5>2. n \in Int /\ n = m * one + r
          BY <2>1, <4>1
        <5> HIDE DEF one, n, m
        <5>3. n \div m = one
          BY <1>1, <1>3, <5>1, <5>2, Unique
        <5> QED
          BY <5>3 DEF one
      <4>3. 1 % 2 = 1
        OBVIOUS
      <4> QED
        BY <3>2, <1>6, <4>2, <4>3 DEF Bit
    <3>3. CASE k > w
      <4>1. k \in w + 1 .. HostWidth /\ w + 1 \in 0 .. HostWidth
        BY <3>3, <1>1, WidthsAssumption
      <4>2. Bit(n, k) = 0
        BY <2>1, <4>1, HighBits
      <4>3. k \notin S
        BY <3>3, <1>1
      <4> QED
        BY <4>2, <4>3
    <3> QED
      BY <1>1, <3>1, <3>2, <3>3
  <2>3. HasBits(n, S)
    BY <2>2 DEF HasBits
  <2> QED
    BY <2>1, <2>3
<1> QED
  BY <1>5, <1>6

LEMMA EveryWord == Representable(HostWidth)
<1>1. Representable(0)
  <2> SUFFICES ASSUME NEW S \in SUBSET (0 .. 0 - 1)
               PROVE  \E n \in 0 .. 2^0 - 1 : HasBits(n, S)
    BY DEF Representable
  <2>1. S = {} /\ 2^0 = 1 /\ HostWidth \in Nat
    BY PowersAssumption, WidthsAssumption
  <2>2. 0 \in 0 .. 2^0 - 1 /\ 0 \in 0 .. HostWidth
    BY <2>1
  <2>3. \A k \in 0 .. HostWidth : Bit(0, k) = 0
    BY <2>2, HighBits
  <2>4. HasBits(0, S)
    BY <2>1, <2>3 DEF HasBits
  <2> QED
    BY <2>2, <2>4
<1> DEFINE bad == {w \in 0 .. HostWidth : ~Representable(w)}
<1>2. SUFFICES ASSUME bad # {} PROVE FALSE
  BY WidthsAssumption
<1>3. bad \subseteq Nat
  OBVIOUS
<1>4. PICK m \in bad : \A k \in bad : m <= k
  BY <1>2, <1>3, LeastElement
<1>5. m # 0 /\ m \in 0 .. HostWidth /\ HostWidth \in Nat
  BY <1>1, <1>4, WidthsAssumption
<1>6. m - 1 \in 0 .. HostWidth - 1 /\ m - 1 \in 0 .. HostWidth /\ m - 1 + 1 = m /\ ~(m <= m - 1)
  BY <1>5
<1>7. Representable(m - 1)
  BY <1>4, <1>6
<1>8. Representable(m - 1 + 1)
  BY <1>6, <1>7, OneBitMore
<1> QED
  BY <1>4, <1>6, <1>8

LEMMA WordHasBits ==
    ASSUME NEW S \in SUBSET (0 .. HostWidth - 1)
    PROVE  WordOf(S) \in 0 .. HostModulus - 1 /\ HasBits(WordOf(S), S)
<1>1. \E n \in 0 .. HostModulus - 1 : HasBits(n, S)
  BY EveryWord DEF Representable, HostModulus
<1> QED
  BY <1>1 DEF WordOf, HasBits

LEMMA BitwiseIsResult ==
    ASSUME NEW T \in Types, NEW op \in BitOps, NEW x \in Int, NEW y \in Int
    PROVE  /\ IsResult(BitwiseBinary(op, T, x, y))
           /\ IsResult(BitwiseNot(T, x))
<1>1. \A S : S \subseteq Positions(T) => IsResult(Yields(Make(T, WordOf(S))))
  <2>1. Positions(T) \subseteq 0 .. HostWidth - 1
    BY Moduli DEF Positions
  <2>2. \A S : S \subseteq Positions(T) => WordOf(S) \in Int
    BY <2>1, WordHasBits, Moduli
  <2> QED
    BY <2>2, MadeIsResult
<1>2. IsResult(BitwiseBinary(op, T, x, y))
  <2> DEFINE a == {k \in Positions(T) : Bit(x, k) = 1}
             b == {k \in Positions(T) : Bit(y, k) = 1}
  <2>1. BitwiseBinary(op, T, x, y) =
            Yields(Make(T, WordOf(CASE op = "and" -> a \cap b
                                    [] op = "or" -> a \cup b
                                    [] op = "xor" -> (a \cup b) \ (a \cap b))))
    BY DEF BitwiseBinary
  <2>2. (CASE op = "and" -> a \cap b
           [] op = "or" -> a \cup b
           [] op = "xor" -> (a \cup b) \ (a \cap b)) \subseteq Positions(T)
    BY DEF BitOps
  <2> HIDE DEF a, b
  <2> QED
    BY <1>1, <2>1, <2>2, Zenon
<1>3. HostModulus - 1 - ToUnsigned(T, x) \in Int
  BY Operands, Moduli
<1> QED
  BY <1>2, <1>3, MadeIsResult DEF BitwiseNot

(* A shift in range multiplies or divides by a power of two.               *)
LEMMA ShiftPowers ==
    ASSUME NEW T \in Types, NEW k \in Nat, k < Width[T]
    PROVE  2^k \in Nat \ {0} /\ k < HostWidth /\ (k = 0 => 2^k = 1)
<1>1. k \in 0 .. HostWidth /\ k < HostWidth
  BY Moduli
<1> QED
  BY <1>1, PowersAssumption

LEMMA ShiftedDefined ==
    ASSUME NEW T \in Types, NEW k \in Nat, k < Width[T], NEW v \in Int, Defined(v),
           ~PowOverflows(v, k)
    PROVE  v * 2^k \in Int /\ Defined(v * 2^k)
<1> DEFINE f == 2^k
           g == 2^(HostWidth - 1)
<1>1. /\ f \in Nat \ {0} /\ k < HostWidth /\ (k = 0 => f = 1)
      /\ HostMin = -g /\ HostMax = g - 1 /\ g \in Nat \ {0} /\ HostMax \in Nat
  BY ShiftPowers, Moduli, InHostRange DEF HostMin, HostMax
<1>2. \/ k = 0 \/ v = 0
      \/ v > 0 /\ ~(v > HostMax \div f)
      \/ v < 0 /\ ~(-v > g \div f)
  BY DEF PowOverflows
<1> HIDE DEF f, g
<1>3. HostMax \div f \in Int /\ g \div f \in Int
  BY <1>1, Division
<1>4. v * f \in Int /\ (-v) * f = -(v * f)
  BY <1>1, Signs
<1>5. k = 0 \/ v = 0 => HostMin <= v * f /\ v * f <= HostMax
  <2>1. k = 0 => v * f = v
    BY <1>1
  <2>2. v = 0 => v * f = 0
    BY <1>1
  <2> QED
    BY <2>1, <2>2, <1>1 DEF Defined
<1>6. v > 0 /\ v <= HostMax \div f => v * f \in Nat /\ v * f <= HostMax
  <2>1. v > 0 => v \in Nat
    OBVIOUS
  <2>2. v > 0 => v * f \in Nat
    BY <1>1
  <2> QED
    BY <2>1, <2>2, <1>1, BelowQuotient
<1>7. v < 0 /\ -v <= g \div f => (-v) * f \in Nat /\ (-v) * f <= g
  <2>1. v < 0 => -v \in Nat
    OBVIOUS
  <2>2. v < 0 => (-v) * f \in Nat
    BY <2>1, <1>1
  <2> QED
    BY <2>1, <2>2, <1>1, BelowQuotient
<1>8. HostMin <= v * f /\ v * f <= HostMax
  BY <1>1, <1>2, <1>3, <1>4, <1>5, <1>6, <1>7
<1> QED
  BY <1>4, <1>8 DEF Defined, f

LEMMA ShiftLeftIsResult ==
    ASSUME NEW T \in Types, NEW mode \in {"strict", "wrap"}, NEW x \in Int, NEW k \in Nat
    PROVE  IsResult(ShiftLeft(T, mode, x, k))
<1> DEFINE bits == ToUnsigned(T, x)
           v == BitsToSigned(T, bits)
<1>1. /\ bits \in Nat /\ v \in Int /\ Defined(v)
      /\ HostModulus \in Nat \ {0}
  <2>1. bits \in Nat /\ bits \in Int /\ HostModulus \in Nat \ {0}
    BY Operands, Moduli
  <2> QED
    BY <2>1, Operands, NumberIsDefined
<1>2. IsResult(Yields(Make(T, 0)))
  BY MadeIsResult
<1>3. IsResult(Fails("overflow"))
  BY FailureIsResult DEF Errors, RuntimeErrors
<1> HIDE DEF bits, v
<1>4. CASE k < Width[T]
  <2>1. 2^k \in Nat \ {0}
    BY <1>4, ShiftPowers
  <2>2. bits * 2^k \in Int
    BY <2>1, <1>1
  <2>3. (bits * 2^k) % HostModulus \in Int
    BY <2>2, <1>1, Division
  <2>4. IsResult(Yields(Make(T, bits * 2^k)))
        /\ IsResult(Yields(Make(T, (bits * 2^k) % HostModulus)))
    BY <2>2, <2>3, MadeIsResult
  <2>5. IsResult(Strict(T, PowOverflows(v, k), v * 2^k))
    <3>1. PowOverflows(v, k) \in BOOLEAN /\ v * 2^k \in Int
      BY <2>1, <1>1 DEF PowOverflows
    <3> QED
      BY <3>1, <1>1, <1>4, ShiftedDefined, StrictIsResult
  <2> QED
    BY <2>4, <2>5, <1>2, <1>3 DEF ShiftLeft, ShiftedOut, bits, v
<1>5. CASE ~(k < Width[T])
  <2>1. ShiftedOut(T, ToUnsigned(T, x), k)
    BY <1>5, Moduli DEF ShiftedOut
  <2> QED
    BY <2>1, <1>2, <1>3 DEF ShiftLeft
<1> QED
  BY <1>4, <1>5

LEMMA ShiftRightIsResult ==
    ASSUME NEW T \in Types, NEW x \in Int, NEW k \in Nat
    PROVE  IsResult(ShiftRight(T, x, k))
<1> DEFINE bits == ToUnsigned(T, x)
           mask == Modulus(T) - 1
           fill == IF T \in Signed /\ BitsToSigned(T, bits) < 0 THEN mask - mask \div 2^k ELSE 0
<1>1. bits \in Int /\ mask \in Int
  BY Operands, Moduli
<1>2. CASE k < Width[T]
  <2>1. 2^k \in Nat \ {0}
    BY <1>2, ShiftPowers
  <2> HIDE DEF bits, mask
  <2>2. bits \div 2^k \in Int /\ mask \div 2^k \in Int
    BY <2>1, <1>1, Division
  <2>3. bits \div 2^k + fill \in Int
    BY <2>2, <1>1
  <2>4. IsResult(Yields(Make(T, bits \div 2^k + fill)))
    BY <2>3, MadeIsResult
  <2>5. ~(k >= Width[T])
    BY <1>2, Moduli
  <2> QED
    BY <2>4, <2>5 DEF ShiftRight, bits, mask
<1>3. CASE ~(k < Width[T])
  <2>1. k >= Width[T]
    BY <1>3, Moduli
  <2> QED
    BY <2>1, MadeIsResult DEF ShiftRight
<1> QED
  BY <1>2, <1>3

LEMMA ShiftIsResult ==
    ASSUME NEW T \in Types, NEW op \in ShiftOps, NEW mode \in {"strict", "wrap"},
           NEW x \in Int, NEW y \in Int
    PROVE  IsResult(Shift(op, T, mode, x, y))
<1> DEFINE k == ShiftCount(T, y)
<1>1. k \in Int
  BY Operands, Moduli DEF ShiftCount
<1>2. IsResult(Fails("mode mismatch")) /\ IsResult(Fails("negative shift count"))
  BY FailureIsResult DEF Errors, StaticErrors, RuntimeErrors
<1> HIDE DEF k
<1>3. ~(k < 0) => k \in Nat
  BY <1>1
<1> QED
  BY <1>2, <1>3, ShiftLeftIsResult, ShiftRightIsResult DEF Shift, k

LEMMA CastIsResult ==
    ASSUME NEW target \in Types, NEW source, IsValue(source)
    PROVE  IsResult(Cast(target, source))
<1> DEFINE T == source.type
           bits == source.bits
<1>1. T \in Types /\ bits \in Int
  BY DEF IsValue
<1>2. CASE T = target
  BY <1>2 DEF Cast, IsResult, Yields
<1>3. CASE T # target /\ T = Bool
  <2>1. (IF bits # 0 THEN 1 ELSE 0) \in Int
    OBVIOUS
  <2>2. IsResult(Yields(Make(target, IF bits # 0 THEN 1 ELSE 0)))
    BY <2>1, MadeIsResult
  <2> QED
    BY <2>2, <1>3 DEF Cast
<1>4. CASE T # target /\ T # Bool /\ target = Bool
  BY <1>4, TruthIsResult DEF Cast
<1>5. CASE T # target /\ T # Bool /\ target # Bool
  <2>1. IsResult(Fails("cast overflow"))
    BY FailureIsResult DEF Errors, RuntimeErrors
  <2>2. BitsToSigned(T, bits) \in Int /\ ToUnsigned(T, bits) \in Int
    <3>1. ToUnsigned(T, bits) \in Nat /\ BitsToSigned(T, bits) \in Int
      BY <1>1, Operands, Zenon
    <3>2. \A u \in Nat : u \in Int
      OBVIOUS
    <3> QED
      BY <3>1, <3>2, Zenon
  <2>3. BitsToSigned(T, bits) % HostModulus \in Int
    <3>1. HostModulus \in Nat \ {0}
      BY Moduli
    <3> QED
      BY <2>2, <3>1, Division
  <2>4. IsResult(Yields(Make(target, IF T \in Signed THEN BitsToSigned(T, bits) % HostModulus
                                     ELSE ToUnsigned(T, bits))))
    BY <2>2, <2>3, MadeIsResult
  <2> QED
    BY <2>1, <2>4, <1>5 DEF Cast, CastInteger
<1> QED
  BY <1>2, <1>3, <1>4, <1>5

LEMMA ConversionIsResult ==
    ASSUME NEW target \in Types, NEW source, IsValue(source)
    PROVE  IsResult(Truncate(target, source)) /\ IsResult(Bitcast(target, source))
<1>1. IsResult(Yields(Make(target, source.bits)))
  BY MadeIsResult DEF IsValue
<1>2. /\ IsResult(Fails("mode mismatch")) /\ IsResult(Fails("type mismatch"))
      /\ IsResult(Fails("bitcast width"))
  BY FailureIsResult DEF Errors, StaticErrors
<1> QED
  BY <1>1, <1>2 DEF Truncate, Bitcast

LEMMA ApplyIsResult ==
    ASSUME NEW i \in Instrs, NEW operand, IsValue(operand)
    PROVE  IsResult(Apply(i, operand))
<1> DEFINE x == operand.bits
<1>1. /\ i.op \in Ops /\ i.type \in Types /\ i.mode \in {"strict", "wrap"}
      /\ i.target \in Types /\ i.other \in Int /\ x \in Int
      /\ i.type = Bool => i.op \in BitOps \cup {"not"} \cup Conversions
  BY Moduli DEF Instrs, IsValue
<1>2. CASE i.op \in Conversions
  BY <1>1, <1>2, CastIsResult, ConversionIsResult
  DEF Apply, Conversions, ArithOps, UnaryOps, BitOps, ShiftOps, CompareOps
<1>3. CASE i.op \in BitOps \cup {"not"} /\ i.type = Bool
  <2>1. Apply(i, operand) = Logic(i.op, x, i.other)
    BY <1>3 DEF Apply, ArithOps, UnaryOps, BitOps, ShiftOps, CompareOps
  <2> QED
    BY <2>1, TruthIsResult DEF Logic
<1>4. CASE i.op \in BitOps \cup {"not"} /\ i.type # Bool
  BY <1>1, <1>4, BitwiseIsResult
  DEF Apply, ArithOps, UnaryOps, BitOps, ShiftOps, CompareOps
<1>5. CASE i.op \in ArithOps
  <2>1. Apply(i, operand) = Arith(i.op, i.type, i.mode, x, i.other)
    BY <1>5 DEF Apply, ArithOps, UnaryOps, BitOps, ShiftOps, CompareOps
  <2> QED
    BY <1>1, <1>5, <2>1, ArithIsResult
<1>6. CASE i.op \in UnaryOps
  <2>1. Apply(i, operand) = Unary(i.op, i.type, i.mode, x)
    BY <1>6 DEF Apply, ArithOps, UnaryOps, BitOps, ShiftOps, CompareOps
  <2> QED
    BY <1>1, <1>6, <2>1, UnaryIsResult
<1>7. CASE i.op \in ShiftOps
  <2>1. Apply(i, operand) = Shift(i.op, i.type, i.mode, x, i.other)
    BY <1>7 DEF Apply, ArithOps, UnaryOps, BitOps, ShiftOps, CompareOps
  <2> QED
    BY <1>1, <1>7, <2>1, ShiftIsResult
<1>8. CASE i.op \in CompareOps
  <2>1. Apply(i, operand) = Compare(i.op, i.type, x, i.other)
    BY <1>8 DEF Apply, ArithOps, UnaryOps, BitOps, ShiftOps, CompareOps
  <2> QED
    BY <2>1, TruthIsResult DEF Compare
<1> QED
  BY <1>1, <1>2, <1>3, <1>4, <1>5, <1>6, <1>7, <1>8 DEF Ops

-----------------------------------------------------------------------------
(* The inductive invariant: besides the types, no operation is begun once  *)
(* a value has been narrowed, so that the back ends do the same, and a     *)
(* constant is folded at the type it has.                                  *)
IInv ==
    /\ IsValue(slot)
    /\ raw \in 0 .. HostModulus - 1
    /\ instr \in Instrs \cup {None}
    /\ {status, exit} \subseteq Statuses
    /\ narrowed \in BOOLEAN
    /\ status = exit
    /\ IF narrowed THEN instr = None ELSE slot.bits = raw
    /\ status = "folding" /\ instr # None => instr.type = slot.type

LEMMA ValueInWord ==
    ASSUME NEW x, IsValue(x)
    PROVE  /\ x.type \in Types /\ x.bits \in 0 .. Modulus(x.type) - 1
           /\ x.bits \in 0 .. HostModulus - 1
           /\ x = [type |-> x.type, bits |-> x.bits]
<1>1. x.type \in Types /\ x.bits \in Nat /\ x.bits < Modulus(x.type)
  BY DEF IsValue
<1>2. Modulus(x.type) \in Nat /\ HostModulus \in Nat /\ Modulus(x.type) <= HostModulus
  BY <1>1, Moduli
<1>3. x = [type |-> x.type, bits |-> x.bits]
  BY DEF IsValue
<1> QED
  BY <1>1, <1>2, <1>3

LEMMA InitHolds == Init => IInv
<1> SUFFICES ASSUME Init PROVE IInv
  OBVIOUS
<1>1. PICK T \in Types : \E bits \in Literals(T) : slot = Make(T, bits) /\ raw = bits
  BY DEF Init
<1>2. PICK bits \in Literals(T) : slot = Make(T, bits) /\ raw = bits
  BY <1>1
<1>3. bits \in 0 .. Modulus(T) - 1 /\ bits \in 0 .. HostModulus - 1 /\ bits \in Int
  BY Moduli DEF Literals
<1>4. IsValue(slot) /\ slot.bits = raw
  BY <1>2, <1>3, MadeIsValue
<1> QED
  BY <1>2, <1>3, <1>4 DEF Init, IInv, Statuses

(* An operand is the same for the executor, which may make it anew, and    *)
(* for the compiled program, which always does.                            *)
LEMMA SameOperand ==
    ASSUME NEW T \in Types, IsValue(slot)
    PROVE  IsValue(Loaded(T, slot)) /\ Loaded(T, slot) = Make(T, slot.bits)
<1>1. slot.bits \in Int
  BY ValueInWord
<1>2. slot.type = T => Make(T, slot.bits) = slot
  BY <1>1, ValueInWord, MadeIsValue
<1> QED
  BY <1>1, <1>2, MadeIsValue DEF Loaded

LEMMA StepKeeps == IInv /\ [Next]_vars => IInv'
<1> SUFFICES ASSUME IInv, [Next]_vars PROVE IInv'
  OBVIOUS
<1> USE DEF IInv
<1>1. CASE Fetch
  BY <1>1 DEF Fetch
<1>2. CASE Fold
  <2> DEFINE r == Apply(instr, slot)
  <2>1. instr \in Instrs /\ instr' = None /\ narrowed' = narrowed /\ IsResult(r) /\ ~narrowed
    BY <1>2, ApplyIsResult DEF Fold
  <2>2. CASE r.error = None
    <3>1. slot' = r.value /\ raw' = slot'.bits /\ UNCHANGED <<status, exit>>
      BY <1>2, <2>2 DEF Fold
    <3>2. IsValue(slot')
      BY <2>1, <2>2, <3>1 DEF IsResult
    <3> QED
      BY <2>1, <3>1, <3>2, ValueInWord
  <2>3. CASE r.error # None
    <3>1. status' = FoldError(r.error) /\ exit' = status' /\ UNCHANGED <<slot, raw>>
      BY <1>2, <2>3 DEF Fold
    <3>2. r.error \in RuntimeErrors \cup StaticErrors
      BY <2>1, <2>3 DEF IsResult, Errors
    <3>3. FoldError(r.error) \in Statuses
      BY <3>2 DEF FoldError, Statuses, RuntimeErrors, StaticErrors
    <3> QED
      BY <2>1, <3>1, <3>3
  <2> QED
    BY <2>2, <2>3
<1>3. CASE Start
  BY <1>3 DEF Start, Statuses
<1>4. CASE Execute
  <2> DEFINE r == Apply(instr, Loaded(instr.type, slot))
  <2>1. instr \in Instrs /\ instr' = None /\ narrowed' = narrowed /\ ~narrowed
    BY <1>4 DEF Execute
  <2>2. instr.type \in Types
    BY <2>1 DEF Instrs
  <2>3. IsResult(r) /\ r = Apply(instr, Make(instr.type, raw))
    BY <2>1, <2>2, SameOperand, ApplyIsResult
  <2>4. CASE r.error = None
    <3>1. slot' = r.value /\ raw' = slot'.bits /\ UNCHANGED <<status, exit>>
      BY <1>4, <2>3, <2>4 DEF Execute
    <3>2. IsValue(slot')
      BY <2>3, <2>4, <3>1 DEF IsResult
    <3> QED
      BY <2>1, <3>1, <3>2, ValueInWord
  <2>5. CASE r.error # None
    <3>1. status' = r.error /\ exit' = r.error /\ UNCHANGED <<slot, raw>>
      BY <1>4, <2>3, <2>5 DEF Execute
    <3>2. r.error \in Statuses
      BY <2>3, <2>5 DEF IsResult, Errors, Statuses, RuntimeErrors, StaticErrors
    <3> QED
      BY <2>1, <3>1, <3>2
  <2> QED
    BY <2>4, <2>5
<1>5. ASSUME NEW T \in Types, Copy(T) PROVE IInv'
  <2>1. /\ ~narrowed /\ slot.bits = raw /\ UNCHANGED <<instr, status, exit>> /\ instr = None
        /\ slot.bits \in Int
    BY <1>5, ValueInWord DEF Copy
  <2>2. CASE T = Bool
    <3> DEFINE b == IF raw # 0 THEN 1 ELSE 0
    <3>1. slot' = Make(Bool, b) /\ raw' = b /\ UNCHANGED narrowed
      BY <1>5, <2>1, <2>2 DEF Copy, Truth
    <3>2. b \in 0 .. Modulus(Bool) - 1 /\ b \in 0 .. HostModulus - 1 /\ b \in Int
      BY <2>2, Moduli
    <3>3. IsValue(slot') /\ slot'.bits = raw'
      BY <2>2, <3>1, <3>2, MadeIsValue
    <3> QED
      BY <2>1, <3>1, <3>2, <3>3
  <2>3. CASE T # Bool
    <3>1. slot' = Make(T, raw) /\ IsValue(slot') /\ raw' = raw
          /\ narrowed' = (raw >= Modulus(T))
      BY <1>5, <2>1, <2>3, SameOperand DEF Copy
    <3>2. ~narrowed' => slot'.bits = raw
      <4>1. ~narrowed' => raw \in 0 .. Modulus(T) - 1
        <5>1. raw \in Int /\ raw >= 0 /\ HostModulus \in Nat /\ Modulus(T) \in Nat
          BY Moduli
        <5>2. ~(raw >= Modulus(T)) => raw \in 0 .. Modulus(T) - 1
          BY <5>1
        <5> QED
          BY <3>1, <5>2, Zenon
      <4> QED
        BY <2>1, <3>1, <4>1, MadeIsValue
    <3> QED
      BY <2>1, <3>1, <3>2
  <2> QED
    BY <2>2, <2>3
<1>6. CASE UNCHANGED vars
  BY <1>6 DEF vars
<1> QED
  BY <1>1, <1>2, <1>3, <1>4, <1>5, <1>6 DEF Next

(* For every width of the host and of the types: a value never has bits    *)
(* beyond its width, and no operation, of any operands, is one C leaves    *)
(* undefined.                                                              *)
THEOREM TypeCorrect == Spec => []TypeOK
<1>1. IInv => TypeOK
  BY ValueInWord, Moduli DEF IInv, TypeOK, IsValue
<1> QED
  BY <1>1, InitHolds, StepKeeps, PTL DEF Spec

(* The executor and compiled programs agree, for every width, as long as   *)
(* no word has been copied at a type too narrow for it.                    *)
THEOREM BackEndsAgree == Spec => []AgreeUntilNarrowed
<1>1. IInv => AgreeUntilNarrowed
  BY DEF IInv, AgreeUntilNarrowed
<1> QED
  BY <1>1, InitHolds, StepKeeps, PTL DEF Spec

-----------------------------------------------------------------------------
(* What the operations compute with host words is what the language        *)
(* standard says of the numbers.                                           *)

(* Two numbers are congruent when a multiple lies between them.            *)
LEMMA Congruent ==
    ASSUME NEW m \in Nat \ {0}, NEW a \in Int
    PROVE  \E k \in Int : a % m = a + m * k
<1> DEFINE d == a \div m
<1>1. d \in Int /\ a % m = a - m * d
  BY Euclid
<1> HIDE DEF d
<1>2. -d \in Int /\ a + m * (-d) = a - m * d
  BY <1>1
<1> QED
  BY <1>1, <1>2

LEMMA Apart ==
    ASSUME NEW m \in Nat \ {0}, NEW a \in Int, NEW b \in Int, a % m = b % m,
           -m < a - b, a - b < m
    PROVE  a = b
<1>1. PICK k \in Int : a % m = a + m * k
  BY Congruent
<1>2. PICK j \in Int : b % m = b + m * j
  BY Congruent
<1>3. m * (j - k) = m * j - m * k /\ m * j \in Int /\ m * k \in Int /\ j - k \in Int
  OBVIOUS
<1>4. a - b = m * (j - k)
  BY <1>1, <1>2, <1>3
<1>5. ~(j - k >= 1) /\ ~(j - k <= -1)
  BY <1>3, <1>4, Multiples
<1>6. j - k = 0
  BY <1>5
<1>7. m * (j - k) = 0
  BY <1>6
<1> QED
  BY <1>4, <1>7

LEMMA SameRemainder ==
    ASSUME NEW m \in Nat \ {0}, NEW a \in Int, NEW k \in Int, NEW b, b = a + m * k
    PROVE  b % m = a % m
BY ModPlus

(* Sums, differences and products of remainders.                           *)
LEMMA ModOfOperations ==
    ASSUME NEW m \in Nat \ {0}, NEW a \in Int, NEW b \in Int
    PROVE  /\ ((a % m) + (b % m)) % m = (a + b) % m
           /\ ((a % m) - (b % m)) % m = (a - b) % m
           /\ ((a % m) * (b % m)) % m = (a * b) % m
           /\ ((a % m) * b) % m = (a * b) % m
           /\ (a % m) % m = a % m
<1> DEFINE A == a % m
           B == b % m
<1>1. PICK k \in Int : A = a + m * k
  BY Congruent
<1>2. PICK j \in Int : B = b + m * j
  BY Congruent
<1> HIDE DEF A, B
<1>3. A + B = (a + b) + m * (k + j)
  <2>1. m * (k + j) = m * k + m * j /\ m * k \in Int /\ m * j \in Int
    OBVIOUS
  <2> QED
    BY <1>1, <1>2, <2>1
<1>4. A - B = (a - b) + m * (k - j)
  <2>1. m * (k - j) = m * k - m * j /\ m * k \in Int /\ m * j \in Int
    OBVIOUS
  <2> QED
    BY <1>1, <1>2, <2>1
<1>5. A * b = (a * b) + m * (k * b)
  BY <1>1
<1>6. A * B = (a * b) + m * (k * b + a * j + m * (k * j))
  BY <1>1, <1>2
<1>7. /\ k + j \in Int /\ k - j \in Int /\ k * b \in Int /\ a + b \in Int /\ a - b \in Int
      /\ a * b \in Int
  OBVIOUS
<1>8. (A + B) % m = (a + b) % m
  <2> DEFINE t == k + j
             p == a + b
             q == A + B
  <2>1. t \in Int /\ p \in Int /\ q = p + m * t
    BY <1>3, <1>7
  <2> HIDE DEF t, p, q
  <2>2. q % m = p % m
    BY <2>1, SameRemainder
  <2> QED
    BY <2>2 DEF p, q
<1>9. (A - B) % m = (a - b) % m
  <2> DEFINE t == k - j
             p == a - b
             q == A - B
  <2>1. t \in Int /\ p \in Int /\ q = p + m * t
    BY <1>4, <1>7
  <2> HIDE DEF t, p, q
  <2>2. q % m = p % m
    BY <2>1, SameRemainder
  <2> QED
    BY <2>2 DEF p, q
<1>10. (A * b) % m = (a * b) % m
  <2> DEFINE t == k * b
             p == a * b
             q == A * b
  <2>1. t \in Int /\ p \in Int /\ q = p + m * t
    BY <1>5, <1>7
  <2> HIDE DEF t, p, q
  <2>2. q % m = p % m
    BY <2>1, SameRemainder
  <2> QED
    BY <2>2 DEF p, q
<1>11. (A * B) % m = (a * b) % m
  <2> DEFINE t == k * b + a * j + m * (k * j)
             p == a * b
             q == A * B
  <2>1. t \in Int /\ p \in Int /\ q = p + m * t
    BY <1>6
  <2> HIDE DEF t, p, q
  <2>2. q % m = p % m
    BY <2>1, SameRemainder
  <2> QED
    BY <2>2 DEF p, q
<1>12. A % m = a % m
  BY <1>1, SameRemainder, Zenon
<1> QED
  BY <1>8, <1>9, <1>10, <1>11, <1>12 DEF A, B

(* A word keeps the remainder by a modulus that divides the word's.        *)
LEMMA ModOfWord ==
    ASSUME NEW m \in Nat \ {0}, NEW c \in Nat \ {0}, NEW a \in Int
    PROVE  (a % (c * m)) % m = a % m
<1> DEFINE h == c * m
           A == a % h
<1>1. h \in Nat \ {0}
  OBVIOUS
<1>2. PICK k \in Int : A = a + h * k
  BY <1>1, Congruent
<1>3. h * k = m * (c * k) /\ c * k \in Int
  OBVIOUS
<1> HIDE DEF h, A
<1>4. A = a + m * (c * k)
  BY <1>2, <1>3
<1>5. A % m = a % m
  BY <1>3, <1>4, SameRemainder, Zenon
<1> QED
  BY <1>5 DEF h, A

-----------------------------------------------------------------------------
(* Computing with host words loses nothing of what the type keeps.         *)
LEMMA HostRemainder ==
    ASSUME NEW T \in Types, NEW a \in Int
    PROVE  /\ (a % HostModulus) % Modulus(T) = a % Modulus(T)
           /\ Make(T, a % HostModulus) = Make(T, a)
           /\ SignedToBits(T, a) = a % Modulus(T)
<1> DEFINE w == Width[T]
           c == 2^(HostWidth - w)
           m == 2^w
<1>1. w \in 0 .. HostWidth /\ HostWidth - w \in 0 .. HostWidth
      /\ (HostWidth - w) + w = HostWidth /\ (HostWidth - w) + w <= HostWidth
  BY Moduli
<1>2. c \in Nat \ {0} /\ m \in Nat \ {0} /\ 2^HostWidth = c * m
  BY <1>1, PowersAssumption
<1> HIDE DEF c, m
<1>3. (a % (c * m)) % m = a % m
  BY <1>2, ModOfWord
<1>4. HostModulus = c * m /\ Modulus(T) = m
  BY <1>2 DEF HostModulus, Modulus, m
<1>5. (a % HostModulus) % Modulus(T) = a % Modulus(T)
  BY <1>3, <1>4
<1> QED
  BY <1>5 DEF Make, ToUnsigned, SignedToBits

(* The number that bits stand for is the one the code computes from them.  *)
LEMMA NumbersAreUnique ==
    ASSUME NEW T \in Types, NEW a \in Numbers(T), NEW b \in Numbers(T),
           a % Modulus(T) = b % Modulus(T)
    PROVE  a = b
<1>1. /\ Modulus(T) \in Nat \ {0} /\ Modulus(T) = 2 * 2^(Width[T] - 1)
      /\ 2^(Width[T] - 1) \in Nat \ {0}
  BY Moduli
<1>2. a \in Int /\ b \in Int /\ -Modulus(T) < a - b /\ a - b < Modulus(T)
  <2>1. CASE T \in Signed
    BY <2>1, <1>1 DEF Numbers, MinSigned, MaxSigned
  <2>2. CASE T \notin Signed
    BY <2>2, <1>1 DEF Numbers
  <2> QED
    BY <2>1, <2>2
<1> QED
  BY <1>1, <1>2, Apart

LEMMA NumberIsCompared ==
    ASSUME NEW T \in Types, NEW x \in Int
    PROVE  /\ NumberOf(T, x) = Compared(T, x)
           /\ Compared(T, x) \in Numbers(T) /\ Compared(T, x) \in Int
           /\ Compared(T, x) % Modulus(T) = x % Modulus(T)
           /\ Compared(T, x % Modulus(T)) = Compared(T, x)
<1> DEFINE m == Modulus(T)
           h == 2^(Width[T] - 1)
           n == Compared(T, x)
           u == x % m
<1>1. m \in Nat \ {0} /\ m = 2 * h /\ h \in Nat \ {0}
  BY Moduli
<1>2. u \in 0 .. m - 1 /\ u % m = u
  <2>1. u \in 0 .. m - 1 /\ u \in Int
    BY <1>1, Remainders
  <2> QED
    BY <2>1, <1>1, Division
<1>3. n = IF T \in Signed /\ u >= h THEN u - m ELSE u
  BY DEF Compared, BitsToSigned, ToUnsigned
<1>4. Compared(T, u) = IF T \in Signed /\ u % m >= h THEN (u % m) - m ELSE u % m
  BY DEF Compared, BitsToSigned, ToUnsigned
<1>5. n \in Numbers(T) /\ n \in Int
  <2>1. Numbers(T) = IF T \in Signed THEN -h .. h - 1 ELSE 0 .. m - 1
    BY DEF Numbers, MinSigned, MaxSigned
  <2> HIDE DEF n, u, m, h
  <2> QED
    BY <2>1, <1>1, <1>2, <1>3
<1>6. n % m = u
  <2>1. (u - m) % m = u
    <3>1. -1 \in Int /\ u \in Int /\ u - m = u + m * (-1)
      BY <1>1, <1>2
    <3>2. (u - m) % m = u % m
      BY <1>1, <3>1, SameRemainder
    <3> QED
      BY <1>2, <3>2
  <2> QED
    BY <1>2, <1>3, <2>1
<1>7. NumberOf(T, x) = n
  <2>1. \A k \in Numbers(T) : k % m = u => k = n
    BY <1>5, <1>6, NumbersAreUnique
  <2> QED
    BY <1>5, <1>6, <2>1 DEF NumberOf
<1>8. Compared(T, u) = n
  BY <1>2, <1>3, <1>4
<1> QED
  BY <1>5, <1>6, <1>7, <1>8

LEMMA NumberOfMade ==
    ASSUME NEW T \in Types, NEW x \in Int
    PROVE  /\ Make(T, x).bits = x % Modulus(T) /\ Make(T, x).type = T
           /\ x % Modulus(T) \in 0 .. Modulus(T) - 1 /\ x % Modulus(T) \in Int
           /\ (x % Modulus(T)) % Modulus(T) = x % Modulus(T)
           /\ NumberOf(T, x % Modulus(T)) = NumberOf(T, x)
<1>1. Modulus(T) \in Nat \ {0}
  BY Moduli
<1>2. x % Modulus(T) \in 0 .. Modulus(T) - 1 /\ x % Modulus(T) \in Int
  BY <1>1, Remainders
<1>3. (x % Modulus(T)) % Modulus(T) = x % Modulus(T)
  BY <1>1, <1>2, Division
<1> QED
  BY <1>2, <1>3, NumberIsCompared DEF Make, ToUnsigned

-----------------------------------------------------------------------------
(* An operation is done on the bits of the slot at the type of its use, by *)
(* the analyzer as by the executor, and ends as its result says.           *)
LEMMA Outcome ==
    ASSUME IInv, Next, Operating
    PROVE  LET r == Apply(instr, Make(instr.type, slot.bits))
           IN  /\ instr \in Instrs /\ instr.type \in Types /\ slot.bits \in Int
               /\ \A T, b : r = Yields([type |-> T, bits |-> b]) => Result(T, b)
               /\ \A e \in Errors : r = Fails(e) => Ended(e)
<1> DEFINE r == Apply(instr, Make(instr.type, slot.bits))
<1>1. instr # None /\ (Fold \/ Execute)
  BY DEF Next, Operating, Fetch, Start, Copy
<1>2. instr \in Instrs /\ instr.type \in Types /\ slot.bits \in Int
  BY <1>1, ValueInWord DEF IInv, Instrs
<1>3. /\ status \in {"folding", "running"}
      /\ r.error = None => status' = status /\ slot' = r.value
      /\ r.error # None => Ended(r.error)
  <2>1. CASE Fold
    <3>1. instr.type = slot.type /\ status = "folding"
      BY <2>1, <1>1 DEF IInv, Fold
    <3>2. Make(instr.type, slot.bits) = slot
      BY <3>1, <1>2, ValueInWord, MadeIsValue DEF IInv
    <3> QED
      BY <2>1, <3>1, <3>2 DEF Fold, Ended
  <2>2. CASE Execute
    <3>1. Loaded(instr.type, slot) = Make(instr.type, slot.bits)
      BY <1>2, SameOperand DEF IInv
    <3> QED
      BY <2>2, <3>1 DEF Execute, Ended
  <2> QED
    BY <1>1, <2>1, <2>2
<1> HIDE DEF r
<1>4. \A T, b : r = Yields([type |-> T, bits |-> b]) => Result(T, b)
  BY <1>3 DEF Yields, Result
<1>5. \A e \in Errors : r = Fails(e) => Ended(e)
  BY <1>3, NoneAssumption DEF Fails, Errors
<1> QED
  BY <1>2, <1>4, <1>5 DEF r

(* What a conversion of a value gives, in numbers.                         *)
LEMMA CastIsExact ==
    ASSUME NEW T \in Types, NEW U \in Types, NEW x \in Int, T # U, Bool \notin {T, U}
    PROVE  CastInteger(U, Make(T, x)) =
              IF NumberOf(T, x) \in Numbers(U)
              THEN Yields([type |-> U, bits |-> BitsOf(U, NumberOf(T, x))])
              ELSE Fails("cast overflow")
<1> DEFINE n == NumberOf(T, x)
           s == Make(T, x)
<1>1. /\ n = Compared(T, s.bits) /\ s.type = T /\ n \in Numbers(T) /\ n \in Int
      /\ s.bits \in Int /\ s.bits \in 0 .. Modulus(T) - 1
  BY NumberOfMade, NumberIsCompared
<1>2. n = IF T \in Signed THEN BitsToSigned(T, s.bits) ELSE ToUnsigned(T, s.bits)
  BY <1>1 DEF Compared
<1>3. /\ Modulus(T) \in Nat /\ Modulus(U) \in Nat
      /\ MinSigned(U) \in Int /\ MaxSigned(U) \in Nat /\ MinSigned(U) = -MaxSigned(U) - 1
  BY Moduli, InHostRange
<1> HIDE DEF s, n
<1>4. CastFits(U, s) <=> n \in Numbers(U)
  <2>1. CASE T \in Signed
    BY <2>1, <1>1, <1>2, <1>3 DEF CastFits, Numbers, SignedInRange
  <2>2. CASE T \notin Signed
    <3>1. n \in Nat
      BY <2>2, <1>1, <1>3 DEF Numbers
    <3> QED
      BY <2>2, <3>1, <1>1, <1>2, <1>3 DEF CastFits, Numbers
  <2> QED
    BY <2>1, <2>2
<1>5. Make(U, n % HostModulus) = [type |-> U, bits |-> BitsOf(U, n)]
      /\ Make(U, n) = [type |-> U, bits |-> BitsOf(U, n)]
  BY <1>1, HostRemainder DEF Make, ToUnsigned, BitsOf
<1>6. CastInteger(U, s) = IF ~CastFits(U, s) THEN Fails("cast overflow")
                          ELSE Yields(Make(U, IF T \in Signed THEN n % HostModulus ELSE n))
  BY <1>1, <1>2 DEF CastInteger
<1>7. CastInteger(U, s) = IF n \in Numbers(U) THEN Yields([type |-> U, bits |-> BitsOf(U, n)])
                          ELSE Fails("cast overflow")
  BY <1>4, <1>5, <1>6
<1> QED
  BY <1>7 DEF s, n

LEMMA SmallIsItself ==
    ASSUME NEW T \in Types
    PROVE  /\ Make(T, 0) = [type |-> T, bits |-> 0]
           /\ Make(T, 1) = [type |-> T, bits |-> 1]
<1>1. 0 \in 0 .. Modulus(T) - 1 /\ 1 \in 0 .. Modulus(T) - 1
  BY Moduli
<1> QED
  BY <1>1, MadeIsValue

LEMMA ConversionApplied ==
    ASSUME NEW i \in Instrs, i.op \in Conversions, NEW x \in Int
    PROVE  LET T == i.type
               U == i.target
               bits == x % Modulus(T)
           IN  Apply(i, Make(T, x)) =
                IF i.op = "truncate" /\ (Bool \in {T, U} \/ Width[U] >= Width[T])
                THEN Fails("mode mismatch")
                ELSE IF i.op = "bitcast" /\ Bool \in {T, U} THEN Fails("type mismatch")
                ELSE IF i.op = "bitcast" /\ Width[U] # Width[T] THEN Fails("bitcast width")
                ELSE IF i.op # "cast" \/ T = U
                THEN Yields([type |-> U, bits |-> bits % Modulus(U)])
                ELSE IF U = Bool \/ T = Bool
                THEN Yields([type |-> U, bits |-> IF bits = 0 THEN 0 ELSE 1])
                ELSE IF NumberOf(T, x) \in Numbers(U)
                THEN Yields([type |-> U, bits |-> BitsOf(U, NumberOf(T, x))])
                ELSE Fails("cast overflow")
<1> DEFINE T == i.type
           U == i.target
           s == Make(T, x)
           b == x % Modulus(T)
<1>1. T \in Types /\ U \in Types
  BY DEF Instrs
<1>2. s.type = T /\ s.bits = b /\ b \in Int /\ b % Modulus(T) = b /\ s = [type |-> T, bits |-> b]
  BY <1>1, NumberOfMade DEF Make, ToUnsigned
<1>3. Apply(i, s) = CASE i.op = "cast" -> Cast(U, s)
                      [] i.op = "truncate" -> Truncate(U, s)
                      [] i.op = "bitcast" -> Bitcast(U, s)
  BY DEF Apply, Conversions, ArithOps, UnaryOps, BitOps, ShiftOps, CompareOps
<1>4. Make(U, b) = [type |-> U, bits |-> b % Modulus(U)]
  BY DEF Make, ToUnsigned
<1>5. T # U /\ Bool \notin {T, U} =>
        CastInteger(U, s) = IF NumberOf(T, x) \in Numbers(U)
                            THEN Yields([type |-> U, bits |-> BitsOf(U, NumberOf(T, x))])
                            ELSE Fails("cast overflow")
  BY <1>1, CastIsExact
<1>6. /\ Make(U, 0) = [type |-> U, bits |-> 0]
      /\ Make(U, 1) = [type |-> U, bits |-> 1]
  BY <1>1, SmallIsItself
<1>7. ToUnsigned(T, b) = b
  BY <1>2 DEF ToUnsigned
<1> HIDE DEF T, U, s, b
<1>8. CASE i.op = "truncate"
  BY <1>2, <1>3, <1>4, <1>8 DEF Truncate, T, U, s, b
<1>9. CASE i.op = "bitcast"
  BY <1>2, <1>3, <1>4, <1>9 DEF Bitcast, T, U, s, b
<1>10. CASE i.op = "cast"
  <2>1. CASE T = U
    BY <2>1, <1>2, <1>3, <1>10 DEF Cast, T, U, s, b
  <2>2. CASE T # U /\ T = Bool
    <3>1. Apply(i, s) = Yields(Make(U, IF b # 0 THEN 1 ELSE 0))
      BY <2>2, <1>2, <1>3, <1>10 DEF Cast
    <3> QED
      BY <2>2, <3>1, <1>6, <1>10 DEF T, U, s, b
  <2>3. CASE T # U /\ T # Bool /\ U = Bool
    <3>1. Apply(i, s) = Yields(Make(U, IF b # 0 THEN 1 ELSE 0))
      BY <2>3, <1>2, <1>3, <1>7, <1>10 DEF Cast, Truth
    <3> QED
      BY <2>3, <3>1, <1>6, <1>10 DEF T, U, s, b
  <2>4. CASE T # U /\ T # Bool /\ U # Bool
    <3>1. Apply(i, s) = CastInteger(U, s)
      BY <2>4, <1>2, <1>3, <1>10 DEF Cast
    <3> QED
      BY <2>4, <3>1, <1>5, <1>10 DEF T, U, s, b
  <2> QED
    BY <2>1, <2>2, <2>3, <2>4
<1> QED
  BY <1>8, <1>9, <1>10 DEF Conversions

(* A cast gives the same number, or fails when the target has none; the    *)
(* others give bits: for every mix of widths.                              *)
THEOREM ConversionsExact == Spec => ConversionsAreExact
<1> DEFINE T == instr.type
           U == instr.target
           bits == slot.bits % Modulus(T)
           Exact == IF instr.op = "truncate" /\ (Bool \in {T, U} \/ Width[U] >= Width[T])
                    THEN Ended("mode mismatch")
                    ELSE IF instr.op = "bitcast" /\ Bool \in {T, U} THEN Ended("type mismatch")
                    ELSE IF instr.op = "bitcast" /\ Width[U] # Width[T] THEN Ended("bitcast width")
                    ELSE IF instr.op # "cast" \/ T = U THEN Result(U, bits % Modulus(U))
                    ELSE IF U = Bool \/ T = Bool THEN Result(U, IF bits = 0 THEN 0 ELSE 1)
                    ELSE IF Operand \in Numbers(U) THEN Result(U, BitsOf(U, Operand))
                    ELSE Ended("cast overflow")
<1>1. IInv /\ Next /\ Operating /\ instr.op \in Conversions => Exact
  <2> SUFFICES ASSUME IInv, Next, Operating, instr.op \in Conversions PROVE Exact
    OBVIOUS
  <2> DEFINE r == Apply(instr, Make(T, slot.bits))
  <2>1. /\ instr \in Instrs /\ slot.bits \in Int
        /\ \A V, b : r = Yields([type |-> V, bits |-> b]) => Result(V, b)
        /\ \A e \in Errors : r = Fails(e) => Ended(e)
    BY Outcome
  <2>2. /\ "mode mismatch" \in Errors /\ "type mismatch" \in Errors
        /\ "bitcast width" \in Errors /\ "cast overflow" \in Errors
    BY DEF Errors, StaticErrors, RuntimeErrors
  <2>3. r = IF instr.op = "truncate" /\ (Bool \in {T, U} \/ Width[U] >= Width[T])
            THEN Fails("mode mismatch")
            ELSE IF instr.op = "bitcast" /\ Bool \in {T, U} THEN Fails("type mismatch")
            ELSE IF instr.op = "bitcast" /\ Width[U] # Width[T] THEN Fails("bitcast width")
            ELSE IF instr.op # "cast" \/ T = U
            THEN Yields([type |-> U, bits |-> bits % Modulus(U)])
            ELSE IF U = Bool \/ T = Bool
            THEN Yields([type |-> U, bits |-> IF bits = 0 THEN 0 ELSE 1])
            ELSE IF Operand \in Numbers(U)
            THEN Yields([type |-> U, bits |-> BitsOf(U, Operand)])
            ELSE Fails("cast overflow")
    BY <2>1, ConversionApplied DEF Operand
  <2> HIDE DEF r, T, U, bits
  <2> QED
    BY <2>1, <2>2, <2>3
<1>2. IInv /\ [Next]_vars => [Operating /\ instr.op \in Conversions => Exact]_vars
  BY <1>1
<1> QED
  BY <1>2, InitHolds, StepKeeps, PTL DEF Spec, ConversionsAreExact

-----------------------------------------------------------------------------
(* The checks before a signed operation refuse exactly what the host could *)
(* not compute.                                                            *)
LEMMA AboveQuotient ==
    ASSUME NEW a \in Nat, NEW b \in Nat \ {0}, NEW n \in Nat, a > n \div b
    PROVE  a * b > n
<1> DEFINE q == n \div b
<1>1. q \in Nat /\ n < b * q + b
  BY Division, Quotients
<1> HIDE DEF q
<1>2. (q + 1) * b <= a * b
  BY <1>1, ProductsGrow DEF q
<1>3. (q + 1) * b = b * q + b /\ b * q \in Int /\ a * b \in Int
  BY <1>1
<1> QED
  BY <1>1, <1>2, <1>3

LEMMA SumsRefused ==
    ASSUME NEW T \in Types, NEW a \in Int, NEW b \in Int, Defined(a), Defined(b)
    PROVE  /\ AddOverflows(a, b) => ~Defined(a + b)
           /\ SubOverflows(a, b) => ~Defined(a - b)
BY InHostRange DEF AddOverflows, SubOverflows, Defined

LEMMA ProductsRefused ==
    ASSUME NEW T \in Types, NEW a \in Int, NEW b \in Int, MulOverflows(a, b)
    PROVE  ~Defined(a * b)
<1> DEFINE max == HostMax
           h == -HostMin
<1>1. max \in Nat /\ h = max + 1 /\ HostMin = -h /\ HostMin < 0 /\ h \in Nat
  BY InHostRange
<1>2. Magnitude(HostMax) = max /\ Magnitude(HostMin) = h
  BY <1>1 DEF Magnitude
<1>3. a # 0 /\ b # 0
  BY DEF MulOverflows
<1> HIDE DEF max, h
<1>4. CASE a > 0 /\ b > 0
  <2>1. Quotient(HostMax, b) = max \div b
    BY <1>1, <1>2, <1>4 DEF Quotient, Magnitude, max
  <2>2. max \div b \in Int /\ a > max \div b
    BY <2>1, <1>1, <1>4, Division DEF MulOverflows
  <2>3. a * b > max
    BY <2>2, <1>1, <1>4, AboveQuotient
  <2>4. a * b \in Int
    OBVIOUS
  <2> QED
    BY <2>3, <2>4, <1>1 DEF Defined, max
<1>5. CASE a > 0 /\ b < 0
  <2>1. Quotient(HostMin, a) = -(h \div a)
    BY <1>1, <1>2, <1>5 DEF Quotient, Magnitude
  <2>2. h \div a \in Int /\ -b > h \div a
    BY <2>1, <1>1, <1>5, Division DEF MulOverflows
  <2>3. (-b) * a > h
    BY <2>2, <1>1, <1>5, AboveQuotient
  <2>4. (-b) * a \in Int /\ a * b = -((-b) * a)
    OBVIOUS
  <2> QED
    BY <2>3, <2>4, <1>1 DEF Defined, max
<1>6. CASE a < 0 /\ b > 0
  <2>1. Quotient(HostMin, b) = -(h \div b)
    BY <1>1, <1>2, <1>6 DEF Quotient, Magnitude
  <2>2. h \div b \in Int /\ -a > h \div b
    BY <2>1, <1>1, <1>6, Division DEF MulOverflows
  <2>3. (-a) * b > h
    BY <2>2, <1>1, <1>6, AboveQuotient
  <2>4. (-a) * b \in Int /\ a * b = -((-a) * b)
    OBVIOUS
  <2> QED
    BY <2>3, <2>4, <1>1 DEF Defined, max
<1>7. CASE a < 0 /\ b < 0
  <2>1. Quotient(HostMax, b) = -(max \div (-b))
    BY <1>1, <1>2, <1>7 DEF Quotient, Magnitude, max
  <2>2. max \div (-b) \in Int /\ -a > max \div (-b)
    BY <2>1, <1>1, <1>7, Division DEF MulOverflows
  <2>3. (-a) * (-b) > max
    BY <2>2, <1>1, <1>7, AboveQuotient
  <2>4. (-a) * (-b) \in Int /\ a * b = (-a) * (-b)
    OBVIOUS
  <2> QED
    BY <2>3, <2>4, <1>1 DEF Defined, max
<1> QED
  BY <1>3, <1>4, <1>5, <1>6, <1>7

LEMMA InRangeIsExact ==
    ASSUME NEW T \in Types, T \in Signed, NEW v \in Int, Defined(v)
    PROVE  InRange(T, v) = IF v \in Numbers(T) THEN Yields([type |-> T, bits |-> BitsOf(T, v)])
                           ELSE Fails("overflow")
<1>1. v \in Numbers(T) <=> SignedInRange(v, T)
  BY InHostRange DEF Numbers, SignedInRange
<1>2. Make(T, SignedToBits(T, v)) = [type |-> T, bits |-> BitsOf(T, v)]
  BY HostRemainder, NumberOfMade DEF Make, ToUnsigned, BitsOf
<1> QED
  BY <1>1, <1>2 DEF InRange

LEMMA StrictIsExact ==
    ASSUME NEW T \in Types, T \in Signed, NEW v \in Int, NEW overflows \in BOOLEAN,
           overflows <=> ~Defined(v)
    PROVE  Strict(T, overflows, v) =
                IF v \in Numbers(T) THEN Yields([type |-> T, bits |-> BitsOf(T, v)])
                ELSE Fails("overflow")
<1>1. v \in Numbers(T) => Defined(v)
  BY NumberIsDefined DEF Numbers, SignedInRange
<1> QED
  BY <1>1, InRangeIsExact DEF Strict

(* A product of words by halves.                                           *)
LEMMA LowProductIsExact ==
    ASSUME NEW a \in Int, NEW b \in Int
    PROVE  LowProduct(a, b) = (a * b) % HostModulus
<1> DEFINE base == 2^(HostWidth \div 2)
           a0 == a % base
           a1 == a \div base
           b0 == b % base
           b1 == b \div base
           p0 == a0 * b0
           p1 == a0 * b1
           p2 == a1 * b0
           c0 == (p0 \div base) + (p1 % base) + (p2 % base)
           h == HostModulus
           z == c0 * base
           e == z \div h
           f == z % h
           r0 == p0 % base
<1>1. base \in Nat \ {0} /\ h = base * base
  <2> DEFINE k == HostWidth \div 2
  <2>1. k \in 0 .. HostWidth /\ k + k = HostWidth /\ k + k <= HostWidth
    BY WidthsAssumption
  <2> HIDE DEF k
  <2>2. 2^k \in Nat \ {0} /\ 2^(k + k) = 2^k * 2^k
    BY <2>1, PowersAssumption
  <2> QED
    BY <2>1, <2>2 DEF HostModulus, k
<1> HIDE DEF base, h
<1>2. /\ a1 \in Int /\ a0 \in Int /\ a = base * a1 + a0
      /\ b1 \in Int /\ b0 \in Int /\ b = base * b1 + b0
  BY <1>1, Euclid
<1> HIDE DEF a0, a1, b0, b1
<1>3. p0 \in Int /\ p1 \in Int /\ p2 \in Int
  BY <1>2
<1>4. a * b = base * base * (a1 * b1) + base * p1 + base * p2 + p0
  BY <1>1, <1>2
<1> HIDE DEF p0, p1, p2
<1> DEFINE d0 == p0 \div base
           d1 == p1 \div base
           d2 == p2 \div base
           r1 == p1 % base
           r2 == p2 % base
<1>5. /\ d0 \in Int /\ p0 = base * d0 + r0 /\ r0 \in 0 .. base - 1
      /\ d1 \in Int /\ p1 = base * d1 + r1 /\ r1 \in Int
      /\ d2 \in Int /\ p2 = base * d2 + r2 /\ r2 \in Int
  BY <1>1, <1>3, Euclid
<1>6. c0 = d0 + r1 + r2
  OBVIOUS
<1> HIDE DEF d0, d1, d2, r0, r1, r2, c0
<1>7. c0 \in Int /\ z \in Int /\ h \in Nat \ {0}
  BY <1>1, <1>5, <1>6
<1>8. e \in Int /\ f \in 0 .. h - 1 /\ z = h * e + f
  <2> HIDE DEF z
  <2> QED
    BY <1>7, Euclid
<1> HIDE DEF e, f
<1> DEFINE g == c0 - base * e
           t == a1 * b1 + d1 + d2
<1>9. g \in Int /\ f = base * g /\ t \in Int
  BY <1>1, <1>2, <1>5, <1>7, <1>8
<1>10. a * b = h * (t + e) + (r0 + f)
  <2>1. base * p1 = base * base * d1 + base * r1 /\ base * p2 = base * base * d2 + base * r2
    BY <1>1, <1>5
  <2>2. a * b = base * base * (a1 * b1) + base * base * d1 + base * base * d2
                    + (base * d0 + base * r1 + base * r2) + r0
    BY <2>1, <1>1, <1>2, <1>4, <1>5
  <2>3. base * base * (a1 * b1) + base * base * d1 + base * base * d2 = h * t
    BY <1>1, <1>2, <1>5
  <2>4. base * d0 + base * r1 + base * r2 = c0 * base
    BY <1>1, <1>5, <1>6
  <2>5. h * (t + e) = h * t + h * e /\ h * t \in Int /\ h * e \in Int
    BY <1>7, <1>8, <1>9
  <2> HIDE DEF t
  <2> QED
    BY <2>2, <2>3, <2>4, <2>5, <1>5, <1>8
<1>11. r0 + f \in 0 .. h - 1
  <2> HIDE DEF g
  <2>1. g <= base - 1
    <3>1. g >= base => base * g >= base * base
      <4>1. g >= base => base * base <= g * base
        BY <1>1, <1>9, ProductsGrow
      <4> QED
        BY <4>1, <1>1, <1>9
    <3> QED
      BY <3>1, <1>1, <1>8, <1>9
  <2>2. base * (base - 1) = h - base
    BY <1>1
  <2>3. base * g <= base * (base - 1)
    <3>1. base - 1 - g \in Nat /\ base * (base - 1) = base * g + base * (base - 1 - g)
      BY <2>1, <1>1, <1>9
    <3>2. base * (base - 1 - g) \in Nat /\ base * g \in Int
      BY <3>1, <1>1, <1>9
    <3> QED
      BY <3>1, <3>2
  <2> QED
    BY <2>2, <2>3, <1>1, <1>5, <1>7, <1>8, <1>9
<1>12. (a * b) % h = r0 + f
  <2> DEFINE p == a * b
             q == t + e
             w == r0 + f
  <2>1. p \in Int /\ q \in Int /\ p = h * q + w /\ w \in 0 .. h - 1
    BY <1>8, <1>9, <1>10, <1>11
  <2> HIDE DEF p, q, w
  <2>2. p % h = w
    BY <2>1, <1>7, Unique
  <2> QED
    BY <2>2 DEF p, w
<1> QED
  BY <1>12 DEF LowProduct, base, a0, a1, b0, b1, p0, p1, p2, c0, z, h, e, f, r0

-----------------------------------------------------------------------------

(* The results of the standard: the number at the width of the type, and   *)
(* the number if the type has it.                                          *)
Exact(T, v) == Yields([type |-> T, bits |-> BitsOf(T, v)])
Checked(T, v) == IF v \in Numbers(T) THEN Exact(T, v) ELSE Fails("overflow")

(* By kinds of operations, of two numbers.                                 *)
ArithResult(op, T, mode, a, b) ==
    IF mode = "wrap" /\ (op \in {"div", "mod"} \/ T \notin Signed) THEN Fails("mode mismatch")
    ELSE IF op \in {"div", "mod"} /\ b = 0 THEN Fails("division by zero")
    ELSE IF mode = "wrap" \/ T \notin Signed THEN Exact(T, Mathematical(op, a, b))
    ELSE Checked(T, Mathematical(op, a, b))
UnaryResult(op, T, mode, a, b) ==
    IF mode = "wrap" /\ (op # "neg" \/ T \notin Signed) THEN Fails("mode mismatch")
    ELSE IF T \in Signed /\ mode = "strict" THEN Checked(T, Mathematical(op, a, b))
    ELSE Exact(T, Mathematical(op, a, b))
ShiftResult(op, T, mode, a, b) ==
    IF mode = "wrap" /\ op # "shl" THEN Fails("mode mismatch")
    ELSE IF b < 0 THEN Fails("negative shift count")
    ELSE IF b >= Width[T]
    THEN IF op = "shl" /\ mode # "wrap" THEN Fails("overflow") ELSE Exact(T, 0)
    ELSE IF op = "shr" THEN Exact(T, a \div 2^b)
    ELSE IF mode = "wrap" THEN Exact(T, a * 2^b) ELSE Checked(T, a * 2^b)

LEMMA MadeIsExact ==
    ASSUME NEW T \in Types, NEW v \in Int
    PROVE  /\ \A u : u % Modulus(T) = v % Modulus(T) => Yields(Make(T, u)) = Exact(T, v)
           /\ Yields(Make(T, v)) = Exact(T, v)
           /\ Yields(Make(T, v % HostModulus)) = Exact(T, v)
           /\ Yields(Make(T, SignedToBits(T, v))) = Exact(T, v)
           /\ BitsOf(T, 0) = 0 /\ Exact(T, 0) = Yields(Make(T, 0))
<1>1. Make(T, v % HostModulus) = Make(T, v)
  BY HostRemainder
<1>2. SignedToBits(T, v) = v % Modulus(T) /\ (v % Modulus(T)) % Modulus(T) = v % Modulus(T)
  BY HostRemainder, NumberOfMade
<1>3. 0 % Modulus(T) = 0
  BY Moduli, Division
<1> QED
  BY <1>1, <1>2, <1>3 DEF Exact, BitsOf, Make, ToUnsigned

(* The numbers of a type, and the host's range.                            *)
LEMMA NumbersOf ==
    ASSUME NEW T \in Types
    PROVE  /\ 0 \in Numbers(T)
           /\ T \in Signed => \A v \in Numbers(T) :
                v \in Int /\ SignedInRange(v, T) /\ Defined(v) /\ -HostModulus < v /\ v < HostModulus
           /\ T \notin Signed => \A v \in Numbers(T) :
                v \in Nat /\ v < Modulus(T) /\ v < HostModulus /\ v % Modulus(T) = v
<1>1. /\ Modulus(T) \in Nat \ {0} /\ Modulus(T) <= HostModulus /\ HostModulus \in Nat
      /\ MaxSigned(T) \in Nat /\ MinSigned(T) = -MaxSigned(T) - 1
      /\ HostMax \in Nat /\ HostMin = -HostMax - 1
      /\ HostMin <= MinSigned(T) /\ MaxSigned(T) <= HostMax
  BY Moduli, InHostRange
<1>2. HostModulus = 2 * (HostMax + 1)
  BY Moduli DEF HostMax
<1>3. 0 \in Numbers(T)
  BY <1>1 DEF Numbers
<1>4. ASSUME T \in Signed, NEW v \in Numbers(T)
      PROVE  v \in Int /\ SignedInRange(v, T) /\ Defined(v) /\ -HostModulus < v /\ v < HostModulus
  BY <1>1, <1>2, <1>4 DEF Numbers, SignedInRange, Defined
<1>5. ASSUME T \notin Signed, NEW v \in Numbers(T)
      PROVE  v \in Nat /\ v < Modulus(T) /\ v < HostModulus /\ v % Modulus(T) = v
  <2>1. v \in 0 .. Modulus(T) - 1
    BY <1>5 DEF Numbers
  <2>2. v \in Int
    BY <2>1, <1>1
  <2>3. v % Modulus(T) = v
    BY <2>1, <2>2, <1>1, Division, Zenon
  <2> QED
    BY <2>1, <2>3, <1>1
<1> QED
  BY <1>3, <1>4, <1>5

(* The quotient towards zero is the only one that leaves a remainder with  *)
(* the sign of the dividend.                                               *)
LEMMA QuotientIsTruncated ==
    ASSUME NEW a \in Int, NEW b \in Int, b # 0, -HostModulus < a, a < HostModulus
    PROVE  /\ TruncatedQuotient(a, b) = Quotient(a, b)
           /\ a - b * TruncatedQuotient(a, b) = Remainder(a, b)
<1> DEFINE m == Magnitude(a)
           n == Magnitude(b)
           d == m \div n
           q == Quotient(a, b)
           Fits(p) == LET r == a - p * b
                      IN  /\ Magnitude(r) < Magnitude(b)
                          /\ r = 0 \/ (r < 0) = (a < 0)
<1>1. /\ m \in Nat /\ n \in Nat \ {0} /\ d \in 0 .. m
      /\ q = (IF (a < 0) = (b < 0) THEN d ELSE -d)
  BY QuotientBySigns
<1>2. m = (IF a < 0 THEN -a ELSE a) /\ n = (IF b < 0 THEN -b ELSE b)
  BY DEF Magnitude
<1> HIDE DEF m, n, q
<1>3. d \in Int /\ n * d <= m /\ m < n * d + n
  <2>1. m \in Int /\ n \in Nat \ {0}
    BY <1>1
  <2> QED
    BY <2>1, Euclid
<1> HIDE DEF d
<1>4. q * b = (IF a < 0 THEN -(n * d) ELSE n * d) /\ n * d \in Nat /\ q \in Int
  BY <1>1, <1>2
<1>5. q \in -HostModulus .. HostModulus
  <2>1. HostModulus \in Nat
    BY Moduli, WidthsAssumption, Zenon DEF Types
  <2> QED
    BY <2>1, <1>1, <1>2
<1>6. Fits(q)
  BY <1>1, <1>2, <1>3, <1>4 DEF Magnitude, n
<1>7. ASSUME NEW p \in Int, Fits(p) PROVE p = q
  <2> DEFINE k == p - q
             s == a - q * b
             t == a - p * b
  <2>1. k \in Int /\ s \in Int /\ t \in Int /\ s - t = k * b
    BY <1>4
  <2>2. -n < s - t /\ s - t < n
    <3>1. /\ Magnitude(s) < n /\ (s = 0 \/ (s < 0) = (a < 0))
          /\ Magnitude(t) < n /\ (t = 0 \/ (t < 0) = (a < 0))
      BY <1>6, <1>7 DEF n
    <3> HIDE DEF s, t
    <3> QED
      BY <3>1, <2>1, <1>1 DEF Magnitude
  <2> HIDE DEF k, s, t
  <2>3. n * k = (IF b < 0 THEN -(k * b) ELSE k * b) /\ k * b \in Int
    BY <2>1, <1>2
  <2>4. -n < n * k /\ n * k < n
    BY <2>1, <2>2, <2>3, <1>1
  <2>5. ~(k >= 1) /\ ~(k <= -1)
    BY <2>1, <2>4, <1>1, Multiples
  <2>6. k = 0
    BY <2>1, <2>5
  <2> QED
    BY <2>6, <1>4 DEF k
<1>8. TruncatedQuotient(a, b) = q
  <2>1. TruncatedQuotient(a, b) = CHOOSE p \in -HostModulus .. HostModulus : Fits(p)
    BY DEF TruncatedQuotient
  <2>2. \A p \in -HostModulus .. HostModulus : p \in Int
    OBVIOUS
  <2> HIDE DEF Fits
  <2> QED
    BY <2>1, <2>2, <1>5, <1>6, <1>7
<1> QED
  BY <1>8 DEF q, Remainder

-----------------------------------------------------------------------------
(* Signed arithmetic. *)
LEMMA WrappedIsExact ==
    ASSUME NEW T \in Types, T \in Signed, NEW a \in Numbers(T), NEW b \in Numbers(T)
    PROVE  /\ Yields(Make(T, (ToUnsigned(T, a) + ToUnsigned(T, b)) % HostModulus)) = Exact(T, a + b)
           /\ Yields(Make(T, (ToUnsigned(T, a) - ToUnsigned(T, b)) % HostModulus)) = Exact(T, a - b)
           /\ WrapMul(T, a, b) = Exact(T, a * b)
<1> DEFINE m == Modulus(T)
           u == a % m
           v == b % m
<1>1. a \in Int /\ b \in Int /\ SignedInRange(a, T) /\ SignedInRange(b, T)
  BY NumbersOf
<1>2. m \in Nat \ {0} /\ HostModulus \in Nat \ {0}
  BY Moduli
<1>3. /\ (u + v) % m = (a + b) % m /\ (u - v) % m = (a - b) % m /\ (u * v) % m = (a * b) % m
  <2> HIDE DEF m
  <2> QED
    BY <1>1, <1>2, ModOfOperations
<1>4. /\ SignedToBits(T, a) = u /\ SignedToBits(T, b) = v
      /\ ToUnsigned(T, a) = u /\ ToUnsigned(T, b) = v
  BY <1>1, HostRemainder DEF ToUnsigned
<1>5. u \in Int /\ v \in Int
  BY <1>1, <1>2, Remainders
<1>6. LowProduct(u, v) = (u * v) % HostModulus
  <2> HIDE DEF u, v
  <2> QED
    BY <1>5, LowProductIsExact
<1> HIDE DEF u, v
<1>7. /\ u + v \in Int /\ u - v \in Int /\ u * v \in Int
      /\ a + b \in Int /\ a - b \in Int /\ a * b \in Int
  BY <1>1, <1>5
<1>8. ASSUME NEW n \in Int, NEW k \in Int, n % m = k % m
      PROVE  Yields(Make(T, n % HostModulus)) = Exact(T, k)
  <2>1. Make(T, n % HostModulus) = Make(T, n)
    BY HostRemainder
  <2>2. Yields(Make(T, n)) = Exact(T, k)
    BY <1>8, MadeIsExact
  <2> QED
    BY <2>1, <2>2
<1>9. Yields(Make(T, (u + v) % HostModulus)) = Exact(T, a + b)
  BY <1>3, <1>7, <1>8
<1>10. Yields(Make(T, (u - v) % HostModulus)) = Exact(T, a - b)
  BY <1>3, <1>7, <1>8
<1>11. Yields(Make(T, (u * v) % HostModulus)) = Exact(T, a * b)
  BY <1>3, <1>7, <1>8
<1>12. WrapMul(T, a, b) = Exact(T, a * b)
  <2>1. CASE Width[T] = HostWidth
    BY <2>1, <1>4, <1>6, <1>11 DEF WrapMul
  <2>2. CASE Width[T] # HostWidth
    <3>1. Defined(a * b)
      BY <2>2, <1>1, NarrowProductDefined
    <3>2. Yields(Make(T, SignedToBits(T, a * b))) = Exact(T, a * b)
      BY <1>7, MadeIsExact
    <3> QED
      BY <2>2, <3>1, <3>2 DEF WrapMul
  <2> QED
    BY <2>1, <2>2
<1> QED
  BY <1>4, <1>9, <1>10, <1>12

LEMMA StrictIsChecked ==
    ASSUME NEW T \in Types, T \in Signed, NEW a \in Numbers(T), NEW b \in Numbers(T)
    PROVE  /\ Strict(T, AddOverflows(a, b), a + b) = Checked(T, a + b)
           /\ Strict(T, SubOverflows(a, b), a - b) = Checked(T, a - b)
           /\ Strict(T, MulOverflows(a, b), a * b) = Checked(T, a * b)
<1>1. a \in Int /\ b \in Int /\ Defined(a) /\ Defined(b)
  BY NumbersOf
<1>2. a + b \in Int /\ a - b \in Int /\ a * b \in Int
  BY <1>1
<1>3. /\ AddOverflows(a, b) \in BOOLEAN /\ (AddOverflows(a, b) <=> ~Defined(a + b))
      /\ SubOverflows(a, b) \in BOOLEAN /\ (SubOverflows(a, b) <=> ~Defined(a - b))
      /\ MulOverflows(a, b) \in BOOLEAN /\ (MulOverflows(a, b) <=> ~Defined(a * b))
  <2>1. /\ AddOverflows(a, b) <=> ~Defined(a + b)
        /\ SubOverflows(a, b) <=> ~Defined(a - b)
    BY <1>1, SumsDefined, SumsRefused
  <2>2. MulOverflows(a, b) <=> ~Defined(a * b)
    BY <1>1, ProductsDefined, ProductsRefused
  <2>3. AddOverflows(a, b) \in BOOLEAN /\ SubOverflows(a, b) \in BOOLEAN
    BY DEF AddOverflows, SubOverflows
  <2>4. MulOverflows(a, b) \in BOOLEAN
    BY <1>1 DEF MulOverflows
  <2> QED
    BY <2>1, <2>2, <2>3, <2>4
<1>4. ASSUME NEW v \in Int, NEW overflows \in BOOLEAN, overflows <=> ~Defined(v)
      PROVE  Strict(T, overflows, v) = Checked(T, v)
  BY <1>4, StrictIsExact DEF Checked, Exact
<1>5. Strict(T, AddOverflows(a, b), a + b) = Checked(T, a + b)
  BY <1>2, <1>3, <1>4
<1>6. Strict(T, SubOverflows(a, b), a - b) = Checked(T, a - b)
  BY <1>2, <1>3, <1>4
<1>7. Strict(T, MulOverflows(a, b), a * b) = Checked(T, a * b)
  BY <1>2, <1>3, <1>4
<1> QED
  BY <1>5, <1>6, <1>7

(* MIN / -1 has no result, MIN % -1 has.                                   *)
LEMMA DivisionIsChecked ==
    ASSUME NEW T \in Types, T \in Signed, NEW a \in Numbers(T), NEW b \in Numbers(T), b # 0,
           NEW op \in {"div", "mod"}
    PROVE  Divide(op, T, a, b) = Checked(T, Mathematical(op, a, b))
<1>1. /\ a \in Int /\ b \in Int /\ SignedInRange(a, T) /\ Defined(a)
      /\ -HostModulus < a /\ a < HostModulus
  BY NumbersOf
<1>2. /\ TruncatedQuotient(a, b) = Quotient(a, b)
      /\ a - b * TruncatedQuotient(a, b) = Remainder(a, b)
  BY <1>1, QuotientIsTruncated
<1>3. Mathematical(op, a, b) = IF op = "div" THEN Quotient(a, b) ELSE Remainder(a, b)
  BY <1>2 DEF Mathematical
<1>4. CASE a = MinSigned(T) /\ b = -1
  <2>1. /\ MaxSigned(T) \in Nat /\ a = -MaxSigned(T) - 1
    BY <1>4, InHostRange
  <2>2. Magnitude(a) = MaxSigned(T) + 1 /\ Magnitude(b) = 1 /\ a < 0 /\ b < 0
    <3>1. \A t \in Nat : -t - 1 < 0 /\ -(-t - 1) = t + 1
      OBVIOUS
    <3>2. \A n \in Int : n + 1 = 0 => n < 0 /\ -n = 1
      OBVIOUS
    <3>3. b < 0 /\ -b = 1
      <4>1. b + 1 = 0
        BY <1>4
      <4> QED
        BY <4>1, <3>2, <1>1
    <3>4. a < 0 /\ -a = MaxSigned(T) + 1
      BY <2>1, <3>1, Zenon
    <3> QED
      BY <3>3, <3>4 DEF Magnitude
  <2>3. \A n \in Int : n \div 1 = n
    OBVIOUS
  <2>4. Quotient(a, b) = MaxSigned(T) + 1
    BY <2>1, <2>2, <2>3 DEF Quotient
  <2>5. Remainder(a, b) = 0
    BY <2>1, <2>4, <1>4 DEF Remainder
  <2>6. MaxSigned(T) + 1 \notin Numbers(T) /\ 0 \in Numbers(T)
    BY <2>1, NumbersOf DEF Numbers
  <2>7. Exact(T, 0) = Yields(Make(T, 0))
    BY MadeIsExact
  <2> QED
    BY <2>4, <2>5, <2>6, <2>7, <1>3, <1>4 DEF Divide, Checked
<1>5. CASE ~(a = MinSigned(T) /\ b = -1)
  <2>1. /\ Quotient(a, b) \in Int /\ SignedInRange(Quotient(a, b), T)
        /\ Remainder(a, b) \in Int /\ SignedInRange(Remainder(a, b), T)
    BY <1>1, <1>5, QuotientsInRange
  <2>2. \A v \in Int : SignedInRange(v, T) => InRange(T, v) = Checked(T, v)
    <3> TAKE v \in Int
    <3>1. SignedInRange(v, T) => Defined(v)
      BY NumberIsDefined
    <3> QED
      BY <3>1, InRangeIsExact DEF Checked, Exact
  <2>3. Divide(op, T, a, b) = InRange(T, IF op = "div" THEN Quotient(a, b) ELSE Remainder(a, b))
    BY <1>5 DEF Divide
  <2>4. CASE op = "div"
    BY <2>1, <2>2, <2>3, <2>4, <1>3
  <2>5. CASE op = "mod"
    BY <2>1, <2>2, <2>3, <2>5, <1>3
  <2> QED
    BY <2>4, <2>5
<1> QED
  BY <1>4, <1>5

LEMMA SignedIsExact ==
    ASSUME NEW T \in Types, T \in Signed, NEW op \in ArithOps, NEW x \in Int, NEW y \in Int
    PROVE  LET a == NumberOf(T, x)
               b == NumberOf(T, y)
               v == Mathematical(op, a, b)
           IN  /\ op \in {"div", "mod"} =>
                    SignedArith(op, T, "strict", x, y) =
                        IF b = 0 THEN Fails("division by zero") ELSE Checked(T, v)
               /\ op \notin {"div", "mod"} =>
                    /\ SignedArith(op, T, "strict", x, y) = Checked(T, v)
                    /\ SignedArith(op, T, "wrap", x, y) = Exact(T, v)
<1> DEFINE a == NumberOf(T, x)
           b == NumberOf(T, y)
<1>1. /\ a \in Numbers(T) /\ b \in Numbers(T)
      /\ BitsToSigned(T, x) = a /\ BitsToSigned(T, y) = b
  BY NumberIsCompared DEF Compared
<1> HIDE DEF a, b
<1>2. CASE op \in {"div", "mod"}
  <2>1. SignedArith(op, T, "strict", x, y) = Divide(op, T, a, b)
    BY <1>1, <1>2 DEF SignedArith
  <2>2. b # 0 => Divide(op, T, a, b) = Checked(T, Mathematical(op, a, b))
    BY <1>1, <1>2, DivisionIsChecked
  <2>3. b = 0 => Divide(op, T, a, b) = Fails("division by zero")
    BY DEF Divide
  <2> QED
    BY <2>1, <2>2, <2>3, <1>2 DEF a, b
<1>3. CASE op \notin {"div", "mod"}
  <2>1. /\ Yields(Make(T, (ToUnsigned(T, a) + ToUnsigned(T, b)) % HostModulus)) = Exact(T, a + b)
        /\ Yields(Make(T, (ToUnsigned(T, a) - ToUnsigned(T, b)) % HostModulus)) = Exact(T, a - b)
        /\ WrapMul(T, a, b) = Exact(T, a * b)
    BY <1>1, WrappedIsExact
  <2>2. /\ Strict(T, AddOverflows(a, b), a + b) = Checked(T, a + b)
        /\ Strict(T, SubOverflows(a, b), a - b) = Checked(T, a - b)
        /\ Strict(T, MulOverflows(a, b), a * b) = Checked(T, a * b)
    BY <1>1, StrictIsChecked
  <2>3. CASE op = "add"
    BY <2>1, <2>2, <2>3, <1>1 DEF SignedArith, Mathematical, a, b
  <2>4. CASE op = "sub"
    BY <2>1, <2>2, <2>4, <1>1 DEF SignedArith, Mathematical, a, b
  <2>5. CASE op = "mul"
    BY <2>1, <2>2, <2>5, <1>1 DEF SignedArith, Mathematical, a, b
  <2> QED
    BY <2>3, <2>4, <2>5, <1>3 DEF ArithOps
<1> QED
  BY <1>2, <1>3 DEF a, b

-----------------------------------------------------------------------------
(* Unsigned arithmetic. *)
LEMMA UnsignedIsExact ==
    ASSUME NEW T \in Types, T \notin Signed, NEW op \in ArithOps, NEW x \in Int, NEW y \in Int
    PROVE  LET a == NumberOf(T, x)
               b == NumberOf(T, y)
           IN  UnsignedArith(op, T, x, y) =
                    IF op \in {"div", "mod"} /\ b = 0 THEN Fails("division by zero")
                    ELSE Exact(T, Mathematical(op, a, b))
<1> DEFINE a == NumberOf(T, x)
           b == NumberOf(T, y)
<1>1. /\ a \in Nat /\ b \in Nat /\ a < HostModulus /\ HostModulus \in Nat
      /\ ToUnsigned(T, x) = a /\ ToUnsigned(T, y) = b
  BY NumberIsCompared, NumbersOf, Moduli DEF Compared
<1> HIDE DEF a, b
<1>2. CASE op = "add"
  <2>1. a + b \in Int
    BY <1>1
  <2> QED
    BY <2>1, <1>1, <1>2, MadeIsExact DEF UnsignedArith, Mathematical, a, b
<1>3. CASE op = "sub"
  <2>1. a - b \in Int
    BY <1>1
  <2> QED
    BY <2>1, <1>1, <1>3, MadeIsExact DEF UnsignedArith, Mathematical, a, b
<1>4. CASE op = "mul"
  <2>1. a * b \in Int
    BY <1>1
  <2>2. LowProduct(a, b) = (a * b) % HostModulus
    BY <1>1, LowProductIsExact
  <2> QED
    BY <2>1, <2>2, <1>1, <1>4, MadeIsExact DEF UnsignedArith, Mathematical, a, b
<1>5. CASE op \in {"div", "mod"} /\ b # 0
  <2>1. Quotient(a, b) = a \div b /\ b \in Nat \ {0} /\ a \in Int /\ b \in Int
    BY <1>1, <1>5 DEF Quotient, Magnitude
  <2>2. a \div b \in Int /\ a % b = a - b * (a \div b) /\ a % b \in Int
    <3>1. a \in Int /\ b \in Nat \ {0}
      BY <2>1
    <3> QED
      BY <3>1, Euclid, Remainders
  <2>3. /\ TruncatedQuotient(a, b) = Quotient(a, b)
        /\ a - b * TruncatedQuotient(a, b) = a % b
    <3>1. -HostModulus < a
      BY <1>1
    <3> QED
      BY <3>1, <2>1, <2>2, <1>1, <1>5, QuotientIsTruncated DEF Remainder
  <2>4. /\ Yields(Make(T, a \div b)) = Exact(T, a \div b)
        /\ Yields(Make(T, a % b)) = Exact(T, a % b)
    BY <2>2, MadeIsExact
  <2> QED
    BY <2>1, <2>3, <2>4, <1>1, <1>5 DEF UnsignedArith, Mathematical, a, b
<1>6. CASE op \in {"div", "mod"} /\ b = 0
  BY <1>1, <1>6 DEF UnsignedArith, a, b
<1> QED
  BY <1>2, <1>3, <1>4, <1>5, <1>6 DEF ArithOps

-----------------------------------------------------------------------------
(* Absolute value and negation: of MIN there is none. *)
LEMMA NegatedBits ==
    ASSUME NEW m \in Nat \ {0}, NEW a \in Int, NEW bits, bits = a % m
    PROVE  (IF bits = 0 THEN 0 ELSE (m - 1 - bits + 1) % m) = (-a) % m
<1>1. bits \in 0 .. m - 1 /\ bits \in Int /\ 0 \in 0 .. m - 1 /\ 0 % m = 0
  <2>1. 0 \in 0 .. m - 1 /\ 0 \in Int
    OBVIOUS
  <2> QED
    BY <2>1, Remainders, Division
<1>2. (0 - bits) % m = (0 - a) % m
  <2> DEFINE z == 0
  <2>1. z \in Int
    OBVIOUS
  <2> HIDE DEF z
  <2>2. ((z % m) - (a % m)) % m = (z - a) % m
    BY <2>1, ModOfOperations
  <2> QED
    BY <2>2, <1>1 DEF z
<1>3. 0 - a = -a
  OBVIOUS
<1>4. CASE bits = 0
  <2>1. (0 - 0) % m = 0
    <3>1. 0 - 0 = 0
      OBVIOUS
    <3> QED
      BY <3>1, <1>1
  <2> QED
    BY <2>1, <1>2, <1>3, <1>4
<1>5. CASE bits # 0
  <2> DEFINE n == m - 1 - bits + 1
             k == 0 - bits
             j == 1
  <2>1. k \in Int /\ j \in Int /\ n = k + m * j
    BY <1>1
  <2> HIDE DEF n, k, j
  <2>2. n % m = k % m
    BY <2>1, SameRemainder
  <2>3. n % m = (-a) % m
    BY <2>2, <1>2, <1>3 DEF k
  <2> QED
    BY <2>3, <1>5 DEF n
<1> QED
  BY <1>4, <1>5

LEMMA UnaryIsExact ==
    ASSUME NEW T \in Types, NEW op \in UnaryOps, NEW mode \in {"strict", "wrap"},
           NEW x \in Int, NEW b
    PROVE  Unary(op, T, mode, x) = UnaryResult(op, T, mode, NumberOf(T, x), b)
<1> DEFINE a == NumberOf(T, x)
           m == Modulus(T)
           bits == ToUnsigned(T, x)
           v == IF op = "abs" THEN Magnitude(a) ELSE -a
<1>1. SUFFICES Unary(op, T, mode, x) =
                    IF mode = "wrap" /\ (op # "neg" \/ T \notin Signed) THEN Fails("mode mismatch")
                    ELSE IF T \in Signed /\ mode = "strict" THEN Checked(T, v)
                    ELSE Exact(T, v)
  <2>1. Mathematical(op, a, b) = v
    BY DEF Mathematical, UnaryOps
  <2> QED
    BY <2>1 DEF UnaryResult
<1>2. /\ a \in Numbers(T) /\ a \in Int /\ a % m = bits /\ m \in Nat \ {0}
      /\ a = Compared(T, bits)
  BY NumberIsCompared, Moduli DEF ToUnsigned
<1>3. T \in Signed => BitsToSigned(T, bits) = a
  BY <1>2 DEF Compared
<1>4. T \notin Signed => a = bits /\ a \in Nat
  BY <1>2, NumbersOf
<1>5. (IF bits = 0 THEN 0 ELSE (m - 1 - bits + 1) % m) = BitsOf(T, -a)
  BY <1>2, NegatedBits DEF BitsOf
<1>6. v \in Int
  BY <1>2 DEF Magnitude
<1> HIDE DEF a, m, bits
<1>7. CASE mode = "wrap" /\ (op # "neg" \/ T \notin Signed)
  BY <1>7 DEF Unary
<1>8. CASE T \in Signed /\ mode = "strict"
  <2>1. Unary(op, T, mode, x) =
          IF a = MinSigned(T) THEN Fails("overflow")
          ELSE IF ~Defined(-a) THEN Fails("undefined")
          ELSE Yields([type |-> T, bits |-> SignedToBits(T, v)])
    BY <1>3, <1>8 DEF Unary, bits
  <2>2. /\ MaxSigned(T) \in Nat /\ MinSigned(T) = -MaxSigned(T) - 1
        /\ Numbers(T) = MinSigned(T) .. MaxSigned(T)
    BY <1>8, InHostRange DEF Numbers
  <2>3. CASE a = MinSigned(T)
    <3>1. -a = MaxSigned(T) + 1 /\ a < 0
      BY <2>2, <2>3
    <3>2. v = MaxSigned(T) + 1
      BY <3>1 DEF Magnitude
    <3>3. v \notin Numbers(T)
      BY <2>2, <3>2
    <3> QED
      BY <2>1, <2>3, <3>3, <1>8 DEF Checked, a
  <2>4. CASE a # MinSigned(T)
    <3>1. -a \in Numbers(T) /\ -a \in Int
      BY <2>2, <2>4, <1>2
    <3>2. Defined(-a)
      BY <3>1, <1>8, NumbersOf
    <3>3. v \in Numbers(T)
      BY <3>1, <1>2 DEF Magnitude
    <3>4. SignedToBits(T, v) = BitsOf(T, v)
      BY <1>6, HostRemainder DEF BitsOf
    <3> HIDE DEF v
    <3>5. Unary(op, T, mode, x) = Exact(T, v)
      BY <2>1, <2>4, <3>2, <3>4 DEF Exact
    <3> QED
      BY <3>3, <3>5, <1>8 DEF Checked, a
  <2> QED
    BY <2>3, <2>4
<1>9. CASE T \in Signed /\ mode = "wrap" /\ op = "neg"
  <2>1. Unary(op, T, mode, x) = Yields([type |-> T, bits |-> BitsOf(T, -a)])
    BY <1>5, <1>9 DEF Unary, bits, m
  <2> QED
    BY <2>1, <1>9 DEF Exact, a
<1>10. CASE T \notin Signed /\ mode = "strict"
  <2>1. CASE op = "abs"
    <3>1. Unary(op, T, mode, x) = Yields([type |-> T, bits |-> bits])
      BY <2>1, <1>10 DEF Unary, bits
    <3>2. v = a /\ BitsOf(T, a) = bits
      BY <2>1, <1>2, <1>4, <1>10 DEF Magnitude, BitsOf, m
    <3> HIDE DEF v
    <3> QED
      BY <3>1, <3>2, <1>10 DEF Exact, a
  <2>2. CASE op = "neg"
    <3>1. Unary(op, T, mode, x) = Yields([type |-> T, bits |-> BitsOf(T, -a)])
      BY <2>2, <1>5, <1>10 DEF Unary, bits, m
    <3> QED
      BY <2>2, <3>1, <1>10 DEF Exact, a
  <2> QED
    BY <2>1, <2>2 DEF UnaryOps
<1>11. mode = "strict" \/ mode = "wrap"
  OBVIOUS
<1> QED
  BY <1>7, <1>8, <1>9, <1>10, <1>11 DEF UnaryOps

-----------------------------------------------------------------------------
(* Shifts. *)
LEMMA ShiftedIsChecked ==
    ASSUME NEW T \in Types, T \in Signed, NEW k \in Nat, k < Width[T], NEW v \in Numbers(T)
    PROVE  Strict(T, PowOverflows(v, k), v * 2^k) = Checked(T, v * 2^k)
<1> DEFINE f == 2^k
           g == 2^(HostWidth - 1)
           u == v * f
<1>1. /\ f \in Nat \ {0} /\ k < HostWidth /\ (k # 0 => f >= 2)
      /\ HostMin = -g /\ HostMax = g - 1 /\ g \in Nat \ {0} /\ HostMax \in Nat
  <2>1. k # 0 => 2^1 <= 2^k
    <3>1. k # 0 => 1 \in 0 .. HostWidth /\ k \in 0 .. HostWidth /\ 1 <= k
      BY Moduli
    <3> QED
      BY <3>1, PowersGrow
  <2>2. 2^1 = 2
    BY PowersAssumption
  <2>3. f \in Nat \ {0} /\ k < HostWidth
    BY ShiftPowers
  <2> HIDE DEF f
  <2>4. k # 0 => f >= 2
    BY <2>1, <2>2, <2>3 DEF f
  <2> QED
    BY <2>3, <2>4, Moduli, InHostRange DEF HostMin, HostMax
<1>2. v \in Int /\ Defined(v)
  BY NumbersOf
<1> HIDE DEF f, g
<1>3. u \in Int /\ (-v) * f = -u
  BY <1>1, <1>2, Signs
<1> HIDE DEF u
<1>4. PowOverflows(v, k) \in BOOLEAN
  BY DEF PowOverflows
<1>5. ~PowOverflows(v, k) => Defined(u)
  BY <1>2, ShiftedDefined DEF u, f
<1>6. PowOverflows(v, k) => ~Defined(u)
  <2> SUFFICES ASSUME PowOverflows(v, k) PROVE ~Defined(u)
    OBVIOUS
  <2>1. /\ k # 0 /\ v # 0
        /\ \/ v > 0 /\ v > HostMax \div f
           \/ v < 0 /\ v = HostMin
           \/ v < 0 /\ -v > g \div f
    <3>1. /\ k > 0 /\ v # 0
          /\ \/ k >= HostWidth
             \/ v > 0 /\ v > HostMax \div f
             \/ v = HostMin
             \/ v < 0 /\ -v > g \div f
      BY DEF PowOverflows, f, g
    <3>2. ~(k >= HostWidth) /\ (k > 0 => k # 0)
      BY <1>1, WidthsAssumption
    <3>3. v = HostMin => v < 0
      BY <1>1
    <3> QED
      BY <3>1, <3>2, <3>3, Zenon
  <2>2. CASE v > 0 /\ v > HostMax \div f
    <3>1. v \in Nat
      BY <2>2, <1>2
    <3>2. v * f > HostMax
      BY <3>1, <2>2, <1>1, AboveQuotient
    <3> QED
      BY <3>2, <1>1, <1>3 DEF Defined, u
  <2>3. CASE v < 0 /\ -v > g \div f
    <3>1. -v \in Nat
      BY <2>3, <1>2
    <3>2. (-v) * f > g
      BY <3>1, <2>3, <1>1, AboveQuotient
    <3> QED
      BY <3>2, <1>1, <1>3 DEF Defined
  <2>4. CASE v = HostMin
    <3>1. -v \in Nat /\ -v = g /\ 2 \in Nat /\ f \in Nat /\ 2 <= f
      BY <2>1, <2>4, <1>1, <1>2
    <3>2. 2 * (-v) <= f * (-v)
      BY <3>1, ProductsGrow
    <3>3. f * (-v) = (-v) * f
      BY <1>1, <1>2
    <3>4. -u >= 2 * g
      BY <3>1, <3>2, <3>3, <1>3
    <3> QED
      BY <3>4, <1>1, <1>3 DEF Defined
  <2> QED
    BY <2>1, <2>2, <2>3, <2>4
<1>7. Strict(T, PowOverflows(v, k), u) = Checked(T, u)
  BY <1>3, <1>4, <1>5, <1>6, StrictIsExact DEF Checked, Exact
<1> QED
  BY <1>7 DEF u, f

LEMMA ShiftLeftIsExact ==
    ASSUME NEW T \in Types, NEW mode \in {"strict", "wrap"}, NEW x \in Int, NEW k \in Nat
    PROVE  LET v == NumberOf(T, x) * 2^k
           IN  ShiftLeft(T, mode, x, k) =
                    IF k >= Width[T]
                    THEN IF mode = "wrap" THEN Exact(T, 0) ELSE Fails("overflow")
                    ELSE IF mode = "wrap" THEN Exact(T, v) ELSE Checked(T, v)
<1> DEFINE a == NumberOf(T, x)
           m == Modulus(T)
           bits == ToUnsigned(T, x)
           f == 2^k
<1>1. /\ a \in Numbers(T) /\ a \in Int /\ a % m = bits /\ m \in Nat \ {0}
      /\ a = Compared(T, bits) /\ bits \in 0 .. m - 1
      /\ 0 \in Numbers(T) /\ Exact(T, 0) = Yields(Make(T, 0))
  <2>1. bits \in 0 .. m - 1
    BY Operands
  <2> QED
    BY <2>1, NumberIsCompared, Moduli, NumbersOf, MadeIsExact DEF ToUnsigned
<1>2. T \in Signed => BitsToSigned(T, bits) = a
  BY <1>1 DEF Compared
<1>3. T \notin Signed => a = bits /\ a \in Nat
  BY <1>1, NumbersOf
<1> HIDE DEF a, m, bits
<1>4. CASE k >= Width[T]
  BY <1>1, <1>4 DEF ShiftLeft, ShiftedOut
<1>5. CASE ~(k >= Width[T])
  <2>1. f \in Nat \ {0} /\ k < Width[T] /\ (k = 0 => f = 1)
    <3>1. k < Width[T]
      BY <1>5, Moduli
    <3> QED
      BY <3>1, ShiftPowers
  <2> HIDE DEF f
  <2>2. a * f \in Int /\ bits * f \in Int
    BY <2>1, <1>1
  <2>3. CASE bits = 0
    <3>1. a = 0
      <4>1. 0 % m = a % m
        BY <2>3, <1>1, Division
      <4> QED
        BY <4>1, <1>1, NumbersAreUnique DEF m
    <3>2. a * f = 0
      BY <3>1, <2>1
    <3>3. ShiftLeft(T, mode, x, k) = Yields(Make(T, 0))
      BY <2>3, <1>5 DEF ShiftLeft, ShiftedOut, bits
    <3> QED
      BY <3>2, <3>3, <1>1, <1>5 DEF Checked, a, f
  <2>4. CASE bits # 0 /\ mode = "wrap"
    <3> DEFINE n == bits * f
               p == a * f
    <3>1. n % m = p % m /\ n \in Int /\ p \in Int
      <4>1. ((a % m) * f) % m = (a * f) % m
        <5>1. m \in Nat \ {0} /\ a \in Int /\ f \in Int
          BY <2>1, <1>1
        <5> QED
          BY <5>1, ModOfOperations
      <4> QED
        BY <4>1, <2>2, <1>1
    <3> HIDE DEF n, p
    <3>2. Yields(Make(T, n % HostModulus)) = Exact(T, p)
      <4>1. Make(T, n % HostModulus) = Make(T, n)
        BY <3>1, HostRemainder
      <4> QED
        BY <4>1, <3>1, MadeIsExact DEF m
    <3>3. ShiftLeft(T, mode, x, k) = Yields(Make(T, n % HostModulus))
      BY <2>4, <1>5 DEF ShiftLeft, ShiftedOut, bits, n, f
    <3> QED
      BY <3>2, <3>3, <2>4, <1>5 DEF p, a, f
  <2>5. CASE bits # 0 /\ mode = "strict" /\ T \in Signed
    <3>1. ShiftLeft(T, mode, x, k) = Strict(T, PowOverflows(a, k), a * f)
      BY <2>5, <1>2, <1>5 DEF ShiftLeft, ShiftedOut, bits, f
    <3>2. Strict(T, PowOverflows(a, k), a * f) = Checked(T, a * f)
      BY <2>1, <2>5, <1>1, ShiftedIsChecked DEF f
    <3> QED
      BY <3>1, <3>2, <2>5, <1>5 DEF a, f
  <2>6. CASE bits # 0 /\ mode = "strict" /\ T \notin Signed
    <3> DEFINE top == m - 1
               p == a * f
    <3>1. ShiftLeft(T, mode, x, k) =
            IF k > 0 /\ a > top \div f THEN Fails("overflow") ELSE Yields(Make(T, p))
      BY <2>6, <1>3, <1>5 DEF ShiftLeft, ShiftedOut, bits, f, m
    <3>2. top \in Nat /\ a \in Nat /\ p \in Nat /\ Numbers(T) = 0 .. top
      BY <2>1, <2>6, <1>1, <1>3 DEF Numbers, m
    <3> HIDE DEF top
    <3>3. top \div f \in Int
      BY <2>1, <3>2, Division
    <3>4. k > 0 /\ a > top \div f <=> p \notin Numbers(T)
      <4>1. a > top \div f => p > top
        BY <2>1, <3>2, AboveQuotient
      <4>2. a <= top \div f => p <= top
        BY <2>1, <3>2, BelowQuotient
      <4>3. k = 0 => p \in Numbers(T)
        BY <2>1, <1>1
      <4>4. k = 0 \/ k > 0
        OBVIOUS
      <4> HIDE DEF p
      <4> QED
        BY <4>1, <4>2, <4>3, <4>4, <3>2, <3>3
    <3>5. Yields(Make(T, p)) = Exact(T, p)
      BY <2>2, MadeIsExact
    <3> HIDE DEF p
    <3>6. ShiftLeft(T, mode, x, k) = Checked(T, p)
      BY <3>1, <3>4, <3>5 DEF Checked
    <3> QED
      BY <3>6, <2>6, <1>5 DEF p, a, f
  <2> QED
    BY <2>3, <2>4, <2>5, <2>6
<1> QED
  BY <1>4, <1>5

LEMMA OnceMore ==
    ASSUME NEW m \in Nat \ {0}, NEW d \in Int, NEW g \in Nat
    PROVE  ((d + g) + ((m - 1) - (g - 1))) % m = d % m
<1> DEFINE s == (d + g) + ((m - 1) - (g - 1))
           j == 1
<1>1. s = d + m * j /\ j \in Int
  OBVIOUS
<1> HIDE DEF s, j
<1>2. s % m = d % m
  BY <1>1, SameRemainder
<1> QED
  BY <1>2 DEF s

(* The bits that are shifted out of a negative number are filled by its    *)
(* sign: the floor of the quotient.                                        *)
LEMMA FilledQuotient ==
    ASSUME NEW f \in Nat \ {0}, NEW g \in Nat \ {0}, NEW m, m = f * g, NEW v \in Int
    PROVE  /\ m \in Nat \ {0}
           /\ ((v + m) \div f + ((m - 1) - (m - 1) \div f)) % m = (v \div f) % m
<1>1. m \in Nat \ {0}
  <2>1. f * g \in Nat \ {0}
    OBVIOUS
  <2> QED
    BY <2>1
<1>2. (v + m) \div f = v \div f + g
  BY ModPlus
<1>3. (m - 1) \div f = g - 1
  <2> DEFINE n == m - 1
             q == g - 1
             r == f - 1
  <2>1. n \in Int /\ q \in Int /\ r \in 0 .. f - 1 /\ n = f * q + r
    <3>1. f * (g - 1) = f * g - f /\ f * g \in Int
      OBVIOUS
    <3> QED
      BY <3>1
  <2> HIDE DEF n, q, r
  <2>2. n \div f = q
    BY <2>1, Unique
  <2> QED
    BY <2>2 DEF n, q
<1> DEFINE d == v \div f
<1>4. d \in Int
  BY Euclid
<1> HIDE DEF d
<1>5. ((d + g) + ((m - 1) - (g - 1))) % m = d % m
  BY <1>1, <1>4, OnceMore
<1> QED
  BY <1>1, <1>2, <1>3, <1>5 DEF d

LEMMA ShiftRightIsExact ==
    ASSUME NEW T \in Types, NEW x \in Int, NEW k \in Nat
    PROVE  ShiftRight(T, x, k) = IF k >= Width[T] THEN Exact(T, 0)
                                 ELSE Exact(T, NumberOf(T, x) \div 2^k)
<1> DEFINE a == NumberOf(T, x)
           m == Modulus(T)
           bits == ToUnsigned(T, x)
           f == 2^k
           g == 2^(Width[T] - k)
           mask == m - 1
           fill == IF T \in Signed /\ BitsToSigned(T, bits) < 0 THEN mask - mask \div f ELSE 0
<1>1. /\ a \in Numbers(T) /\ a \in Int /\ m \in Nat \ {0}
      /\ a = Compared(T, bits) /\ bits \in 0 .. m - 1 /\ bits % m = bits
      /\ Exact(T, 0) = Yields(Make(T, 0))
  <2>1. bits \in 0 .. m - 1 /\ m \in Nat \ {0}
    BY Operands, Moduli
  <2>2. bits \in Int
    BY <2>1
  <2>3. bits % m = bits
    BY <2>1, <2>2, Division
  <2> QED
    BY <2>1, <2>3, NumberIsCompared, MadeIsExact DEF ToUnsigned
<1>2. T \in Signed => BitsToSigned(T, bits) = a
  BY <1>1 DEF Compared
<1>3. a = IF T \in Signed /\ a < 0 THEN bits - m ELSE bits
  <2>1. CASE T \in Signed
    <3>1. a = IF bits >= 2^(Width[T] - 1) THEN bits - m ELSE bits
      <4>1. ToUnsigned(T, bits) = bits
        BY <1>1 DEF ToUnsigned
      <4> QED
        BY <4>1, <1>2, <2>1 DEF BitsToSigned
    <3> HIDE DEF a, m, bits
    <3>2. bits - m < 0 /\ ~(bits < 0)
      BY <1>1
    <3> QED
      BY <3>1, <3>2, <2>1
  <2>2. CASE T \notin Signed
    BY <2>2, <1>1 DEF Compared, ToUnsigned
  <2> QED
    BY <2>1, <2>2
<1>4. ShiftRight(T, x, k) = IF k >= Width[T] THEN Yields(Make(T, 0))
                            ELSE Yields(Make(T, bits \div f + fill))
  BY DEF ShiftRight
<1>5. ASSUME ~(k >= Width[T])
      PROVE  Yields(Make(T, bits \div f + fill)) = Exact(T, a \div f)
  <2>1. f \in Nat \ {0} /\ g \in Nat \ {0} /\ m = f * g
    <3>1. /\ k \in 0 .. HostWidth /\ Width[T] - k \in 0 .. HostWidth
          /\ k + (Width[T] - k) = Width[T] /\ k + (Width[T] - k) <= HostWidth
      BY <1>5, Moduli
    <3> QED
      BY <3>1, PowersAssumption DEF Modulus
  <2> HIDE DEF f, g, m, bits, a
  <2>2. a \div f \in Int
    BY <2>1, <1>1, Euclid
  <2>3. CASE T \in Signed /\ a < 0
    <3>1. fill = mask - mask \div f /\ bits = a + m
      BY <2>3, <1>1, <1>2, <1>3
    <3>2. ((a + m) \div f + (mask - mask \div f)) % m = (a \div f) % m
      BY <2>1, <1>1, FilledQuotient
    <3>3. (bits \div f + fill) % m = (a \div f) % m
      BY <3>1, <3>2
    <3> QED
      BY <3>3, <2>2, MadeIsExact DEF m
  <2>4. CASE ~(T \in Signed /\ a < 0)
    <3>1. fill = 0 /\ bits = a
      BY <2>4, <1>2, <1>3
    <3>2. bits \div f + fill = a \div f
      BY <3>1, <2>2
    <3> QED
      BY <3>2, <2>2, MadeIsExact
  <2> QED
    BY <2>3, <2>4
<1> QED
  BY <1>1, <1>4, <1>5

-----------------------------------------------------------------------------
(* The operations of the program, and the standard's.                      *)
Standard(i, a) ==
    IF StandardError(i, a) # None THEN Fails(StandardError(i, a))
    ELSE Yields([type |-> i.type, bits |-> StandardBits(i, a)])

LEMMA ErrorsAreNot ==
    /\ Errors = {"mode mismatch", "type mismatch", "bitcast width", "overflow",
                 "division by zero", "negative shift count", "cast overflow"}
    /\ None \notin Errors
BY NoneAssumption DEF Errors, RuntimeErrors, StaticErrors

LEMMA StandardOfArith ==
    ASSUME NEW i \in Instrs, i.op \in ArithOps \cup UnaryOps, NEW a
    PROVE  LET b == NumberOf(i.type, i.other)
           IN  /\ i.op \in ArithOps => Standard(i, a) = ArithResult(i.op, i.type, i.mode, a, b)
               /\ i.op \in UnaryOps => Standard(i, a) = UnaryResult(i.op, i.type, i.mode, a, b)
<1> DEFINE b == NumberOf(i.type, i.other)
           v == Mathematical(i.op, a, b)
<1>1. i.op \notin ShiftOps /\ i.op # "shl" /\ i.op # "shr"
  BY DEF ArithOps, UnaryOps, ShiftOps
<1>2. "mode mismatch" # None /\ "division by zero" # None /\ "overflow" # None
  BY ErrorsAreNot
<1>3. StandardError(i, a) =
        IF i.mode = "wrap" /\ ~(i.op \in {"add", "sub", "mul", "neg"} /\ i.type \in Signed)
        THEN "mode mismatch"
        ELSE IF i.op \in {"div", "mod"} /\ b = 0 THEN "division by zero"
        ELSE IF i.mode = "wrap" \/ i.type \notin Signed \/ v \in Numbers(i.type) THEN None
        ELSE "overflow"
  BY <1>1 DEF StandardError
<1>4. StandardBits(i, a) = BitsOf(i.type, v)
  BY <1>1 DEF StandardBits
<1> HIDE DEF b, v
<1>5. Standard(i, a) =
        IF i.mode = "wrap" /\ ~(i.op \in {"add", "sub", "mul", "neg"} /\ i.type \in Signed)
        THEN Fails("mode mismatch")
        ELSE IF i.op \in {"div", "mod"} /\ b = 0 THEN Fails("division by zero")
        ELSE IF i.mode = "wrap" \/ i.type \notin Signed THEN Exact(i.type, v)
        ELSE Checked(i.type, v)
  BY <1>2, <1>3, <1>4 DEF Standard, Exact, Checked
<1>6. i.mode \in {"strict", "wrap"}
  BY DEF Instrs
<1>7. ASSUME i.op \in ArithOps PROVE Standard(i, a) = ArithResult(i.op, i.type, i.mode, a, b)
  <2>1. i.op \in {"add", "sub", "mul", "neg"} <=> i.op \notin {"div", "mod"}
    BY <1>7 DEF ArithOps
  <2> QED
    BY <2>1, <1>5 DEF ArithResult, v
<1>8. ASSUME i.op \in UnaryOps PROVE Standard(i, a) = UnaryResult(i.op, i.type, i.mode, a, b)
  <2>1. i.op \in {"add", "sub", "mul", "neg"} <=> i.op = "neg"
    BY <1>8 DEF UnaryOps
  <2>2. i.op \notin {"div", "mod"}
    BY <1>8 DEF UnaryOps
  <2> QED
    BY <2>1, <2>2, <1>5, <1>6 DEF UnaryResult, v
<1> QED
  BY <1>7, <1>8 DEF b

LEMMA StandardOfShift ==
    ASSUME NEW i \in Instrs, i.op \in ShiftOps, NEW a
    PROVE  Standard(i, a) = ShiftResult(i.op, i.type, i.mode, a, NumberOf(i.type, i.other))
<1> DEFINE T == i.type
           b == NumberOf(T, i.other)
           v == Mathematical(i.op, a, b)
<1>1. i.op \notin {"div", "mod"} /\ (i.op = "shl" \/ i.op = "shr")
  BY DEF ShiftOps
<1>2. "mode mismatch" # None /\ "negative shift count" # None /\ "overflow" # None
  BY ErrorsAreNot
<1>3. v = IF i.op = "shl" THEN a * 2^b ELSE a \div 2^b
  BY <1>1 DEF Mathematical
<1>4. T \in Types /\ BitsOf(T, 0) = 0
  BY MadeIsExact DEF Instrs
<1>5. StandardError(i, a) =
        IF i.mode = "wrap" /\ i.op # "shl" THEN "mode mismatch"
        ELSE IF b < 0 THEN "negative shift count"
        ELSE IF i.op = "shl" /\ b >= Width[T] THEN IF i.mode = "wrap" THEN None ELSE "overflow"
        ELSE IF i.mode = "wrap" \/ i.op = "shr" \/ v \in Numbers(T) THEN None ELSE "overflow"
  BY <1>1 DEF StandardError
<1>6. StandardBits(i, a) = IF b >= Width[T] THEN 0 ELSE BitsOf(T, v)
  BY DEF StandardBits
<1> HIDE DEF b, v, T
<1>7. Standard(i, a) =
        IF i.mode = "wrap" /\ i.op # "shl" THEN Fails("mode mismatch")
        ELSE IF b < 0 THEN Fails("negative shift count")
        ELSE IF b >= Width[T]
        THEN IF i.op = "shl" /\ i.mode # "wrap" THEN Fails("overflow") ELSE Exact(T, 0)
        ELSE IF i.op = "shr" \/ i.mode = "wrap" THEN Exact(T, v) ELSE Checked(T, v)
  BY <1>1, <1>2, <1>4, <1>5, <1>6 DEF Standard, Exact, Checked, T
<1> QED
  BY <1>1, <1>3, <1>7 DEF ShiftResult, b, T

LEMMA ArithIsExact ==
    ASSUME NEW T \in Types, NEW op \in ArithOps, NEW mode \in {"strict", "wrap"},
           NEW x \in Int, NEW y \in Int
    PROVE  Arith(op, T, mode, x, y) = ArithResult(op, T, mode, NumberOf(T, x), NumberOf(T, y))
<1> DEFINE b == NumberOf(T, y)
           v == Mathematical(op, NumberOf(T, x), b)
<1>1. CASE T \in Signed
  <2>1. /\ op \in {"div", "mod"} =>
              SignedArith(op, T, "strict", x, y) =
                  IF b = 0 THEN Fails("division by zero") ELSE Checked(T, v)
        /\ op \notin {"div", "mod"} =>
              /\ SignedArith(op, T, "strict", x, y) = Checked(T, v)
              /\ SignedArith(op, T, "wrap", x, y) = Exact(T, v)
    BY <1>1, SignedIsExact
  <2>2. mode = "strict" \/ mode = "wrap"
    OBVIOUS
  <2> HIDE DEF b, v
  <2> QED
    BY <2>1, <2>2, <1>1 DEF Arith, ArithResult, b, v
<1>2. CASE T \notin Signed
  <2>1. UnsignedArith(op, T, x, y) =
          IF op \in {"div", "mod"} /\ b = 0 THEN Fails("division by zero") ELSE Exact(T, v)
    BY <1>2, UnsignedIsExact
  <2> HIDE DEF b, v
  <2> QED
    BY <2>1, <1>2 DEF Arith, ArithResult, b, v
<1> QED
  BY <1>1, <1>2

LEMMA ShiftIsExact ==
    ASSUME NEW T \in Types, NEW op \in ShiftOps, NEW mode \in {"strict", "wrap"},
           NEW x \in Int, NEW y \in Int
    PROVE  Shift(op, T, mode, x, y) = ShiftResult(op, T, mode, NumberOf(T, x), NumberOf(T, y))
<1> DEFINE a == NumberOf(T, x)
           b == NumberOf(T, y)
<1>1. ShiftCount(T, y) = b /\ b \in Int
  BY NumberIsCompared DEF ShiftCount, Compared
<1> HIDE DEF a, b
<1>2. op = "shl" \/ op = "shr"
  BY DEF ShiftOps
<1>3. Shift(op, T, mode, x, y) =
        IF mode = "wrap" /\ op # "shl" THEN Fails("mode mismatch")
        ELSE IF b < 0 THEN Fails("negative shift count")
        ELSE IF op = "shl" THEN ShiftLeft(T, mode, x, b)
        ELSE ShiftRight(T, x, b)
  BY <1>1 DEF Shift
<1>4. ~(b < 0) =>
        /\ ShiftLeft(T, mode, x, b) =
              IF b >= Width[T] THEN IF mode = "wrap" THEN Exact(T, 0) ELSE Fails("overflow")
              ELSE IF mode = "wrap" THEN Exact(T, a * 2^b) ELSE Checked(T, a * 2^b)
        /\ ShiftRight(T, x, b) = IF b >= Width[T] THEN Exact(T, 0) ELSE Exact(T, a \div 2^b)
  <2>1. ~(b < 0) => b \in Nat
    BY <1>1
  <2> QED
    BY <2>1, ShiftLeftIsExact, ShiftRightIsExact DEF a
<1>5. Shift(op, T, mode, x, y) = ShiftResult(op, T, mode, a, b)
  BY <1>2, <1>3, <1>4 DEF ShiftResult
<1> QED
  BY <1>5 DEF a, b

LEMMA NumberApplied ==
    ASSUME NEW i \in Instrs, i.op \in ArithOps \cup UnaryOps \cup ShiftOps, NEW x \in Int
    PROVE  Apply(i, Make(i.type, x)) = Standard(i, NumberOf(i.type, x))
<1> DEFINE s == Make(i.type, x)
           a == NumberOf(i.type, x)
<1>1. /\ i.type \in Types /\ i.mode \in {"strict", "wrap"} /\ i.other \in Int
  BY Moduli DEF Instrs
<1>2. s.bits \in Int /\ NumberOf(i.type, s.bits) = a
  BY <1>1, NumberOfMade
<1> HIDE DEF s, a
<1>3. CASE i.op \in ArithOps
  <2>1. Apply(i, s) = Arith(i.op, i.type, i.mode, s.bits, i.other)
    BY <1>3 DEF Apply, Conversions, ArithOps, UnaryOps, BitOps, ShiftOps, CompareOps
  <2> QED
    BY <2>1, <1>1, <1>2, <1>3, ArithIsExact, StandardOfArith DEF s, a
<1>4. CASE i.op \in UnaryOps
  <2>1. Apply(i, s) = Unary(i.op, i.type, i.mode, s.bits)
    BY <1>4 DEF Apply, Conversions, ArithOps, UnaryOps, BitOps, ShiftOps, CompareOps
  <2> DEFINE b == NumberOf(i.type, i.other)
  <2>2. Unary(i.op, i.type, i.mode, s.bits) = UnaryResult(i.op, i.type, i.mode, a, b)
    <3> HIDE DEF b
    <3> QED
      BY <1>1, <1>2, <1>4, UnaryIsExact
  <2>3. Standard(i, a) = UnaryResult(i.op, i.type, i.mode, a, b)
    BY <1>4, StandardOfArith
  <2> QED
    BY <2>1, <2>2, <2>3 DEF s, a
<1>5. CASE i.op \in ShiftOps
  <2>1. Apply(i, s) = Shift(i.op, i.type, i.mode, s.bits, i.other)
    BY <1>5 DEF Apply, Conversions, ArithOps, UnaryOps, BitOps, ShiftOps, CompareOps
  <2> QED
    BY <2>1, <1>1, <1>2, <1>5, ShiftIsExact, StandardOfShift DEF s, a
<1> QED
  BY <1>3, <1>4, <1>5

-----------------------------------------------------------------------------
(* Comparisons and logic. *)
LEMMA TruthOf ==
    ASSUME NEW b
    PROVE  Yields(Truth(b)) = Yields([type |-> Bool, bits |-> IF b THEN 1 ELSE 0])
BY SmallIsItself DEF Truth, Types

LEMMA OrderApplied ==
    ASSUME NEW i \in Instrs, i.op \in CompareOps, NEW x \in Int
    PROVE  LET a == NumberOf(i.type, x)
               b == NumberOf(i.type, i.other)
               holds == \/ a = b /\ i.op \in {"eq", "le", "ge"}
                        \/ a < b /\ i.op \in {"lt", "le", "ne"}
                        \/ a > b /\ i.op \in {"gt", "ge", "ne"}
           IN  Apply(i, Make(i.type, x)) = Yields([type |-> Bool, bits |-> IF holds THEN 1 ELSE 0])
<1> DEFINE s == Make(i.type, x)
           a == NumberOf(i.type, x)
           b == NumberOf(i.type, i.other)
           holds == \/ a = b /\ i.op \in {"eq", "le", "ge"}
                    \/ a < b /\ i.op \in {"lt", "le", "ne"}
                    \/ a > b /\ i.op \in {"gt", "ge", "ne"}
<1>1. i.type \in Types /\ i.other \in Int
  BY Moduli DEF Instrs
<1>2. /\ Compared(i.type, s.bits) = a /\ a \in Int
      /\ Compared(i.type, i.other) = b /\ b \in Int
  <2>1. s.bits \in Int /\ NumberOf(i.type, s.bits) = a
    BY <1>1, NumberOfMade
  <2> HIDE DEF s
  <2> QED
    BY <2>1, <1>1, NumberIsCompared
<1> HIDE DEF s, a, b
<1>3. Apply(i, s) = Compare(i.op, i.type, s.bits, i.other)
  BY DEF Apply, Conversions, ArithOps, UnaryOps, BitOps, ShiftOps, CompareOps
<1> DEFINE order(op) == CASE op = "eq" -> a = b [] op = "ne" -> a # b
                          [] op = "lt" -> a < b [] op = "le" -> a <= b
                          [] op = "gt" -> a > b [] op = "ge" -> a >= b
<1>4. Apply(i, s) = Yields(Truth(order(i.op)))
  BY <1>2, <1>3 DEF Compare
<1>5. order(i.op) <=> holds
  <2>1. /\ a # b <=> a < b \/ a > b
        /\ a <= b <=> a < b \/ a = b
        /\ a >= b <=> a > b \/ a = b
    BY <1>2
  <2>2. i.op \in {"eq", "ne", "lt", "le", "gt", "ge"}
    BY DEF CompareOps
  <2> QED
    BY <2>1, <2>2
<1> HIDE DEF order, holds
<1>6. Apply(i, s) = Yields([type |-> Bool, bits |-> IF order(i.op) THEN 1 ELSE 0])
  BY <1>4, TruthOf
<1>7. Apply(i, s) = Yields([type |-> Bool, bits |-> IF holds THEN 1 ELSE 0])
  BY <1>5, <1>6
<1> QED
  BY <1>7 DEF s, a, b, holds

LEMMA LogicApplied ==
    ASSUME NEW i \in Instrs, i.op \in BitOps \cup {"not"}, i.type = Bool, NEW x \in Int
    PROVE  LET a == IF x % Modulus(Bool) = 0 THEN 0 ELSE 1
               b == i.other
           IN  Apply(i, Make(Bool, x)) =
                 Yields([type |-> Bool,
                         bits |-> CASE i.op = "and" -> a * b
                                    [] i.op = "or" -> IF a + b > 0 THEN 1 ELSE 0
                                    [] i.op = "xor" -> (a + b) % 2
                                    [] i.op = "not" -> 1 - a])
<1> DEFINE s == Make(Bool, x)
           u == x % Modulus(Bool)
           a == IF u = 0 THEN 0 ELSE 1
           b == i.other
           V == CASE i.op = "and" -> a * b
                  [] i.op = "or" -> IF a + b > 0 THEN 1 ELSE 0
                  [] i.op = "xor" -> (a + b) % 2
                  [] i.op = "not" -> 1 - a
           L == CASE i.op = "and" -> u # 0 /\ b # 0
                  [] i.op = "or" -> u # 0 \/ b # 0
                  [] i.op = "xor" -> (u # 0) # (b # 0)
                  [] i.op = "not" -> u = 0
<1>1. b = 0 \/ b = 1
  <2>1. b \in 0 .. HostModulus - 1 /\ b < 2 /\ HostModulus \in Nat
    BY Moduli DEF Instrs
  <2> HIDE DEF b
  <2> QED
    BY <2>1
<1>2. s.bits = u
  BY DEF Make, ToUnsigned
<1> HIDE DEF s, u, b
<1>3. Apply(i, s) = Logic(i.op, s.bits, b)
  BY DEF Apply, Conversions, ArithOps, UnaryOps, BitOps, ShiftOps, CompareOps, b
<1>4. Apply(i, s) = Yields(Truth(L))
  BY <1>2, <1>3 DEF Logic
<1>5. V = IF L THEN 1 ELSE 0
  <2>1. i.op \in {"and", "or", "xor", "not"}
    BY DEF BitOps
  <2>2. 0 % 2 = 0 /\ 1 % 2 = 1 /\ 2 % 2 = 0
    OBVIOUS
  <2>3. CASE i.op = "and"
    BY <2>3, <1>1
  <2>4. CASE i.op = "or"
    BY <2>4, <1>1
  <2>5. CASE i.op = "xor"
    BY <2>5, <1>1, <2>2
  <2>6. CASE i.op = "not"
    BY <2>6
  <2> QED
    BY <2>1, <2>3, <2>4, <2>5, <2>6
<1> HIDE DEF L, V
<1>6. Apply(i, s) = Yields([type |-> Bool, bits |-> V])
  BY <1>4, <1>5, TruthOf
<1> QED
  BY <1>6 DEF s, u, V, b

-----------------------------------------------------------------------------
(* Arithmetic, shifts, comparisons and logic are the standard's, by the    *)
(* analyzer and by the executor, whatever the widths and whatever the      *)
(* operations before have left in the slot.                                *)
THEOREM ResultsExact == Spec => ResultsAreExact
<1> DEFINE Right == CASE instr.op \in ArithOps \cup UnaryOps \cup ShiftOps -> NumberIsExact
                      [] instr.op \in CompareOps -> OrderIsExact
                      [] instr.op \in BitOps \cup {"not"} /\ instr.type = Bool -> TruthIsExact
                      [] OTHER -> TRUE
<1>1. IInv /\ Next /\ Operating => Right
  <2> SUFFICES ASSUME IInv, Next, Operating PROVE Right
    OBVIOUS
  <2> DEFINE r == Apply(instr, Make(instr.type, slot.bits))
  <2>1. /\ instr \in Instrs /\ instr.type \in Types /\ slot.bits \in Int
        /\ \A T, b : r = Yields([type |-> T, bits |-> b]) => Result(T, b)
        /\ \A e \in Errors : r = Fails(e) => Ended(e)
    BY Outcome
  <2>2. CASE instr.op \in ArithOps \cup UnaryOps \cup ShiftOps
    <3> DEFINE a == NumberOf(instr.type, slot.bits)
               e == StandardError(instr, a)
    <3>1. r = Standard(instr, a)
      BY <2>1, <2>2, NumberApplied
    <3>2. e \in Errors \cup {None}
      BY ErrorsAreNot DEF StandardError
    <3> HIDE DEF r, e
    <3>3. e # None => Ended(e)
      BY <2>1, <3>1, <3>2 DEF Standard, e
    <3>4. e = None => Result(instr.type, StandardBits(instr, a))
      BY <2>1, <3>1 DEF Standard, e
    <3>5. NumberIsExact
      BY <3>3, <3>4 DEF NumberIsExact, Operand, e
    <3> QED
      BY <3>5, <2>2 DEF ArithOps, UnaryOps, ShiftOps, CompareOps, BitOps
  <2>3. CASE instr.op \in CompareOps
    <3>1. OrderIsExact
      BY <2>1, <2>3, OrderApplied DEF OrderIsExact, Operand
    <3> QED
      BY <3>1, <2>3 DEF ArithOps, UnaryOps, ShiftOps, CompareOps, BitOps
  <2>4. CASE instr.op \in BitOps \cup {"not"} /\ instr.type = Bool
    <3>1. TruthIsExact
      BY <2>1, <2>4, LogicApplied DEF TruthIsExact
    <3> QED
      BY <3>1, <2>4 DEF ArithOps, UnaryOps, ShiftOps, CompareOps, BitOps
  <2> QED
    BY <2>2, <2>3, <2>4
<1>2. IInv /\ [Next]_vars => [Operating => Right]_vars
  BY <1>1
<1> QED
  BY <1>2, InitHolds, StepKeeps, PTL DEF Spec, ResultsAreExact
-----------------------------------------------------------------------------
(* The inverse of a word has the other bits.                               *)
LEMMA InvertedBits ==
    ASSUME NEW u \in 0 .. HostModulus - 1, NEW k \in 0 .. HostWidth - 1
    PROVE  Bit(HostModulus - 1 - u, k) = 1 - Bit(u, k)
<1> DEFINE p == 2^k
           h == 2^(HostWidth - k - 1)
           q == u \div p
           r == u % p
<1>1. /\ k + 1 \in 0 .. HostWidth /\ HostWidth - k - 1 \in 0 .. HostWidth
      /\ (k + 1) + (HostWidth - k - 1) = HostWidth
      /\ (k + 1) + (HostWidth - k - 1) <= HostWidth
  BY WidthsAssumption
<1>2. HostModulus = 2^(k + 1) * h /\ h \in Nat \ {0}
  BY <1>1, PowersAssumption DEF HostModulus
<1>3. 2^(k + 1) = 2 * p /\ p \in Nat \ {0}
  BY Powers
<1>4. u \in Nat /\ HostModulus \in Nat
  BY Moduli, <1>2, <1>3
<1>5. q \in Nat /\ r \in 0 .. p - 1 /\ u = p * q + r
  <2> HIDE DEF p
  <2> QED
    BY <1>3, <1>4, DivMod, Zenon DEF q, r
<1> HIDE DEF p, h, q, r
<1>6. HostModulus = p * (2 * h)
  BY <1>2, <1>3
<1>7. p * (2 * h - 1 - q) = p * (2 * h) - p - p * q /\ 2 * h - 1 - q \in Int
  BY <1>2, <1>3, <1>5
<1>8. HostModulus - 1 - u = p * (2 * h - 1 - q) + (p - 1 - r) /\ p - 1 - r \in 0 .. p - 1
  <2>1. p * q \in Int /\ p * (2 * h) \in Int
    BY <1>2, <1>3, <1>5
  <2> QED
    BY <1>3, <1>5, <1>6, <1>7, <2>1
<1>9. (HostModulus - 1 - u) \div p = 2 * h - 1 - q
  <2> DEFINE n == HostModulus - 1 - u
             c == 2 * h - 1 - q
             d == p - 1 - r
  <2>1. n \in Int /\ c \in Int /\ d \in 0 .. p - 1 /\ n = p * c + d
    BY <1>4, <1>7, <1>8
  <2> HIDE DEF n, c, d
  <2>2. n \div p = c
    BY <1>3, <2>1, Unique
  <2> QED
    BY <2>2 DEF n, c
<1>10. (2 * h - 1 - q) % 2 = 1 - (q % 2)
  BY <1>2, <1>5
<1> QED
  BY <1>9, <1>10 DEF Bit, p, q

(* The bits of a bitwise operation, one by one.                            *)
LEMMA BitwiseApplied ==
    ASSUME NEW i \in Instrs, i.op \in BitOps \cup {"not"}, i.type # Bool, NEW bits \in Nat
    PROVE  \E y \in 0 .. Modulus(i.type) - 1 :
            /\ Apply(i, Make(i.type, bits)) = Yields([type |-> i.type, bits |-> y])
            /\ \A k \in Positions(i.type) :
                LET a == Bit(bits, k)
                    b == Bit(i.other, k)
                IN  Bit(y, k) = CASE i.op = "and" -> a * b
                                  [] i.op = "or" -> IF a + b > 0 THEN 1 ELSE 0
                                  [] i.op = "xor" -> (a + b) % 2
                                  [] i.op = "not" -> 1 - a
<1> DEFINE T == i.type
           x == bits % Modulus(T)
           z == i.other
<1>1. /\ T \in Types /\ z \in Nat
      /\ Width[T] \in 0 .. HostWidth /\ Modulus(T) \in Nat \ {0} /\ HostModulus \in Nat
      /\ Positions(T) \subseteq 0 .. HostWidth - 1
      /\ Modulus(T) = 2^Width[T] /\ Positions(T) = 0 .. Width[T] - 1
  <2>1. T \in Types /\ i.other \in 0 .. HostModulus - 1
    BY DEF Instrs
  <2> QED
    BY <2>1, Moduli DEF Positions, Modulus
<1>2. x \in 0 .. Modulus(T) - 1 /\ x \in Nat /\ x % Modulus(T) = x
  <2> DEFINE m == Modulus(T)
  <2>1. m \in Nat \ {0} /\ bits \in Int
    BY <1>1
  <2> HIDE DEF m
  <2>2. bits % m \in 0 .. m - 1 /\ bits % m \in Int /\ bits % m \in Nat
    BY <2>1, Remainders
  <2>3. (bits % m) % m = bits % m
    BY <2>1, <2>2, Division
  <2> QED
    BY <2>2, <2>3 DEF m
<1>3. Make(T, bits) = [type |-> T, bits |-> x] /\ Make(T, bits).bits = x
  BY DEF Make, ToUnsigned
<1> HIDE DEF T, z
<1>4. ASSUME NEW k \in Positions(T)
      PROVE  /\ Bit(x, k) = Bit(bits, k) /\ Bit(bits, k) \in {0, 1} /\ Bit(z, k) \in {0, 1}
             /\ \A n \in Nat : Bit(n % Modulus(T), k) = Bit(n, k)
  <2>1. k \in 0 .. Width[T] - 1 /\ k \in 0 .. HostWidth
    BY <1>1, WidthsAssumption
  <2>2. \A n \in Nat : Bit(n % 2^Width[T], k) = Bit(n, k)
    BY <1>1, <2>1, MaskedBits
  <2>3. \A n \in Nat : Bit(n, k) \in {0, 1}
    BY <2>1, BitOfNumber
  <2> QED
    BY <1>1, <2>2, <2>3
<1> HIDE DEF x
<1>5. CASE i.op \in BitOps
  <2> DEFINE A == {k \in Positions(T) : Bit(x, k) = 1}
             B == {k \in Positions(T) : Bit(z, k) = 1}
             S == CASE i.op = "and" -> A \cap B
                    [] i.op = "or" -> A \cup B
                    [] i.op = "xor" -> (A \cup B) \ (A \cap B)
             y == WordOf(S) % Modulus(T)
  <2>1. S \subseteq Positions(T)
    BY <1>5 DEF BitOps
  <2>2. Apply(i, Make(T, bits)) = BitwiseBinary(i.op, T, x, z)
    <3> DEFINE s == Make(T, bits)
    <3>1. s.bits = x /\ i.type = T /\ i.other = z /\ i.type # Bool
      BY <1>3 DEF T, z
    <3> HIDE DEF s
    <3>2. Apply(i, s) = BitwiseBinary(i.op, i.type, s.bits, i.other)
      BY <1>5, <3>1
         DEF Apply, Conversions, ArithOps, UnaryOps, BitOps, ShiftOps, CompareOps
    <3> QED
      BY <3>1, <3>2 DEF s
  <2>3. BitwiseBinary(i.op, T, x, z) = Yields([type |-> T, bits |-> y])
    BY DEF BitwiseBinary, Make, ToUnsigned
  <2>4. WordOf(S) \in Nat /\ \A k \in Positions(T) : Bit(WordOf(S), k) = 1 <=> k \in S
    <3> HIDE DEF S
    <3>1. S \in SUBSET (0 .. HostWidth - 1)
      BY <1>1, <2>1
    <3> QED
      BY <1>1, <3>1, WordHasBits DEF HasBits
  <2>5. y \in 0 .. Modulus(T) - 1
    <3> DEFINE n == WordOf(S)
               m == Modulus(T)
    <3> HIDE DEF S
    <3>1. n \in Int /\ m \in Nat \ {0}
      BY <1>1, <2>4
    <3> HIDE DEF n, m
    <3>2. n % m \in 0 .. m - 1
      BY <3>1, Remainders
    <3> QED
      BY <3>2 DEF n, m
  <2>6. ASSUME NEW k \in Positions(T)
        PROVE  Bit(y, k) = CASE i.op = "and" -> Bit(bits, k) * Bit(z, k)
                             [] i.op = "or" -> IF Bit(bits, k) + Bit(z, k) > 0 THEN 1 ELSE 0
                             [] i.op = "xor" -> (Bit(bits, k) + Bit(z, k)) % 2
                             [] i.op = "not" -> 1 - Bit(bits, k)
    <3> DEFINE a == Bit(bits, k)
               b == Bit(z, k)
               c == Bit(y, k)
    <3>1. a \in {0, 1} /\ b \in {0, 1} /\ (k \in A <=> a = 1) /\ (k \in B <=> b = 1)
      BY <1>4
    <3>2. c = Bit(WordOf(S), k) /\ c \in {0, 1} /\ (c = 1 <=> k \in S)
      <4>1. k \in 0 .. HostWidth
        BY <1>1, Moduli, WidthsAssumption
      <4> HIDE DEF S
      <4> QED
        BY <1>4, <2>4, <4>1, BitOfNumber
    <3> HIDE DEF a, b, c, A, B
    <3>3. CASE i.op = "and"
      <4>1. k \in S <=> a = 1 /\ b = 1
        BY <3>1, <3>3
      <4> HIDE DEF S
      <4> QED
        BY <3>1, <3>2, <3>3, <4>1 DEF a, b, c
    <3>4. CASE i.op = "or"
      <4>1. k \in S <=> a = 1 \/ b = 1
        BY <3>1, <3>4
      <4> HIDE DEF S
      <4> QED
        BY <3>1, <3>2, <3>4, <4>1 DEF a, b, c
    <3>5. CASE i.op = "xor"
      <4>1. k \in S <=> (a = 1 /\ b = 0) \/ (a = 0 /\ b = 1)
        BY <3>1, <3>5
      <4>2. 0 % 2 = 0 /\ 1 % 2 = 1 /\ 2 % 2 = 0
        OBVIOUS
      <4> HIDE DEF S
      <4> QED
        BY <3>1, <3>2, <3>5, <4>1, <4>2 DEF a, b, c
    <3> QED
      BY <1>5, <3>3, <3>4, <3>5 DEF BitOps
  <2> HIDE DEF y
  <2> QED
    BY <2>2, <2>3, <2>5, <2>6 DEF T, z
<1>6. CASE i.op = "not"
  <2> DEFINE n == HostModulus - 1 - x
             y == n % Modulus(T)
  <2>1. Apply(i, Make(T, bits)) = BitwiseNot(T, x)
    <3> DEFINE s == Make(T, bits)
    <3>1. s.bits = x /\ i.type = T /\ i.type # Bool
      BY <1>3 DEF T
    <3> HIDE DEF s
    <3>2. Apply(i, s) = BitwiseNot(i.type, s.bits)
      BY <1>6, <3>1
         DEF Apply, Conversions, ArithOps, UnaryOps, BitOps, ShiftOps, CompareOps
    <3> QED
      BY <3>1, <3>2 DEF s
  <2>2. BitwiseNot(T, x) = Yields([type |-> T, bits |-> y])
    BY <1>2 DEF BitwiseNot, Make, ToUnsigned
  <2>3. x \in 0 .. HostModulus - 1 /\ n \in Nat
    BY <1>1, <1>2, Moduli
  <2> HIDE DEF n
  <2>4. y \in 0 .. Modulus(T) - 1
    <3> DEFINE m == Modulus(T)
    <3>1. n \in Int /\ m \in Nat \ {0}
      BY <1>1, <2>3
    <3> HIDE DEF m
    <3>2. n % m \in 0 .. m - 1
      BY <3>1, Remainders
    <3> QED
      BY <3>2 DEF m
  <2>5. ASSUME NEW k \in Positions(T) PROVE Bit(y, k) = 1 - Bit(bits, k)
    <3>1. Bit(y, k) = Bit(n, k)
      BY <1>4, <2>3
    <3>2. Bit(n, k) = 1 - Bit(x, k)
      <4>1. k \in 0 .. HostWidth - 1
        BY <1>1
      <4> QED
        BY <2>3, <4>1, InvertedBits DEF n
    <3> QED
      BY <1>4, <3>1, <3>2
  <2> HIDE DEF y
  <2>6. \A k \in Positions(T) :
            Bit(y, k) = CASE i.op = "and" -> Bit(bits, k) * Bit(z, k)
                          [] i.op = "or" -> IF Bit(bits, k) + Bit(z, k) > 0 THEN 1 ELSE 0
                          [] i.op = "xor" -> (Bit(bits, k) + Bit(z, k)) % 2
                          [] i.op = "not" -> 1 - Bit(bits, k)
    BY <1>6, <2>5
  <2> QED
    BY <2>1, <2>2, <2>4, <2>6 DEF T, z
<1> QED
  BY <1>5, <1>6

(* Bitwise operations act on every bit of the type and on no other, at     *)
(* every width: in the analyzer and in the executor, on slots that hold    *)
(* the bits of any type.                                                   *)
THEOREM BitsExact == Spec => BitwiseIsExact
<1> DEFINE Bitwise == instr.op \in BitOps \cup {"not"} /\ instr.type # Bool
<1>1. IInv /\ Next /\ Operating /\ Bitwise => BitsAreExact
  <2> SUFFICES ASSUME IInv, Next, Operating, Bitwise PROVE BitsAreExact
    OBVIOUS
  <2> DEFINE r == Apply(instr, Make(instr.type, slot.bits))
  <2>1. /\ instr \in Instrs /\ instr.type \in Types
        /\ \A T, b : r = Yields([type |-> T, bits |-> b]) => Result(T, b)
    BY Outcome
  <2>2. slot.bits \in Nat
    BY DEF IInv, IsValue
  <2>3. PICK y \in 0 .. Modulus(instr.type) - 1 :
            /\ r = Yields([type |-> instr.type, bits |-> y])
            /\ \A k \in Positions(instr.type) :
                LET a == Bit(slot.bits, k)
                    b == Bit(instr.other, k)
                IN  Bit(y, k) = CASE instr.op = "and" -> a * b
                                  [] instr.op = "or" -> IF a + b > 0 THEN 1 ELSE 0
                                  [] instr.op = "xor" -> (a + b) % 2
                                  [] instr.op = "not" -> 1 - a
    BY <2>1, <2>2, BitwiseApplied
  <2>4. Result(instr.type, y)
    <3> HIDE DEF r
    <3> QED
      BY <2>1, <2>3
  <2>5. slot'.type = instr.type /\ slot'.bits = y /\ status' = status
    BY <2>4 DEF Result
  <2>6. y < Modulus(instr.type)
    BY <2>1, Moduli
  <2> QED
    BY <2>3, <2>5, <2>6 DEF BitsAreExact
<1>2. IInv /\ [Next]_vars => [Operating /\ Bitwise => BitsAreExact]_vars
  BY <1>1
<1> QED
  BY <1>2, InitHolds, StepKeeps, PTL DEF Spec, BitwiseIsExact
=============================================================================
