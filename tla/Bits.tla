-------------------------------- MODULE Bits --------------------------------
(***************************************************************************)
(* The bit puzzles of the data lab, 1_DataLab/datalab-handout/bits.c, and  *)
(* the functions they are tested against, tests.c.  A word of 32 bits is   *)
(* the set of its bits that are 1: & is \cap, | is \cup, and + is defined  *)
(* by its carries.  Signed overflow wraps (the build is not told so).  The *)
(* references are stated on the integers and on the values of floats.      *)
(***************************************************************************)
EXTENDS Integers, FiniteSets, FiniteSetsExt

Bit == 0 .. 31
W(n) == {b \in 0 .. 30 : (n \div 2 ^ b) % 2 = 1}    \* the word of n >= 0
Ones == Bit

(* The operators of C.                                                     *)
Comp(x) == Bit \ x
Not(x) == IF x = {} THEN {0} ELSE {}
Xor(x, y) == (x \cup y) \ (x \cap y)
Carry(x, y, i) == \E j \in 0 .. i - 1 : /\ j \in x \cap y
                                        /\ \A k \in j + 1 .. i - 1 : k \in x \cup y
Add(x, y) == {i \in Bit : (i \in Xor(x, y)) # Carry(x, y, i)}

(* C leaves a shift by the word size undefined; the shifts of the x86 that *)
(* is built for take their count modulo 32, so it is a shift by 0.         *)
Count(n) == n % 32
Shl(x, n) == {b + Count(n) : b \in x} \cap Bit
Shr(x, n) == {b - Count(n) : b \in x} \cap Bit       \* logical
Sar(x, n) == Shr(x, n) \cup (IF 31 \in x THEN 32 - Count(n) .. 31 ELSE {})
Neg(x) == Add(Comp(x), {0})

(* The signed value of a word, and the unsigned value of one below 2^31.   *)
Unsigned(x) == SumSet({2 ^ b : b \in x})
Value(x) == Unsigned(x \ {31}) + (IF 31 \in x THEN -2147483647 - 1 ELSE 0)
Bool(p) == IF p THEN {0} ELSE {}

----------------------------------------------------------------------------
bitXor(x, y) == Comp(x \cap y) \cap Comp(Comp(x) \cap Comp(y))

tmin == Shl({0}, 31)

isTmax(x) == Not(Xor(Add(x, {0}), Comp(x))) \cap Not(Not(Comp(x)))

allOddBits(x) == LET two == Shl(W(170), 8) \cup W(170)
                     mask == Shl(two, 16) \cup two
                 IN Not(mask \cap Comp(x))

negate(x) == Add(Comp(x), {0})

isAsciiDigit(x) == Not(Xor(Sar(x, 3), W(6))) \cup Not(Xor(Sar(x, 1), W(28)))

conditional(x, y, z) == (Neg(Not(Not(x))) \cap y) \cup (Neg(Not(x)) \cap z)

(* Mutant: the sign of the difference is used when it may have overflowed. *)
LessByDifference(x, y) == Not(Add(Add(y, Comp(x)), {0}) \cap tmin)

isLessOrEqual(x, y) ==
    LET signX == x \cap tmin
        signY == y \cap tmin
        indicator == Xor(signX, signY)
        diff == Add(Add(y, Comp(x)), {0}) \cap tmin
    IN (Not(diff) \cap Not(indicator)) \cup (Not(signY) \cap Not(Not(indicator)))

logicalNeg(x) == LET signX == x \cap tmin
                     signNegX == Neg(x) \cap tmin
                 IN Neg(Sar(Comp(signX \cup signNegX), 31))

(* One halving of howManyBits: x moves down by n if a bit above n is set.  *)
Upper(x, n) == Neg(Not(Not((0 .. n - 1) \cap Sar(x, n))))
Half(x, n) == (Upper(x, n) \cap Sar(x, n)) \cup (Comp(Upper(x, n)) \cap x)

howManyBits(x) ==
    LET signX == Neg(Sar(x, 31) \cap {0})
        x0 == (signX \cap Comp(x)) \cup (Comp(signX) \cap x)
        x16 == Half(x0, 16)
        x8 == Half(x16, 8)
        x4 == Half(x8, 4)
        x2 == Half(x4, 2)
        x1 == Half(x2, 1)
        bits == Add(Add(Add(Add(Upper(x0, 16) \cap W(16), Upper(x16, 8) \cap W(8)),
                            Upper(x8, 4) \cap W(4)), Upper(x4, 2) \cap W(2)), Upper(x2, 1) \cap {0})
    IN Add(Add(bits, x1), {0})

(* Floats: the exponent and the fraction of a word.                        *)
Exp(u) == Shr(u, 23) \cap (0 .. 7)
Frac(u) == u \cap (0 .. 22)

float_twice(uf) ==
    LET exp == Exp(uf)
        up == Add(exp, {0})
    IN IF exp = 0 .. 7 THEN uf
       ELSE IF exp = {} THEN (uf \cap {31}) \cup Shl(Bool(22 \in uf), 23) \cup (Shl(Frac(uf), 1) \cap (0 .. 22))
       ELSE (uf \cap {31}) \cup Shl(up, 23) \cup (IF up = 0 .. 7 THEN {} ELSE Frac(uf))

(* The number of bits of an unsigned word: the loop of float_i2f.          *)
Width(x) == IF x = {} THEN 0 ELSE Max(x) + 1

(* Mutant: half of the last bit is always rounded up.                      *)
RoundHalfUp(ux, n) == Sar(ux, n - 25) \cap {0}

(* Whether the 24 bits kept of n have to be rounded up.  The bits below    *)
(* the rounding bit are shifted to the top of the word, to see whether     *)
(* there are any.  A number of 25 bits has none, but the shift is then one *)
(* by 32: the number itself is seen.                                       *)
RoundUp(ux, n) == Sar(ux, n - 25) \cap {0} \cap (Not(Not(Shl(ux, 57 - n))) \cup (Shr(ux, n - 24) \cap {0}))

float_i2f(x) ==
    LET neg == 31 \in x
        ux == IF neg THEN Neg(x) ELSE x
        n == Width(ux)
        frac == IF n > 24 THEN Add(Shr(ux, n - 24), RoundUp(ux, n)) ELSE Shl(ux, 24 - n)
        exp == IF n > 24 /\ 24 \in frac THEN n + 1 ELSE n
    IN IF n = 0 THEN {}
       ELSE (x \cap {31}) \cup Shl(W(exp + 126), 23) \cup (frac \cap (0 .. 22))

float_f2i(uf) ==
    LET frac == Frac(uf) \cup {23}
        E == Unsigned(Exp(uf)) - 127
        int == IF E > 23 THEN Shl(frac, E - 23) ELSE IF E >= 0 THEN Shr(frac, 23 - E) ELSE {}
    IN IF Exp(uf) = {} THEN {} ELSE IF E > 30 THEN tmin
       ELSE IF 31 \in uf THEN Neg(int) ELSE int

----------------------------------------------------------------------------
(* tests.c.  R is the result a puzzle gave.                                *)
test_bitXor(x, y, R) == \A b \in Bit : b \in R <=> (b \in x /\ b \notin y) \/ (b \in y /\ b \notin x)
test_tmin(R) == \A b \in Bit : b \in R <=> b = 31
test_isTmax(x, R) == R = Bool(Value(x) = 2147483647)
test_allOddBits(x, R) == R = Bool(\A b \in Bit : b % 2 = 1 => b \in x)
test_negate(x, R) == IF x = {31} THEN R = x ELSE Value(R) = -Value(x)
test_isAsciiDigit(x, R) == R = Bool(48 <= Value(x) /\ Value(x) <= 57)
test_conditional(x, y, z, R) == R = IF Value(x) # 0 THEN y ELSE z
test_isLessOrEqual(x, y, R) == R = Bool(Value(x) <= Value(y))
test_logicalNeg(x, R) == R = Bool(Value(x) = 0)

(* The least width that keeps the sign: all bits from there up are equal.  *)
test_howManyBits(x, R) ==
    Value(R) = Min({n \in 1 .. 32 : \A b \in n - 1 .. 31 : (b \in x) = (31 \in x)})

(* A float denotes Mant * 2 ^ Scale, with the sign of bit 31.              *)
Infinite(u) == Exp(u) = 0 .. 7
Mant(u) == Unsigned(Frac(u)) + (IF Exp(u) = {} THEN 0 ELSE 2 ^ 23)
Scale(u) == Max({Unsigned(Exp(u)), 1}) - 150

test_float_twice(uf, R) ==
    IF Infinite(uf) THEN R = uf
    ELSE /\ (31 \in R) = (31 \in uf)
         /\ IF Scale(uf) = 104 /\ Infinite(R) THEN Frac(R) = {}
            ELSE \/ Scale(R) = Scale(uf) + 1 /\ Mant(R) = Mant(uf)
                 \/ Scale(R) = Scale(uf) /\ Mant(R) = 2 * Mant(uf)

(* The float nearest to |x|, the even one of two.                          *)
test_float_i2f(x, R) ==
    LET mag == IF Value(x) < 0 THEN Neg(x) ELSE x
        drop == Max({Width(mag) - 24, 0})
        kept == Unsigned(Shr(mag, drop))
        rest == 2 * Unsigned(mag \cap (0 .. drop - 1))
        near == IF rest > 2 ^ drop \/ (rest = 2 ^ drop /\ kept % 2 = 1) THEN kept + 1 ELSE kept
    IN /\ (31 \in R) = (Value(x) < 0)
       /\ IF mag = {} THEN R = {}
          ELSE IF Scale(R) >= 0 THEN \/ Scale(R) = drop /\ Mant(R) = near
                                     \/ Scale(R) = drop + 1 /\ 2 * Mant(R) = near
          ELSE drop = 0 /\ Mant(R) = kept * 2 ^ (-Scale(R))

(* The integer part, or the least integer for what is out of range.        *)
test_float_f2i(uf, R) ==
    LET s == Scale(uf)
        int == IF s >= 0 THEN Mant(uf) * 2 ^ s ELSE IF s <= -24 THEN 0 ELSE Mant(uf) \div 2 ^ (-s)
    IN IF s > 7 THEN R = {31} ELSE Value(R) = IF 31 \in uf THEN -int ELSE int
=============================================================================
