--------------------------------- MODULE BigInt ---------------------------------
(***************************************************************************)
(* Integers of any size in quickjs.c.  A number is a sequence of limbs, the *)
(* lowest first, in two's complement; the sign is the top bit of the last  *)
(* limb, and no limb is redundant.  A limb has LimbBits bits, 64 in the    *)
(* code: all carries, borrows and corrections occur with short ones too.   *)
(*                                                                         *)
(* The script computes, and takes what was computed last as the left       *)
(* operand of the next operation.                                          *)
(***************************************************************************)
EXTENDS Integers, Sequences, SequencesExt, Bitwise

CONSTANTS
  LimbBits,        \* JS_LIMB_BITS
  UdivThreshold,   \* UDIV1NORM_THRESHOLD
  Operands,        \* right operands: integers
  MaxExponent, MaxShift,
  MaxLimbs         \* bound: a longer result is not computed with

ASSUME BigIntAssumption ==
  /\ LimbBits \in Nat \ {0, 1} /\ Operands \subseteq Int
  /\ {UdivThreshold, MaxExponent, MaxShift, MaxLimbs} \subseteq Nat \ {0}

Base == 2 ^ LimbBits
Ones == Base - 1    \* the limb -1
Limb(n) == n % Base

VARIABLES
  left, result,    \* limbs of the left operand and of the result of the last operation
  operation,
  right            \* its right operand, the integer

bigVars == <<left, right, operation, result>>

-----------------------------------------------------------------------------
(* Loops over n limbs from the lowest: Total(i, c) is what limb i and the
   carry c add up to.  A borrow is a carry of -1. *)
Rippled(n, Total(_, _), c0) ==
  LET f[i \in 0 .. n] ==
        IF i = 0 THEN [tab |-> <<>>, carry |-> c0]
        ELSE LET t == Total(i, f[i - 1].carry)
             IN [tab |-> Append(f[i - 1].tab, t % Base), carry |-> t \div Base]
  IN f[n]
MpAdd(a, b) == Rippled(Len(b), LAMBDA i, c : a[i] + b[i] + c, 0)
MpSub(a, b) == Rippled(Len(b), LAMBDA i, c : a[i] - b[i] + c, 0)
MpNeg(a) == Rippled(Len(a), LAMBDA i, c : Ones - a[i] + c, 1).tab
MpMul1(a, b) == Rippled(Len(a), LAMBDA i, c : a[i] * b + c, 0)
MpAddMul1(r, a, b) == Rippled(Len(a), LAMBDA i, c : a[i] * b + c + r[i], 0)
MpSubMul1(r, a, b) == Rippled(Len(a), LAMBDA i, c : r[i] - a[i] * b + c, 0)
MpShl(a, shift) == Rippled(Len(a), LAMBDA i, c : a[i] * 2 ^ shift + c, 0)
MpShr(a, shift, high) ==
  [i \in DOMAIN a |->
     a[i] \div 2 ^ shift
     + Limb((IF i = Len(a) THEN high ELSE a[i + 1]) * 2 ^ (LimbBits - shift))]

(* Limbs of w put into r from place i + 1 on *)
Patched(r, i, w) == [j \in DOMAIN r |-> IF j \in i + 1 .. i + Len(w) THEN w[j - i] ELSE r[j]]
Window(r, i, n) == SubSeq(r, i + 1, i + n)

MpMulBasecase(a, b) ==
  LET first == MpMul1(a, b[1])
      n == Len(a)
      row(r, i) == LET s == MpAddMul1(Window(r, i - 1, n), a, b[i])
                   IN Append(Patched(r, i - 1, s.tab), s.carry)
  IN FoldLeft(row, Append(first.tab, first.carry), [i \in 1 .. Len(b) - 1 |-> i + 1])

-----------------------------------------------------------------------------
(* js_bigint_sign, js_bigint_normalize, js_bigint_extend *)
TopBit(limb) == limb \div (Base \div 2)
Sign(a) == TopBit(Last(a))
SignLimb(a) == IF Sign(a) = 1 THEN Ones ELSE 0
Redundant(limb, below) == limb \in {0, Ones} /\ limb % 2 = TopBit(below)
(* The slip stops at limbs that are zero only. *)
NormalizedZeros(a) ==
  LET f[n \in 1 .. Len(a)] == IF n > 1 /\ a[n] = 0 /\ TopBit(a[n - 1]) = 0 THEN f[n - 1] ELSE SubSeq(a, 1, n)
  IN f[Len(a)]
Normalized(a) ==
  LET f[n \in 1 .. Len(a)] == IF n > 1 /\ Redundant(a[n], a[n - 1]) THEN f[n - 1] ELSE SubSeq(a, 1, n)
  IN f[Len(a)]
WithTopLimb(a, limb) == IF Redundant(limb, Last(a)) THEN Normalized(a) ELSE Append(a, limb)

Short(n) == <<Limb(n)>>      \* js_bigint_new_si
IsZero(a) == a = <<0>>

(* js_bigint_add: the shorter operand is extended by its sign. *)
LimbOf(a, i) == IF i <= Len(a) THEN a[i] ELSE SignLimb(a)
Longer(m, n) == IF m > n THEN m ELSE n
Complemented(limb, negate) == IF negate THEN Ones - limb ELSE limb
BigAdd(a, b, negate) ==
  LET n == Longer(Len(a), Len(b))
      r == Rippled(n, LAMBDA i, c : LimbOf(a, i) + Complemented(LimbOf(b, i), negate) + c,
                   IF negate THEN 1 ELSE 0)
  IN WithTopLimb(r.tab, Limb(SignLimb(a) + Complemented(SignLimb(b), negate) + r.carry))
BigNeg(a) == BigAdd(Short(0), a, TRUE)

(* js_bigint_mul: the product of the limbs, corrected for negative operands. *)
Corrected(r, a, b) == IF Sign(a) = 1 THEN Patched(r, Len(a), MpSub(Window(r, Len(a), Len(b)), b).tab) ELSE r
BigMul(a, b) == Normalized(Corrected(Corrected(MpMulBasecase(a, b), a, b), b, a))

-----------------------------------------------------------------------------
(* Division.  udiv1norm divides <<a1, a0>> by d with the inverse of d; all
   its values are one or two limbs wide. *)
Udiv1NormInit(d) == (Limb(-d - 1) * Base + Ones) \div d
Udiv1NormEnds(q, a, d) == [q |-> Limb(q + 1 + a \div Base), r |-> Limb(a + ((a \div Base) & d))]
Udiv1NormFrom(q, a1, a0, d) == Udiv1NormEnds(q, (a1 * Base + a0 - q * d - d) % Base ^ 2, d)
Udiv1Norm(a1, a0, d, inv) ==
  LET high == TopBit(a0) = 1
      adj == Limb(a0 + (IF high THEN d ELSE 0))
  IN Udiv1NormFrom(Limb(((inv * Limb(a1 - (IF high THEN Ones ELSE 0)) + adj) % Base ^ 2) \div Base + a1), a1, a0, d)
DivideLimbs(a1, a0, d, inverse) ==
  IF inverse THEN Udiv1Norm(a1, a0, d, Udiv1NormInit(d))
  ELSE [q |-> Limb((a1 * Base + a0) \div d), r |-> (a1 * Base + a0) % d]

(* mp_div1norm, from the highest limb *)
Prepended(x, s) == [q |-> <<x.q>> \o s.q, r |-> x.r]
MpDiv1Norm(a, d) ==
  LET down(s, limb) == Prepended(DivideLimbs(s.r, limb, d, Len(a) >= UdivThreshold), s)
  IN FoldLeft(down, [q |-> <<>>, r |-> 0], Reverse(a))

(* mp_divnorm.  One digit of the quotient is estimated from the two highest
   limbs, and corrected while the remainder is negative.  The slip leaves it
   uncorrected. *)
AddBack(s, b) ==
  LET sum == MpAdd(s.win, b) IN
  [win |-> sum.tab, top |-> Limb(s.top + sum.carry), q |-> Limb(s.q - 1),
   negative |-> ~(sum.carry = 1 /\ Limb(s.top + 1) = 0)]
AddedBackNever(s, b) == s
AddedBack(s, b) ==
  LET f[k \in 0 .. Base] == IF k = 0 THEN s ELSE IF f[k - 1].negative THEN AddBack(f[k - 1], b) ELSE f[k - 1]
  IN f[Base]
Estimate(high, below, d, inverse) == IF high >= d THEN Ones ELSE DivideLimbs(high, below, d, inverse).q
WithTop(sub, high, top, q) == [win |-> sub.tab, top |-> top, q |-> q, negative |-> top > high]
Subtracted(sub, high, q) == WithTop(sub, high, Limb(high + sub.carry), q)
Reduced(r, b, i, q) == AddedBack(Subtracted(MpSubMul1(Window(r, i, Len(b)), b, q), r[i + Len(b) + 1], q), b)
Stored(r, i, s) == [q |-> s.q, r |-> Patched(r, i, Append(s.win, s.top))]
QuotientDigit(r, b, i, inverse) ==
  Stored(r, i, Reduced(r, b, i, Estimate(r[i + Len(b) + 1], r[i + Len(b)], Last(b), inverse)))
AtLeast(u, v) == ~\E j \in DOMAIN v : u[j] < v[j] /\ \A k \in j + 1 .. Len(v) : u[k] = v[k]
FirstDigit(a, b, n) ==
  IF AtLeast(Window(a, n, Len(b)), b)
  THEN [q |-> <<1>>, r |-> Patched(a, n, MpSub(Window(a, n, Len(b)), b).tab)]
  ELSE [q |-> <<0>>, r |-> a]
AsLimbs(d) == [q |-> d.q, r |-> <<d.r>>]
MpDivNorm(a, b) ==
  LET n == Len(a) - Len(b)
      down(s, i) == Prepended(QuotientDigit(s.r, b, i, n >= UdivThreshold), s)
  IN IF Len(b) = 1 THEN AsLimbs(MpDiv1Norm(a, b[1]))
     ELSE FoldLeft(down, FirstDigit(a, b, n), [k \in 1 .. n |-> n - k])

(* js_bigint_divrem: magnitudes, shifted so that the top bit of b is set *)
WithoutZeros(m) ==
  LET f[n \in 1 .. Len(m)] == IF n > 1 /\ m[n] = 0 THEN f[n - 1] ELSE SubSeq(m, 1, n)
  IN f[Len(m)]
Magnitude(a) == WithoutZeros(IF Sign(a) = 1 THEN MpNeg(a) ELSE a)
LeadingZeros(limb) == CHOOSE s \in 0 .. LimbBits - 1 : limb * 2 ^ s \in Base \div 2 .. Base - 1
Negated(m, negative) == IF negative THEN MpNeg(m) ELSE m
WithCarry(s) == IF s.carry = 0 THEN s.tab ELSE Append(s.tab, s.carry)
Shifted(ma, mb, shift) == MpDivNorm(WithCarry(MpShl(ma, shift)), MpShl(mb, shift).tab)
Remainder(r, shift) == IF shift = 0 THEN r ELSE MpShr(r, shift, 0)
DivRem(a, b, ma, mb, shift, rem) ==
  Normalized(Negated(
    Append(IF rem THEN Remainder(SubSeq(Shifted(ma, mb, shift).r, 1, Len(mb)), shift)
                  ELSE Shifted(ma, mb, shift).q, 0),
    IF rem THEN Sign(a) = 1 ELSE Sign(a) # Sign(b)))
DivRemOf(a, b, ma, mb, rem) ==
  IF Len(ma) < Len(mb) THEN IF rem THEN a ELSE Short(0)
  ELSE DivRem(a, b, ma, mb, LeadingZeros(Last(mb)), rem)
BigDivRem(a, b, rem) == DivRemOf(a, b, Magnitude(a), Magnitude(b), rem)

-----------------------------------------------------------------------------
(* js_bigint_logic, js_bigint_not *)
BitOp(op, x, y) == CASE op = "and" -> x & y [] op = "or" -> x | y [] op = "xor" -> x ^^ y
BigLogic(a, b, op) ==
  Normalized([i \in 1 .. Longer(Len(a), Len(b)) |-> BitOp(op, LimbOf(a, i), LimbOf(b, i))])
BigNot(a) == [i \in DOMAIN a |-> Ones - a[i]]

(* js_bigint_shl, js_bigint_shr *)
Zeros(n) == [i \in 1 .. n |-> 0]
BigShl(a, n) ==
  LET d == n \div LimbBits
      shift == n % LimbBits
      s == MpShl(a, shift)
      high == IF Sign(a) = 1 THEN s.carry | Limb(Ones * 2 ^ shift) ELSE s.carry
  IN IF IsZero(a) THEN Short(0)
     ELSE IF shift = 0 THEN Zeros(d) \o a
     ELSE WithTopLimb(Zeros(d) \o s.tab, high)
(* The slip shifts zeros in. *)
HighForShrZero(a) == 0
HighForShr(a) == SignLimb(a)
BigShr(a, n) ==
  LET d == n \div LimbBits
      shift == n % LimbBits
      low == SubSeq(a, d + 1, Len(a))
  IN IF d >= Len(a) THEN Short(-Sign(a))
     ELSE IF shift = 0 THEN low
     ELSE Normalized(MpShr(low, shift, HighForShr(a)))

(* js_bigint_pow; the exponent is one limb of the code *)
IsPowerOfTwo(v) == \E n \in 0 .. LimbBits : v = 2 ^ n
BigPow(a, e) ==
  LET v == a[1]
      negative == Sign(a) = 1
      m == IF negative THEN Limb(-v) ELSE v
      bits == e * (CHOOSE n \in 0 .. LimbBits : m = 2 ^ n)
      minus == IF negative /\ e % 2 = 1 THEN 1 ELSE 0
      n == (bits + LimbBits + 1 - minus) \div LimbBits
      digits == CHOOSE k \in 1 .. e : 2 ^ (k - 1) <= e /\ e < 2 ^ k
      square(r, i) == LET r2 == BigMul(r, r) IN
                      IF (e \div 2 ^ (digits - 1 - i)) % 2 = 1 THEN BigMul(r2, a) ELSE r2
  IN IF e = 0 THEN Short(1)
     ELSE IF Len(a) = 1 /\ v \in {0, 1} THEN a
     ELSE IF Len(a) = 1 /\ v = Ones THEN Short(1 - 2 * (e % 2))
     ELSE IF Len(a) = 1 /\ IsPowerOfTwo(m)
     THEN [i \in 1 .. n |-> IF i = bits \div LimbBits + 1
                            THEN Limb((IF minus = 1 THEN -1 ELSE 1) * 2 ^ (bits % LimbBits)) ELSE 0]
     ELSE FoldLeft(square, a, [i \in 1 .. digits - 1 |-> i])

(* js_bigint_cmp: numbers without redundant limbs *)
BigCmp(a, b) ==
  IF Sign(a) # Sign(b) THEN 1 - 2 * Sign(a)
  ELSE IF Len(a) # Len(b) THEN IF Len(a) < Len(b) THEN 2 * Sign(a) - 1 ELSE 1 - 2 * Sign(a)
  ELSE IF a = b THEN 0
  ELSE IF AtLeast(a, b) THEN 1 ELSE -1

(* js_bigint_asUintN: the low bits of a, as an unsigned or a signed number *)
ShiftedBack(limb, shift, signed) ==
  limb \div 2 ^ shift + (IF signed /\ TopBit(limb) = 1 THEN Base - 2 ^ (LimbBits - shift) ELSE 0)
AsN(a, bits, signed) ==
  LET len == (bits + LimbBits - 1) \div LimbBits
      shift == (-bits) % LimbBits
  IN IF bits = 0 THEN Short(0)
     ELSE IF bits >= Len(a) * LimbBits THEN a
     ELSE Normalized(Append(SubSeq(a, 1, len - 1),
                            ShiftedBack(Limb(a[len] * 2 ^ shift), shift, signed)))

-----------------------------------------------------------------------------
(* The number that limbs stand for, and the limbs of a number *)
ValueOf(a) ==
  LET f[n \in 0 .. Len(a)] == IF n = 0 THEN 0 ELSE f[n - 1] + a[n] * Base ^ (n - 1)
  IN f[Len(a)] - Sign(a) * Base ^ Len(a)
LimbsOf(n) ==
  LET len == CHOOSE k \in 1 .. 8 : /\ -(Base ^ k) <= 2 * n /\ 2 * n < Base ^ k
                                   /\ \A j \in 1 .. k - 1 : ~(-(Base ^ j) <= 2 * n /\ 2 * n < Base ^ j)
  IN [i \in 1 .. len |-> (n \div Base ^ (i - 1)) % Base]

BigIntInit == left = <<0>> /\ right = 0 /\ operation = "none" /\ result = <<0>>

(* The result becomes the left operand; what it was computed from does not
   matter any more. *)
TakesResult ==
  /\ operation # "none" /\ Len(result) <= MaxLimbs
  /\ left' = <<0>> /\ right' = 0 /\ operation' = "none" /\ UNCHANGED result
Computes(op, y, r) ==
  /\ operation = "none"
  /\ left' = result /\ right' = y /\ operation' = op /\ result' = r
BigIntNext ==
  \/ TakesResult
  \/ \E y \in Operands :
       LET a == result
           b == LimbsOf(y)
       IN \/ \E op \in {"add", "sub"} : Computes(op, y, BigAdd(a, b, op = "sub"))
          \/ Computes("mul", y, BigMul(a, b))
          \/ /\ ~IsZero(b)
             /\ \E op \in {"div", "rem"} : Computes(op, y, BigDivRem(a, b, op = "rem"))
          \/ \E op \in {"and", "or", "xor"} : Computes(op, y, BigLogic(a, b, op))
  \/ Computes("not", 0, BigNot(result))
  \/ \E n \in 0 .. MaxShift :
       \/ Computes("shl", n, BigShl(result, n)) \/ Computes("shr", n, BigShr(result, n))
       \/ Computes("asIntN", n, AsN(result, n, TRUE))
  \/ \E e \in 0 .. MaxExponent : Computes("pow", e, BigPow(result, e))
BigIntSpec == BigIntInit /\ [][BigIntNext]_bigVars

-----------------------------------------------------------------------------
(* Division of integers that rounds toward zero, and its remainder *)
Abs(n) == IF n < 0 THEN -n ELSE n
Truncated(x, y) == IF (x < 0) = (y < 0) THEN Abs(x) \div Abs(y) ELSE -(Abs(x) \div Abs(y))
Bits(n, i) == (n \div 2 ^ i) % 2    \* bit i of n in two's complement
ModuloSigned(x, n) == LET m == x % 2 ^ n IN IF n > 0 /\ m >= 2 ^ (n - 1) THEN m - 2 ^ n ELSE m

(***************************************************************************)
(* Every operation computes what it computes on integers, through all      *)
(* carries, borrows, corrections of quotients and lengths of operands.     *)
(***************************************************************************)
Exact ==
  LET x == ValueOf(left)
      y == right
      r == ValueOf(result)
      wide == LimbBits * (MaxLimbs + 2)
  IN CASE operation = "none" -> y = 0
       [] operation = "add" -> r = x + y
       [] operation = "sub" -> r = x - y
       [] operation = "mul" -> r = x * y
       [] operation = "div" -> r = Truncated(x, y)
       [] operation = "rem" -> r = x - y * Truncated(x, y)
       [] operation = "and" -> \A i \in 0 .. wide : Bits(r, i) = Bits(x, i) * Bits(y, i)
       [] operation = "or" -> \A i \in 0 .. wide : Bits(r, i) = Longer(Bits(x, i), Bits(y, i))
       [] operation = "xor" -> \A i \in 0 .. wide : Bits(r, i) = (Bits(x, i) + Bits(y, i)) % 2
       [] operation = "not" -> r = -x - 1
       [] operation = "shl" -> r = x * 2 ^ y
       [] operation = "shr" -> r = x \div 2 ^ y
       [] operation = "asIntN" -> r = ModuloSigned(x, y)
       [] operation = "pow" -> r = IF y = 0 THEN 1 ELSE x ^ y

(***************************************************************************)
(* No result has a redundant limb, so the order that js_bigint_cmp finds   *)
(* by lengths and limbs is that of the integers.                           *)
(***************************************************************************)
OrderExact ==
  /\ \A i \in 2 .. Len(result) : i = Len(result) => ~Redundant(result[i], result[i - 1])
  /\ BigCmp(left, result) = (IF ValueOf(left) < ValueOf(result) THEN -1
                             ELSE IF ValueOf(left) > ValueOf(result) THEN 1 ELSE 0)

(***************************************************************************)
(* BigInt.asUintN(n, x) is x modulo 2^n, for every x.                      *)
(***************************************************************************)
UnsignedExact == \A n \in 0 .. MaxShift : ValueOf(AsN(result, n, FALSE)) = ValueOf(result) % 2 ^ n

(***************************************************************************)
(* Every operation on big integers gives the exact result in the shortest  *)
(* form, and the comparison orders the results as integers.                *)
(***************************************************************************)
BigIntExact ==
  /\ Exact
  /\ OrderExact
=============================================================================
