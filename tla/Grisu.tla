-------------------------------- MODULE Grisu --------------------------------
(***************************************************************************)
(* The floating-point half of green_turtle/num2a.h: Grisu2 and the layout  *)
(* of its digits.  The operators do not depend on the width of a double:   *)
(* SignificandSize stands for the 52 bits of its significand and DiySize   *)
(* for the 64 bits of a DiyFp.  Only the exponents of the cached powers    *)
(* are here, at their real values; Grisu2 itself, which needs their 64-bit *)
(* significands, is not.                                                   *)
(***************************************************************************)
EXTENDS Digits

CONSTANTS SignificandSize, DiySize

kDpHiddenBit == 2^SignificandSize
kDpExponentBias == SignificandSize + 3     \* 3 stands for 0x3FF
kDpMinExponent == -kDpExponentBias

DiyFp(f, e) == [f |-> f, e |-> e]
FromDouble(biased_e, significand) ==
    IF biased_e # 0 THEN DiyFp(significand + kDpHiddenBit, biased_e - kDpExponentBias)
    ELSE DiyFp(significand, kDpMinExponent + 1)

(* The high half of the product, rounded by the top bit of the low half.   *)
Times(x, y) ==
    LET p == x.f * y.f
        l == p % 2^DiySize
    IN  DiyFp(p \div 2^DiySize + l \div 2^(DiySize - 1), x.e + y.e + DiySize)

(* Shift until bit number `top` is set.                                    *)
ShiftedTo(x, top) ==
    LET s == CHOOSE s \in 0 .. top : x.f * 2^s \in 2^top .. 2^(top + 1) - 1
    IN  DiyFp(x.f * 2^s, x.e - s)
Normalize(x) == ShiftedTo(x, DiySize - 1)
NormalizeBoundary(x) ==
    LET res == ShiftedTo(x, SignificandSize + 1)
        up == DiySize - SignificandSize - 2
    IN  DiyFp(res.f * 2^up, res.e - up)

(* minus and plus: half way to the neighbours of x.                        *)
Bug_NoPowerOfTwoCase(x) ==
    LET pl == NormalizeBoundary(DiyFp(2 * x.f + 1, x.e - 1))
        mi == DiyFp(2 * x.f - 1, x.e - 1)
    IN  [plus |-> pl, minus |-> DiyFp(mi.f * 2^(mi.e - pl.e), pl.e)]
NormalizedBoundaries(x) ==
    LET pl == NormalizeBoundary(DiyFp(2 * x.f + 1, x.e - 1))
        mi == IF x.f = kDpHiddenBit THEN DiyFp(4 * x.f - 1, x.e - 2)
                                    ELSE DiyFp(2 * x.f - 1, x.e - 1)
    IN  [plus |-> pl, minus |-> DiyFp(mi.f * 2^(mi.e - pl.e), pl.e)]
-----------------------------------------------------------------------------
kCachedPowers_E == <<
    -1220, -1193, -1166, -1140, -1113, -1087, -1060, -1034, -1007, -980, -954, -927, -901,
    -874, -847, -821, -794, -768, -741, -715, -688, -661, -635, -608, -582, -555, -529, -502,
    -475, -449, -422, -396, -369, -343, -316, -289, -263, -236, -210, -183, -157, -130, -103,
    -77, -50, -24, 3, 30, 56, 83, 109, 136, 162, 189, 216, 242, 269, 295, 322, 348, 375, 402,
    428, 455, 481, 508, 534, 561, 588, 614, 641, 667, 694, 720, 747, 774, 800, 827, 853, 880,
    907, 933, 960, 986, 1013, 1039, 1066>>

(* 0.30102999566398114 is log10(2); as 8651 / 28738 it gives the same      *)
(* ceiling for all exponents of doubles.                                   *)
CeilLog(n) == -((-n * 8651) \div 28738)
GetCachedPower(e) ==
    LET index == (CeilLog(-61 - e) + 347) \div 8 + 1
    IN  [index |-> index, e |-> kCachedPowers_E[index + 1], K |-> 348 - 8 * index]
-----------------------------------------------------------------------------
kPow10 == [i \in 0 .. 9 |-> 10^i]

CountDecimalDigit32(n) ==
    IF n >= 10^9 THEN 10 ELSE CHOOSE c \in 1 .. 9 : n < 10^c /\ \A b \in 1 .. c - 1 : n >= 10^b

RECURSIVE GrisuRound(_, _, _, _, _)
GrisuRound(digits, delta, rest, ten_kappa, wp_w) ==
    IF /\ rest < wp_w /\ delta - rest >= ten_kappa
       /\ rest + ten_kappa < wp_w \/ wp_w - rest > rest + ten_kappa - wp_w
      THEN GrisuRound([digits EXCEPT ![Len(digits)] = @ - 1], delta, rest + ten_kappa,
                      ten_kappa, wp_w)
      ELSE digits

Put(digits, d) == IF d # 0 \/ digits # <<>> THEN Append(digits, d) ELSE digits

(* The loop for the fraction p2 / 2^bits; kappa counts down from 0.        *)
RECURSIVE Fraction(_, _, _, _, _, _)
Fraction(digits, p2, delta, kappa, bits, wp_w) ==
    LET ds == Put(digits, (p2 * 10) \div 2^bits)
        rest == (p2 * 10) % 2^bits
    IN  IF rest < delta * 10
          THEN [digits |-> GrisuRound(ds, delta * 10, rest, 2^bits, wp_w * kPow10[1 - kappa]),
                K |-> kappa - 1]
          ELSE Fraction(ds, rest, delta * 10, kappa - 1, bits, wp_w)

(* The loop for the integral part p1.                                      *)
RECURSIVE Integral(_, _, _, _, _, _, _)
Integral(digits, p1, p2, delta, kappa, bits, wp_w) ==
    IF kappa = 0 THEN Fraction(digits, p2, delta, 0, bits, wp_w)
    ELSE LET ten == kPow10[kappa - 1]
             ds == Put(digits, p1 \div ten)
             rest == (p1 % ten) * 2^bits + p2
         IN  IF rest <= delta
               THEN [digits |-> GrisuRound(ds, delta, rest, ten * 2^bits, wp_w), K |-> kappa - 1]
               ELSE Integral(ds, p1 % ten, p2, delta, kappa - 1, bits, wp_w)

(* Mp and W are the significands of numbers with the exponent -bits.       *)
DigitGen(W, Mp, delta, bits) ==
    Integral(<<>>, Mp \div 2^bits, Mp % 2^bits, delta, CountDecimalDigit32(Mp \div 2^bits),
             bits, Mp - W)
-----------------------------------------------------------------------------
DotChar == 46
ExpChar == 101
Zeros(n) == [i \in 1 .. n |-> ZeroChar]
Chars(digits) == [i \in DOMAIN digits |-> ZeroChar + digits[i]]

WriteExponent(K) ==
    LET k == IF K < 0 THEN -K ELSE K
    IN  (IF K < 0 THEN <<MinusChar>> ELSE <<>>) \o
        CASE k >= 100 -> <<ZeroChar + k \div 100>> \o Pair(k % 100)
          [] k \in 10 .. 99 -> Pair(k)
          [] OTHER -> <<ZeroChar + k>>

Prettify(digits, k) ==
    LET t == Chars(digits)
        length == Len(t)
        kk == length + k
    IN  CASE length <= kk /\ kk <= 21 -> t \o Zeros(kk - length) \o <<DotChar, ZeroChar>>
          [] kk < length /\ kk \in 1 .. 21 ->
                SubSeq(t, 1, kk) \o <<DotChar>> \o SubSeq(t, kk + 1, length)
          [] kk \in -5 .. 0 -> <<ZeroChar, DotChar>> \o Zeros(-kk) \o t
          [] kk \notin -5 .. 21 /\ length = 1 -> t \o <<ExpChar>> \o WriteExponent(kk - 1)
          [] kk \notin -5 .. 21 /\ length > 1 ->
                <<t[1], DotChar>> \o Tail(t) \o <<ExpChar>> \o WriteExponent(kk - 1)

(* dtoa_milo, from the digits Grisu2 finds (none for 0).  The length it    *)
(* returns is the number of digits, not of characters.                     *)
dtoa_milo(negative, digits, k) ==
    IF digits = <<>> THEN Terminated(<<ZeroChar, DotChar, ZeroChar>>)
    ELSE Signed(negative, [text |-> Prettify(digits, k), length |-> Len(digits)])
=============================================================================
