------------------------------- MODULE Digits -------------------------------
(***************************************************************************)
(* The integer half of green_turtle/num2a.h: decimal digits from a table   *)
(* of pairs below 10^8, and above it from 16-bit vector lanes that divide  *)
(* by multiplying.  Characters are ASCII codes; tables start at 0, text    *)
(* and lanes at 1.                                                         *)
(*                                                                         *)
(* A 64-bit value is <<a, v0, v1>>, for a * 10^16 + v0 * 10^8 + v1: the    *)
(* quotients the code takes first.  A 32-bit value has a = 0 and v0 < 43.  *)
(***************************************************************************)
EXTENDS Integers, Sequences

ZeroChar == 48
MinusChar == 45

gDigitsLut ==
    [i \in 0 .. 199 |-> ZeroChar + (IF i % 2 = 0 THEN i \div 20 ELSE (i \div 2) % 10)]

(* (value * kDiv10000) >> 45 for value < 2^27, the product taken in 14-bit *)
(* limbs; kDiv10000 = 0xd1b71759 is 13 * 2^28 + 1756 * 2^14 + 5977.        *)
MulDiv10000(value) ==
    LET hi == value \div 2^14
        lo == value % 2^14
        t1 == lo * 1756 + hi * 5977 + (lo * 5977) \div 2^14
        t2 == lo * 13 + hi * 1756 + t1 \div 2^14
    IN  (hi * 13 + t2 \div 2^14) \div 8

kDivPowersVector == <<8389, 5243, 13108, 32768>>
kShiftPowersVector == <<2^7, 2^11, 2^13, 2^15>>

Convert8DigitsSSE2(value) ==
    LET abcd == MulDiv10000(value)
        efgh == value - abcd * 10000
        pos(i) == ((i - 1) % 4) + 1
        v2 == [i \in 1 .. 8 |-> ((IF i <= 4 THEN abcd ELSE efgh) * 4) % 2^16]
        v3 == [i \in 1 .. 8 |-> (v2[i] * kDivPowersVector[pos(i)]) \div 2^16]
        v4 == [i \in 1 .. 8 |-> (v3[i] * kShiftPowersVector[pos(i)]) \div 2^16]
        v6 == [i \in 1 .. 8 |-> IF pos(i) = 1 THEN 0 ELSE (v4[i - 1] * 10) % 2^16]
    IN  [i \in 1 .. 8 |-> (v4[i] - v6[i]) % 2^16]

(* _mm_packus_epi16 and the addition of '0' to every byte.                 *)
Ascii(lanes) ==
    [i \in DOMAIN lanes |->
        (ZeroChar + (CASE lanes[i] >= 2^15 -> 0
                       [] lanes[i] \in 256 .. 2^15 - 1 -> 255
                       [] OTHER -> lanes[i])) % 256]

(* The characters a run of "if (value >= ...) *buffer++ = ..." emits.      *)
Emit(chars, keep) ==
    LET kept == SelectSeq([i \in 1 .. Len(chars) |-> i], LAMBDA i : keep[i])
    IN  [j \in 1 .. Len(kept) |-> chars[kept[j]]]

FourDigits(v) ==
    LET d1 == 2 * (v \div 100)
        d2 == 2 * (v % 100)
    IN  <<gDigitsLut[d1], gDigitsLut[d1 + 1], gDigitsLut[d2], gDigitsLut[d2 + 1]>>

(* What a conversion writes before its '\0', and the length it returns.    *)
(* Below 10^8 buffer has moved past the '\0' when the length is taken,     *)
(* above it has not.                                                       *)
Terminated(text) == [text |-> text, length |-> Len(text)]
Unterminated(text) == [text |-> text, length |-> Len(text) - 1]

BelowHundredMillion(v) ==
    IF v < 10000
      THEN Terminated(Emit(FourDigits(v), <<v >= 1000, v >= 100, v >= 10, TRUE>>))
      ELSE Terminated(Emit(FourDigits(v \div 10000) \o FourDigits(v % 10000),
                           <<v >= 10^7, v >= 10^6, v >= 10^5, TRUE, TRUE, TRUE, TRUE, TRUE>>))

Pair(i) == <<gDigitsLut[2 * i], gDigitsLut[2 * i + 1]>>
u32toa_sse2(v) ==
    LET a == v[2] IN
    IF a = 0 THEN BelowHundredMillion(v[3])
    ELSE Unterminated((IF a >= 10 THEN Pair(a) ELSE <<ZeroChar + a>>)
                      \o Ascii(Convert8DigitsSSE2(v[3])))

(* __builtin_ctz(~mask | 0x8000): leading zeros among the sixteen.         *)
LeadingZeros(va) ==
    CHOOSE d \in 0 .. 15 :
        /\ d = 15 \/ va[d + 1] # ZeroChar
        /\ \A i \in 1 .. d : va[i] = ZeroChar

ShiftDigits_SSE2(a, digit) == IF digit <= 8 THEN SubSeq(a, digit + 1, Len(a)) ELSE a

u64toa_sse2(v) ==
    LET a == v[1]
        va == Ascii(Convert8DigitsSSE2(v[2]) \o Convert8DigitsSSE2(v[3]))
    IN  CASE a = 0 /\ v[2] = 0 -> BelowHundredMillion(v[3])
          [] a = 0 /\ v[2] > 0 -> Unterminated(ShiftDigits_SSE2(va, LeadingZeros(va)))
          [] a \in 1 .. 9 -> Unterminated(<<ZeroChar + a>> \o va)
          [] a \in 10 .. 99 -> Unterminated(Pair(a) \o va)
          [] a \in 100 .. 999 -> Unterminated(<<ZeroChar + a \div 100>> \o Pair(a % 100) \o va)
          [] a >= 1000 -> Unterminated(Pair(a \div 100) \o Pair(a % 100) \o va)

(* i32toa_sse2 and i64toa_sse2 write a '-' in front that the length of the *)
(* rest does not count.                                                    *)
Signed(negative, r) ==
    IF negative THEN [r EXCEPT !.text = <<MinusChar>> \o @] ELSE r
-----------------------------------------------------------------------------
(* The reference: a value's decimal digits without leading zeros.          *)
Digits8(n) == [i \in 1 .. 8 |-> (n \div 10^(8 - i)) % 10]
Decimal(v) ==
    LET all == Digits8(v[1]) \o Digits8(v[2]) \o Digits8(v[3])
        first == CHOOSE i \in 1 .. 24 :
                    (i = 24 \/ all[i] # 0) /\ \A j \in 1 .. i - 1 : all[j] = 0
    IN  [i \in 1 .. 25 - first |-> ZeroChar + all[first + i - 1]]
=============================================================================
