----------------------------- MODULE Formatting -----------------------------
(***************************************************************************)
(* Calls of num2a.h, format.h, flags.cc and GetSecondsDiffDays on chosen   *)
(* inputs, each checked against what its result should be.  A behaviour is *)
(* one call.                                                               *)
(***************************************************************************)
EXTENDS Format, SystemTime, Flags, FiniteSets
Seqs == INSTANCE SequencesExt

CONSTANTS
    Values,       \* <<a, v0, v1>>, see Digits
    Lanes,        \* values given to Convert8DigitsSSE2
    Words,        \* four bytes for ToUpper
    HexBits,      \* widths of integers printed in hexadecimal
    Doubles,      \* <<biased exponent, significand>>
    Factors,      \* significands multiplied
    Exponents,    \* exponents for which a power of ten is looked up
    Intervals,    \* <<W, Mp, delta>> given to DigitGen
    Bits,         \* ... with this many bits of fraction
    Decimals,     \* <<digits, exponent>> given to Prettify
    Arguments,    \* what Format is given ...
    MaxArguments, \* ... at most so many of
    MaxLength,    \* bound on the space given to Format
    Moments,      \* times given to GetSecondsDiffDays
    Options       \* lists of options: a flag and its value, "" for none

VARIABLES call, result

vars == <<call, result>>

Init == call = [op |-> "none"] /\ result = <<>>

Does(c, r) == call' = c /\ result' = r

Convert(v, negative) ==
    \/ Does([op |-> "integer", value |-> v, negative |-> negative],
            Signed(negative, u64toa_sse2(v)))
    \/ /\ v[1] = 0 /\ v[2] < IF negative THEN 21 ELSE 42
       /\ Does([op |-> "integer", value |-> v, negative |-> negative],
               Signed(negative, u32toa_sse2(v)))
ConvertLane(v) == Does([op |-> "lanes", value |-> v], Convert8DigitsSSE2(v))
Uppercase(w) == Does([op |-> "upper", word |-> w], ToUpper(w))
Hex(v, bits, width, max) ==
    Does([op |-> "hex", value |-> v, bits |-> bits, width |-> width],
         FormatTo(<<[kind |-> "align", text |-> HexDigits(v, bits), width |-> width,
                     pad |-> ZeroChar, align |-> "right", upper |-> FALSE]>>,
                  [i \in 0 .. max + 1 |-> -1], max))
Boundaries(d) == Does([op |-> "boundaries", double |-> d],
                      NormalizedBoundaries(FromDouble(d[1], d[2])))
Multiply(x, y) == Does([op |-> "times", x |-> x, y |-> y], Times(DiyFp(x, 0), DiyFp(y, 0)))
CachedPower(e) == Does([op |-> "power", e |-> e], GetCachedPower(e))
Generate(i) == Does([op |-> "digits", W |-> i[1], Mp |-> i[2], delta |-> i[3]],
                    DigitGen(i[1], i[2], i[3], Bits))
PrintDouble(d, negative) ==
    Does([op |-> "double", digits |-> d[1], k |-> d[2], negative |-> negative],
         dtoa_milo(negative, d[1], d[2]))

DiffDays(s1, s2) == Does([op |-> "days", s1 |-> s1, s2 |-> s2], GetSecondsDiffDays(s1, s2))

(* The command line that is typed for the options.                         *)
Typed(options) ==
    LET argument(o) == <<[dash |-> TRUE, rest |-> o[1]]>> \o
                       (IF o[2] = "" THEN <<>> ELSE <<[dash |-> FALSE, rest |-> o[2]]>>)
    IN  <<[dash |-> FALSE, rest |-> "a"]>> \o
            Seqs!FlattenSeq([i \in DOMAIN options |-> argument(options[i])])
LookUp(options, flag) ==
    Does([op |-> "flags", options |-> options, flag |-> flag],
         [found |-> CheckFlag(Typed(options), flag), value |-> GetFlags(Typed(options), flag)])

(* The array has max_length cells from 1 on, and -1 is what nobody wrote.  *)
Array(max) == [i \in -MaxArguments .. max + 2 |-> -1]
CallFormat(args, max) ==
    Does([op |-> "format", args |-> args, max |-> max], FormatTo(args, Array(max), max))

Next ==
    /\ call.op = "none"
    /\ \/ \E v \in Values, negative \in BOOLEAN : Convert(v, negative)
       \/ \E v \in Lanes : ConvertLane(v)
       \/ \E w \in Words : Uppercase(w)
       \/ \E bits \in HexBits, width \in 1 .. 4 :
             \E v \in 0 .. 2^bits - 1 : Hex(v, bits, width, 6)
       \/ \E d \in Doubles : Boundaries(d)
       \/ \E x, y \in Factors : Multiply(x, y)
       \/ \E e \in Exponents : CachedPower(e)
       \/ \E i \in Intervals : Generate(i)
       \/ \E d \in Decimals, negative \in BOOLEAN : PrintDouble(d, negative)
       \/ \E s1, s2 \in Moments : DiffDays(s1, s2)
       \/ \E options \in Options, flag \in {"a", "b"} : LookUp(options, flag)
       \/ \E n \in 0 .. MaxArguments, max \in 0 .. MaxLength :
             \E args \in [1 .. n -> Arguments] : CallFormat(args, max)

Spec == Init /\ [][Next]_vars
-----------------------------------------------------------------------------
Called(op) == call.op = op
OneIf(b) == IF b THEN 1 ELSE 0

(* The text of an integer is its decimal digits, over the borders between  *)
(* the table and the vector code.  The length returned, which is all that  *)
(* ToString copies, is short by one from 10^8 on (buffer is not moved past *)
(* the '\0') and by one for a minus sign (i32toa_sse2 does not count it).  *)
IntegerText ==
    Called("integer") =>
        LET text == (IF call.negative THEN <<MinusChar>> ELSE <<>>) \o Decimal(call.value)
            big == call.value[1] > 0 \/ call.value[2] > 0
        IN  result = [text |-> text,
                      length |-> Len(text) - OneIf(big) - OneIf(call.negative)]

(* The multiplications of Convert8DigitsSSE2 are the divisions they stand  *)
(* for, in every 16-bit lane.                                              *)
LanesAreDigits == Called("lanes") => result = Digits8(call.value)

(* The word-wide ToUpper changes the letters a to z of each byte and       *)
(* nothing else: no carry or borrow leaves a byte.                         *)
UpperIsBytewise ==
    Called("upper") => result = [i \in DOMAIN call.word |-> UpperChar(call.word[i])]

(* A right-aligned hexadecimal number padded with '0' reads as its value,  *)
(* also 0, for which __ToHex has no digit at all.                          *)
HexReadsBack ==
    Called("hex") =>
        LET n == result.length
            digit(c) == IF c < 97 THEN c - ZeroChar ELSE c - 87
            value[i \in 0 .. n] == IF i = 0 THEN 0 ELSE 16 * value[i - 1] + digit(result.mem[i])
        IN  /\ n >= call.width /\ (n > call.width => result.mem[1] # ZeroChar)
            /\ value[n] = call.value /\ result.mem[n + 1] = 0

(* The interval that NormalizedBoundaries computes is normalised and ends  *)
(* half way to the neighbouring doubles: 4 * f + 2 above and 4 * f - 2     *)
(* below in quarters of the last place, 4 * f - 1 where the spacing below  *)
(* is half as wide.  For the smallest normal it is narrower than it could  *)
(* be, never wider.  The number itself, normalised, lies inside with the   *)
(* same exponent, as the subtraction Mp - W of DigitGen takes for granted. *)
BoundariesAreMidpoints ==
    Called("boundaries") =>
        LET x == FromDouble(call.double[1], call.double[2])
            unit == 2^(x.e - 2 - result.plus.e)
            halved == call.double[2] = 0 /\ call.double[1] > 1
        IN  /\ result.plus.f \in 2^(DiySize - 1) .. 2^DiySize - 1
            /\ result.minus.e = result.plus.e
            /\ result.plus.f = (4 * x.f + 2) * unit
            /\ IF call.double = <<1, 0>> THEN result.minus.f = (4 * x.f - 1) * unit
               ELSE result.minus.f = (4 * x.f - (IF halved THEN 1 ELSE 2)) * unit
            /\ Normalize(x).e = result.plus.e
            /\ Normalize(x).f \in result.minus.f .. result.plus.f

(* The product of two DiyFps is off by at most half a unit: the error that *)
(* Wm.f++ and Wp.f-- in Grisu2 allow for.                                  *)
TimesRounds ==
    Called("times") =>
        /\ result.f * 2^DiySize - call.x * call.y <= 2^(DiySize - 1)
        /\ call.x * call.y - result.f * 2^DiySize <= 2^(DiySize - 1)
        /\ result.e = DiySize

(* For every exponent a double can have, the cached power exists, is the   *)
(* one K names, and brings the product's exponent between -60 and -32: the *)
(* integral part then fits the uint32_t p1 of DigitGen, and ten times the  *)
(* fraction fits 64 bits.                                                  *)
ProductExponentInRange ==
    Called("power") =>
        /\ result.index \in 0 .. 86
        /\ call.e + result.e + 64 \in -60 .. -32
        /\ result.e + 63 = (-result.K * 28738) \div 8651

(* The digits of DigitGen denote a number between Mp - delta and Mp, none  *)
(* with fewer digits does, and one less in the last place is not closer to *)
(* W inside that interval.  Numbers are compared in units of 2^-bits *     *)
(* 10^-9.                                                                  *)
RECURSIVE Number(_)
Number(digits) ==
    IF digits = <<>> THEN 0 ELSE 10 * Number(SubSeq(digits, 1, Len(digits) - 1))
                                 + digits[Len(digits)]
Distance(x, y) == IF x > y THEN x - y ELSE y - x
DigitsInInterval ==
    Called("digits") =>
        LET down == IF result.K < 0 THEN 10^(-result.K) ELSE 1
            step == (IF result.K > 0 THEN 10^result.K ELSE 1) * 2^Bits
            r == Number(result.digits) * step
            W == call.W * down
            high == call.Mp * down
            low == (call.Mp - call.delta) * down
        IN  /\ low <= r /\ r <= high
            /\ (high \div (10 * step)) * 10 * step <= low
            /\ r - step >= low => Distance(r, W) <= Distance(r - step, W)

(* Whatever form Prettify chooses, its text denotes digits * 10^k, and     *)
(* dtoa_milo never returns more characters than it wrote.  (It returns the *)
(* number of digits, so Format shows only that many characters.)           *)
IndexOf(text, c) ==
    IF \E i \in DOMAIN text : text[i] = c THEN CHOOSE i \in DOMAIN text : text[i] = c
    ELSE Len(text) + 1
Stripped(digits) ==
    LET nonzero == {i \in DOMAIN digits : digits[i] # 0}
    IN  IF nonzero = {} THEN <<>>
        ELSE SubSeq(digits, CHOOSE i \in nonzero : \A j \in nonzero : i <= j,
                            CHOOSE i \in nonzero : \A j \in nonzero : i >= j)
Denoted(text) ==
    LET mantissa == SubSeq(text, 1, IndexOf(text, ExpChar) - 1)
        exponent == SubSeq(text, IndexOf(text, ExpChar) + 1, Len(text))
        value(s) == [i \in DOMAIN s |-> s[i] - ZeroChar]
        exp == IF exponent = <<>> THEN 0
               ELSE IF exponent[1] = MinusChar THEN -Number(value(Tail(exponent)))
               ELSE Number(value(exponent))
        whole == SubSeq(mantissa, 1, IndexOf(mantissa, DotChar) - 1)
        part == SubSeq(mantissa, IndexOf(mantissa, DotChar) + 1, Len(mantissa))
        all == value(whole \o part)
        first == CHOOSE i \in DOMAIN all : all[i] # 0 /\ \A j \in 1 .. i - 1 : all[j] = 0
    IN  [digits |-> Stripped(all), magnitude |-> exp + Len(whole) - first]
DoubleText ==
    Called("double") =>
        /\ result.length <= Len(result.text)
        /\ call.digits # <<>> =>
              LET text == IF call.negative THEN Tail(result.text) ELSE result.text
              IN  /\ call.negative => Head(result.text) = MinusChar
                  /\ Denoted(text) = [digits |-> Stripped(call.digits),
                                      magnitude |-> Len(call.digits) + call.k - 1]

(* Arguments that fit are written one after the other, a '\0' follows, and *)
(* Format returns how many characters there are.                           *)
Shown(v) ==
    CASE v.kind = "number" -> SubSeq(v.text, 1, v.length)
      [] v.kind = "slice" -> v.text
      [] v.kind = "align" -> Placed(v, IF v.upper THEN [i \in DOMAIN v.text |-> UpperChar(v.text[i])]
                                                  ELSE v.text,
                                    Max2(Len(v.text), v.width) - Len(v.text))
RECURSIVE Joined(_)
Joined(args) == IF args = <<>> THEN <<>> ELSE Shown(Head(args)) \o Joined(Tail(args))
FormatConcatenates ==
    Called("format") /\ Len(Joined(call.args)) <= call.max =>
        /\ result.length = Len(Joined(call.args))
        /\ result.mem = Store(Array(call.max), 1, Joined(call.args) \o <<0>>)

(* Format ignores that a slice or an aligned value did not fit, and moves  *)
(* the rest one cell back for each.  Nothing is written further back than  *)
(* that, and nothing but the '\0' behind the space given.                  *)
FormatStaysNear ==
    Called("format") =>
        LET failed == Cardinality({i \in DOMAIN call.args : call.args[i].kind # "number"
                                     /\ Len(Shown(call.args[i])) > 0})
        IN  /\ \A i \in DOMAIN result.mem : i < 1 - failed => result.mem[i] = -1
            /\ result.mem[call.max + 1] \in {-1, 0}
            /\ result.mem[call.max + 2] = -1

(* system.h:74-76 on GetSecondsDiffDays: "if s1 and s2 is the same day,    *)
(* than return 0 else return s2.days - s1.days; days are defined in local  *)
(* time".                                                                  *)
DaysAreLocal == Called("days") => result = localtime(call.s2).day - localtime(call.s1).day

(* They are, also backwards in time and on the day of the change, where    *)
(* both times are on the same side of a change of summer time.             *)
DaysOfOneSeason == Called("days") /\ isdst(call.s1) = isdst(call.s2) => DaysAreLocal

(* Of the options typed, a flag is found if it is among them, with the     *)
(* value of its first occurrence, also where the program's name or another *)
(* flag's value is the text of that flag.                                  *)
FlagsReadBack ==
    Called("flags") =>
        LET hits == {i \in DOMAIN call.options : call.options[i][1] = call.flag}
        IN  /\ result.found = (hits # {})
            /\ result.value = IF hits = {} THEN ""
                              ELSE call.options[CHOOSE i \in hits : \A j \in hits : i <= j][2]

(* Every call returns what plain arithmetic or concatenation gives, with   *)
(* the deviations stated above.                                            *)
ConversionsMatch ==
    /\ IntegerText /\ LanesAreDigits /\ UpperIsBytewise /\ HexReadsBack
    /\ FormatConcatenates /\ FormatStaysNear
    /\ DaysOfOneSeason /\ FlagsReadBack

(* Each step of Grisu2 keeps what the next one relies on, so that the text *)
(* of a double is the shortest in the interval that reads as that double.  *)
GrisuStepsMatch ==
    /\ BoundariesAreMidpoints /\ TimesRounds /\ ProductExponentInRange
    /\ DigitsInInterval /\ DoubleText
=============================================================================
