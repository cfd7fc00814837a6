------------------------------- MODULE Format -------------------------------
(***************************************************************************)
(* green_turtle/format.h: Format writes its arguments one after the other  *)
(* into the caller's array.  mem is that array with some cells on either   *)
(* side, at the cell the next argument goes to, left the space it may use. *)
(* Every ToString returns the new array and a length, -1 for an argument   *)
(* that does not fit.                                                      *)
(***************************************************************************)
EXTENDS Grisu, Bitwise

Max2(m, n) == IF m > n THEN m ELSE n
Store(mem, at, text) ==
    [i \in DOMAIN mem |-> IF i \in at .. at + Len(text) - 1 THEN text[i - at + 1] ELSE mem[i]]
Returned(mem, length) == [mem |-> mem, length |-> length]

(* FORMAT_INTEGER, for integers and doubles; n is what num2a.h returned.   *)
ToStringNumber(n, mem, at, left) ==
    Returned(IF n.length <= left THEN Store(mem, at, SubSeq(n.text, 1, n.length))
                                 ELSE Store(mem, at, <<0>>), n.length)

(* StringSlice, and the strings that are made slices first.                *)
Bug_SliceLosesLast(text, mem, at, left) ==
    IF Len(text) >= left THEN Returned(mem, -1)
    ELSE Returned(Store(mem, at, text), Len(text))
ToStringSlice(text, mem, at, left) ==
    IF Len(text) > left THEN Returned(mem, -1)
    ELSE Returned(Store(mem, at, text), Len(text))

(* __ToHex: from the top nibble on, without leading zeros; 0 has no digit. *)
HexChar(d) == IF d < 10 THEN ZeroChar + d ELSE 97 + d - 10
HexDigits(value, bits) ==
    LET nibble(i) == (value \div 16^(bits \div 4 - i)) % 16
    IN  Emit([i \in 1 .. bits \div 4 |-> HexChar(nibble(i))],
             [i \in 1 .. bits \div 4 |-> \E j \in 1 .. i : nibble(j) # 0])
-----------------------------------------------------------------------------
(* ToUpper takes four bytes at a time as one little-endian word.  Added    *)
(* adds two words, carries included; x - y is Added(x, WordNot(y), 1).     *)
Added(x, y, carry) ==
    LET c[i \in 1 .. 4] == IF i = 1 THEN carry ELSE (x[i - 1] + y[i - 1] + c[i - 1]) \div 256
    IN  [i \in 1 .. 4 |-> (x[i] + y[i] + c[i]) % 256]
WordNot(x) == [i \in 1 .. 4 |-> 255 - x[i]]
WordAnd(x, y) == [i \in 1 .. 4 |-> x[i] & y[i]]
Each(b) == [i \in 1 .. 4 |-> b]
ShiftRight2(x) == [i \in 1 .. 4 |-> x[i] \div 4 + (IF i = 4 THEN 0 ELSE (x[i + 1] % 4) * 64)]

ToUpperWord(eax) ==
    LET b1 == Added(WordAnd(Each(127), eax), Each(5), 0)
        b2 == Added(WordAnd(Each(127), b1), Each(26), 0)
    IN  Added(eax, WordNot(WordAnd(ShiftRight2(WordAnd(b2, WordNot(eax))), Each(32))), 1)

UpperChar(c) == IF c \in 97 .. 122 THEN c - 32 ELSE c
ToUpper(text) ==
    LET words == Len(text) \div 4
    IN  [i \in DOMAIN text |->
            IF i <= 4 * words
              THEN LET w == (i - 1) \div 4 IN ToUpperWord(SubSeq(text, 4*w + 1, 4*w + 4))[i - 4*w]
              ELSE UpperChar(text[i])]
-----------------------------------------------------------------------------
Pad(n, c) == [i \in 1 .. n |-> c]

(* ToString(AlignValue): inner is what ToHex of the value returned.        *)
Placed(v, text, space) ==
    CASE v.align = "left" -> text \o Pad(space, v.pad)
      [] v.align = "right" -> Pad(space, v.pad) \o text
      [] v.align = "center" ->
            Pad(space \div 2, v.pad) \o text \o Pad(space - space \div 2, v.pad)
ToStringAlign(v, mem, at, left) ==
    LET inner == ToStringSlice(v.text, mem, at, left)
        length == inner.length
        max_length == Max2(length, v.width)
        text == IF v.upper THEN ToUpper(v.text) ELSE v.text
    IN  IF length < 0 \/ left < max_length THEN Returned(inner.mem, -1)
        ELSE Returned(Store(mem, at, Placed(v, text, max_length - length) \o <<0>>), max_length)

ToString(v, mem, at, left) ==
    CASE v.kind = "number" -> ToStringNumber(v, mem, at, left)
      [] v.kind = "slice" -> ToStringSlice(v.text, mem, at, left)
      [] v.kind = "align" -> ToStringAlign(v, mem, at, left)

(* A length of -1 is not greater than left: the next argument then starts  *)
(* one cell earlier and has one more to use.                               *)
RECURSIVE FormatRest(_, _, _, _, _)
FormatRest(args, mem, at, left, sum) ==
    IF args = <<>> THEN Returned(Store(mem, at, <<0>>), sum)
    ELSE LET r == ToString(Head(args), mem, at, left)
         IN  IF r.length > left THEN Returned(r.mem, -1)
             ELSE FormatRest(Tail(args), r.mem, at + r.length, left - r.length, sum + r.length)
FormatTo(args, mem, max_length) == FormatRest(args, mem, 1, max_length, 0)
=============================================================================
