----------------------------- MODULE MCLibrary -----------------------------
(***************************************************************************)
(* The parts of green_turtle that share no state: each behaviour is one of *)
(* a single part, the subject, and the others stay as they are at the      *)
(* start.                                                                  *)
(***************************************************************************)
EXTENDS Utilities

CONSTANTS
    SignificandSize, DiySize, SummerBegins, SummerEnds,
    Values, Lanes, Words, HexBits, Doubles, Factors, Exponents, Intervals, Bits,
    Decimals, Arguments, MaxArguments, MaxLength, Moments, Options

VARIABLES
    subject,
    call, result

Text == INSTANCE Formatting
-----------------------------------------------------------------------------
(* Formatting: inputs around every border of the code.  Powers of ten and  *)
(* their neighbours, every lane value, every byte beside every other kind  *)
(* of byte, doubles with three bits of significand, every exponent.        *)
Near == {0, 1, 12345678, 99999999} \cup UNION {{10^i - 1, 10^i} : i \in 1 .. 7}
MCValues == {0, 1, 9, 10, 99, 100, 999, 1000, 1844} \X (Near \cup {20, 41}) \X Near
(* abcd is right for all v if it is right beside the multiples of 10^4.    *)
MCLanes == 0 .. 9999 \cup UNION {{10000 * k - 1, 10000 * k} : k \in 2 .. 9999} \cup {99999999}
Bytes == {0, 65, 96, 97, 122, 123, 128, 225}
MCWords == [1 .. 4 -> Bytes] \cup {<<b, 97, b, 255>> : b \in 0 .. 255}
           \cup [1 .. 3 -> Bytes] \cup {<<>>}
MCDoubles == ((0 .. 5) \X (0 .. 7)) \ {<<0, 0>>}
MCFactors == 2^(DiySize - 1) .. 2^(DiySize - 1) + 40 \cup 2^DiySize - 30 .. 2^DiySize - 1
MCExponents == -1137 .. 960
MCIntervals ==
    {<<Mp - (d * q) \div 4, Mp, d>> : q \in 0 .. 4, Mp \in 100 .. 400, d \in {1, 2, 5, 13, 40, 90}}
MCDecimals ==
    {<<digits, k>> : digits \in {<<1>>, <<9>>, <<1, 2>>, <<1, 0, 5>>, <<1, 2, 3, 4>>,
                                 <<1, 2, 3, 4, 5, 6, 7, 8, 9, 1, 2, 3, 4, 5, 6, 7, 8>>},
                     k \in -324 .. 308} \cup {<<<<>>, 0>>}
MCArguments ==
    {[kind |-> "slice", text |-> t] : t \in {<<>>, <<120>>, <<121, 122>>, <<97, 98, 99, 100, 101>>}}
    \cup {[kind |-> "number", text |-> <<55>>, length |-> 1],
          [kind |-> "number", text |-> <<49, 50, 51>>, length |-> 3]}
    \cup {[kind |-> "align", text |-> <<97>>, width |-> 3, pad |-> 42, align |-> a,
           upper |-> u] : a \in {"left", "right", "center"}, u \in BOOLEAN}
    \cup {[kind |-> "align", text |-> <<97, 98>>, width |-> 5, pad |-> 42, align |-> "center",
           upper |-> TRUE]}

(* Up to three options; a is also a value.                                 *)
MCOptions == UNION {[1 .. n -> {"a", "b"} \X {"", "a", "x"}] : n \in 0 .. 3}

(* Two days before and after the beginning and the end of summer time.     *)
MCMoments == {s + 5 * h : s \in {SummerBegins, SummerEnds}, h \in -10 .. 10}
             \cup {s + h : s \in {SummerBegins, SummerEnds}, h \in -3 .. 3}

(* VectorMap: pairs of keys that compare equal.                            *)
MCclass == [k \in Key |-> k \div 2]

(* MySql: no row, one, three; with NULL and empty fields.                  *)
RowA == <<[data |-> "a", len |-> 1], [data |-> Null, len |-> 0]>>
RowB == <<[data |-> "", len |-> 0], [data |-> "bc", len |-> 2]>>
MCTables == {<<>>, <<RowA>>, <<RowB, RowA, RowB>>}
MCData == {<<1>>, <<2, 3>>}

(* KqueuePoller: one handler that only reads.                              *)
MCinterest == [h \in Handler |-> IF h = 2 THEN {"read"} ELSE {"read", "write"}]
-----------------------------------------------------------------------------
map_vars == <<container, answer, request>>
text_vars == <<call, result>>
lib_vars == <<subject, map_vars, text_vars, xml_vars, stamp_vars, sql_vars, kqueue_vars,
              listen_vars>>

LibraryInit ==
    /\ subject \in {"map", "text", "xml", "header", "sql", "kqueue", "listen"}
    /\ Init /\ Text!Init /\ Xml!Init /\ Stamp!Init /\ Sql!Init /\ Kqueue!Init
    /\ Listening!Init

MapStep ==
    /\ subject = "map" /\ Next
    /\ UNCHANGED <<subject, text_vars, xml_vars, stamp_vars, sql_vars, kqueue_vars, listen_vars>>
TextStep ==
    /\ subject = "text" /\ Text!Next
    /\ UNCHANGED <<subject, map_vars, xml_vars, stamp_vars, sql_vars, kqueue_vars, listen_vars>>
XmlStep ==
    /\ subject = "xml" /\ Xml!Next
    /\ UNCHANGED <<subject, map_vars, text_vars, stamp_vars, sql_vars, kqueue_vars, listen_vars>>
StampStep ==
    /\ subject = "header" /\ Stamp!Next
    /\ UNCHANGED <<subject, map_vars, text_vars, xml_vars, sql_vars, kqueue_vars, listen_vars>>
SqlStep ==
    /\ subject = "sql" /\ Sql!Next
    /\ UNCHANGED <<subject, map_vars, text_vars, xml_vars, stamp_vars, kqueue_vars, listen_vars>>
KqueueStep ==
    /\ subject = "kqueue" /\ Kqueue!Next
    /\ UNCHANGED <<subject, map_vars, text_vars, xml_vars, stamp_vars, sql_vars, listen_vars>>
ListenStep ==
    /\ subject = "listen" /\ Listening!Next
    /\ UNCHANGED <<subject, map_vars, text_vars, xml_vars, stamp_vars, sql_vars, kqueue_vars>>
LibraryNext ==
    \/ MapStep \/ TextStep \/ XmlStep \/ StampStep \/ SqlStep \/ KqueueStep \/ ListenStep

LibrarySpec == LibraryInit /\ [][LibraryNext]_lib_vars
-----------------------------------------------------------------------------
(* Numbers, text, days and flags against their references.                 *)
ConversionsMatch == Text!ConversionsMatch
(* The steps from a double to its shortest text.                           *)
GrisuStepsMatch == Text!GrisuStepsMatch
============================================================================
