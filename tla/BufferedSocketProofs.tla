------------------------ MODULE BufferedSocketProofs ------------------------
(***************************************************************************)
(* The lemmas say, cell by cell, what the operations of Buffer do, and     *)
(* what Concatenated makes of every sequence of sequences: its recursion   *)
(* is unfolded by looking at the first position where it would fail.       *)
(*                                                                         *)
(* Receiving: for every size of the buffer and of the extra array, every   *)
(* number of bytes and every way they are split between readv calls,       *)
(* OnRead hands Decoding the stream in order, and its buffer grows by the  *)
(* backlog only.                                                           *)
(*                                                                         *)
(* Answering, in the kv sample: AnsweredInOrder for every set of sockets,  *)
(* every set of commands and any number of requests.  It says nothing of   *)
(* what waits in the two queues, so the inductive invariant adds that: the *)
(* requests without an answer are, in the order of the lock, the rest of   *)
(* process_queue_ followed by queue_.                                      *)
(*                                                                         *)
(* Sending: StreamIntact for every set of threads and lengths, every size  *)
(* of the buffer and every way the kernel splits the writes.               *)
(*                                                                         *)
(* Building: FieldsStay for every number of fields and every growth of the *)
(* string; the invariant adds where each MemberPtr points.                 *)
(***************************************************************************)
EXTENDS BufferedSocket, SequenceTheorems, WellFoundedInduction, TLAPS

(* A byte of the stream that is received, of one that is sent, or neither. *)
SentByte == Sender \X Nat \X Nat
Byte == Nat \cup {Garbage} \cup SentByte

Buffers ==
    {b \in [array : Seq(Byte), write : Nat, read : Nat, size : Nat] :
        b.read <= b.write /\ b.write <= b.size /\ Len(b.array) = b.size}

(* c is b with data behind its last readable byte.                         *)
Appends(c, b, data) ==
    /\ c \in Buffers /\ c.read = b.read /\ c.write = b.write + Len(data)
    /\ \A i \in 1 .. b.write : c.array[i] = b.array[i]
    /\ \A i \in 1 .. Len(data) : c.array[b.write + i] = data[i]

(* A position i behind the first w of m, counted from there.               *)
LEMMA Shift ==
    ASSUME NEW l \in Int, NEW w \in Nat, NEW m \in Int, NEW i \in 1 .. m, i > w
    PROVE  i - w \in 1 .. m - w /\ w + (i - w) = i /\ (l + w) + (i - w) = l + i
OBVIOUS

(* Moving k bytes from one count to the other.                             *)
LEMMA Move ==
    ASSUME NEW l \in Int, NEW w \in Int, NEW n \in Int, NEW k \in Int
    PROVE  (l + k) + ((w + n) - k) = (l + w) + n
OBVIOUS

(* A function on 1 .. n is a sequence of length n.                         *)
LEMMA FunctionIsSeq ==
    ASSUME NEW n \in Nat, NEW f \in [1 .. n -> Byte]
    PROVE  f \in Seq(Byte) /\ Len(f) = n
OBVIOUS

(* A new Buffer is empty.                                                  *)
LEMMA NewIsBuffer ==
    ASSUME NEW n \in Nat
    PROVE  NewBuffer(n) \in Buffers /\ NewBuffer(n).read = 0 /\ NewBuffer(n).write = 0
<1> DEFINE a == [i \in 1 .. n |-> Garbage]
<1>1. a \in Seq(Byte) /\ Len(a) = n
    BY DEF Byte
<1>2. NewBuffer(n) = [array |-> a, write |-> 0, read |-> 0, size |-> n]
    BY Zenon DEF NewBuffer
<1> HIDE DEF a
<1> QED BY <1>1, <1>2 DEF Buffers

(* Writing through BeginWrite() into free space, and HasWritten.           *)
LEMMA FilledAppends ==
    ASSUME NEW b \in Buffers, NEW data \in Seq(Byte), Len(data) <= WritableLength(b)
    PROVE  LET c == HasWritten(Filled(b, data), Len(data))
           IN  Appends(c, b, data) /\ c.size = b.size
<1> DEFINE a == [i \in DOMAIN b.array |->
                    IF i > b.write /\ i <= b.write + Len(data)
                    THEN data[i - b.write] ELSE b.array[i]]
           c == [array |-> a, write |-> b.write + Len(data), read |-> b.read, size |-> b.size]
<1>1. /\ b.array \in Seq(Byte) /\ b.write \in Nat /\ b.read \in Nat /\ b.size \in Nat
      /\ b.read <= b.write /\ b.write + Len(data) <= b.size /\ Len(b.array) = b.size
      /\ Len(data) \in Nat /\ DOMAIN b.array = 1 .. b.size
    BY DEF Buffers, WritableLength
<1>2. HasWritten(Filled(b, data), Len(data)) = c
    <2> DEFINE f == [array |-> a, write |-> b.write, read |-> b.read, size |-> b.size]
    <2>1. Filled(b, data) = [b EXCEPT !.array = a]
        BY Zenon DEF Filled
    <2> HIDE DEF a
    <2>2. Filled(b, data) = f
        BY Zenon, <2>1 DEF Buffers
    <2>3. HasWritten(f, Len(data)) = c
        BY DEF HasWritten
    <2> QED BY Zenon, <2>2, <2>3
<1>3. \A i \in 1 .. b.size : a[i] \in Byte
    <2> SUFFICES ASSUME NEW i \in 1 .. b.size PROVE a[i] \in Byte
        BY Zenon
    <2>1. b.array[i] \in Byte
        BY Zenon, <1>1, ElementOfSeq
    <2>2. ASSUME i > b.write, i <= b.write + Len(data) PROVE data[i - b.write] \in Byte
        BY <1>1, <2>2, ElementOfSeq
    <2> QED BY Zenon, <1>1, <2>1, <2>2
<1>4. a \in Seq(Byte) /\ Len(a) = b.size
    <2>1. a \in [1 .. b.size -> Byte]
        BY Zenon, <1>1, <1>3
    <2> HIDE DEF a
    <2> QED BY Zenon, <1>1, <2>1, FunctionIsSeq
<1>5. \A i \in 1 .. b.write : a[i] = b.array[i]
    BY <1>1
<1>6. \A i \in 1 .. Len(data) : a[b.write + i] = data[i]
    <2> SUFFICES ASSUME NEW i \in 1 .. Len(data) PROVE a[b.write + i] = data[i]
        BY Zenon
    <2>1. /\ b.write + i \in DOMAIN b.array /\ b.write + i > b.write
          /\ b.write + i <= b.write + Len(data) /\ (b.write + i) - b.write = i
        BY <1>1
    <2> QED BY Zenon, <2>1
<1> HIDE DEF a
<1>7. c \in Buffers
    BY <1>1, <1>4 DEF Buffers
<1> QED BY <1>1, <1>2, <1>5, <1>6, <1>7 DEF Appends

(* __grow_buff adds cells at the end, as many as are missing.              *)
LEMMA GrownKeeps ==
    ASSUME NEW b \in Buffers, NEW n \in Nat
    PROVE  LET c == Grown(b, n)
           IN  /\ c \in Buffers /\ c.read = b.read /\ c.write = b.write
               /\ c.size = IF n <= WritableLength(b) THEN b.size ELSE b.write + n
               /\ \A i \in 1 .. b.size : c.array[i] = b.array[i]
<1> DEFINE need == n - WritableLength(b)
           new == [i \in 1 .. need |-> Garbage]
           a == b.array \o new
           c == [array |-> a, write |-> b.write, read |-> b.read, size |-> b.size + need]
<1>1. /\ b.array \in Seq(Byte) /\ b.write \in Nat /\ b.read \in Nat /\ b.size \in Nat
      /\ b.read <= b.write /\ b.write <= b.size /\ Len(b.array) = b.size
      /\ need \in Int /\ need = n - (b.size - b.write)
    BY DEF Buffers, WritableLength
<1>2. CASE need <= 0
    BY <1>1, <1>2 DEF Grown, WritableLength
<1>3. CASE need > 0
    <2>1. Grown(b, n) = c
        BY Zenon, <1>3 DEF Grown, Buffers
    <2>2. new \in Seq(Byte) /\ Len(new) = need
        BY <1>1, <1>3 DEF Byte
    <2> HIDE DEF new
    <2>3. /\ a \in Seq(Byte) /\ Len(a) = b.size + need
          /\ \A i \in 1 .. b.size : a[i] = b.array[i]
        <3> HIDE DEF need
        <3>1. /\ a \in Seq(Byte) /\ Len(a) = Len(b.array) + Len(new)
              /\ \A i \in 1 .. Len(b.array) + Len(new) :
                    a[i] = IF i <= Len(b.array) THEN b.array[i] ELSE new[i - Len(b.array)]
            BY Zenon, <1>1, <2>2, ConcatProperties
        <3> HIDE DEF a
        <3>2. Len(a) = b.size + need
            BY Zenon, <1>1, <2>2, <3>1
        <3>3. \A i \in 1 .. b.size : i \in 1 .. Len(b.array) + Len(new) /\ i <= Len(b.array)
            BY <1>1, <1>3, <2>2
        <3> QED BY Zenon, <3>1, <3>2, <3>3
    <2> HIDE DEF a
    <2>4. c \in Buffers
        BY <1>1, <1>3, <2>3 DEF Buffers
    <2> QED BY <1>1, <1>3, <2>1, <2>3, <2>4 DEF WritableLength
<1> HIDE DEF need
<1> QED BY <1>1, <1>2, <1>3

(* Append grows the array if it must, and appends.                         *)
LEMMA AppendDataAppends ==
    ASSUME NEW b \in Buffers, NEW data \in Seq(Byte)
    PROVE  LET c == AppendData(b, data)
           IN  /\ Appends(c, b, data)
               /\ c.size = IF Len(data) <= WritableLength(b) THEN b.size
                           ELSE b.write + Len(data)
<1> DEFINE g == Grown(b, Len(data))
           c == HasWritten(Filled(g, data), Len(data))
<1>1. Len(data) \in Nat /\ b.write \in Nat /\ b.size \in Nat /\ b.write <= b.size
    BY DEF Buffers
<1>2. /\ g \in Buffers /\ g.read = b.read /\ g.write = b.write
      /\ g.size = IF Len(data) <= WritableLength(b) THEN b.size ELSE b.write + Len(data)
      /\ \A i \in 1 .. b.size : g.array[i] = b.array[i]
    BY Zenon, <1>1, GrownKeeps
<1> HIDE DEF g
<1>3. Len(data) <= WritableLength(g)
    BY <1>1, <1>2 DEF WritableLength
<1>4. Appends(c, g, data) /\ c.size = g.size
    BY Zenon, <1>2, <1>3, FilledAppends
<1> HIDE DEF c
<1>5. Appends(c, b, data)
    BY <1>1, <1>2, <1>4 DEF Appends
<1>6. AppendData(b, data) = c
    BY Zenon DEF AppendData, c, g
<1> QED BY Zenon, <1>2, <1>4, <1>5, <1>6

(* Whether or not the bytes of one readv spill over into extrabuff, they   *)
(* end up behind one another in the buffer.                                *)
LEMMA ReceivedAppends ==
    ASSUME NEW b \in Buffers, NEW data \in Seq(Byte)
    PROVE  LET c == Received(b, data)
           IN  /\ Appends(c, b, data)
               /\ c.size = IF Len(data) <= WritableLength(b) THEN b.size
                           ELSE b.write + Len(data)
<1> DEFINE w == WritableLength(b)
           n == Len(data)
           head == SubSeq(data, 1, w)
           tail == SubSeq(data, w + 1, n)
           full == HasWritten(Filled(b, head), w)
<1>1. n \in Nat /\ w \in Nat /\ w = b.size - b.write /\ b.write \in Nat /\ b.size \in Nat
    BY DEF Buffers, WritableLength
<1>2. CASE w > n
    <2>1. Received(b, data) = HasWritten(Filled(b, data), n)
        BY <1>1, <1>2 DEF Received
    <2> QED BY <1>1, <1>2, <2>1, FilledAppends
<1>3. CASE w <= n
    <2>1. /\ head \in Seq(Byte) /\ Len(head) = w
          /\ \A i \in 1 .. w : head[i] = data[i]
        <3>1. \A i \in 1 .. w : data[i] \in Byte
            BY <1>1, <1>3, ElementOfSeq
        <3> QED BY <1>1, <3>1, SubSeqProperties
    <2>2. /\ tail \in Seq(Byte) /\ Len(tail) = n - w
          /\ \A i \in 1 .. n - w : tail[i] = data[w + i]
        <3>1. \A i \in w + 1 .. n : data[i] \in Byte
            BY <1>1, <1>3, ElementOfSeq
        <3> DEFINE m == w + 1
                   t == SubSeq(data, m, n)
        <3>2. m \in Int /\ n \in Int /\ m <= n + 1 /\ n - m + 1 = n - w
            BY <1>1, <1>3
        <3>3. \A i \in 1 .. n - w : m + i - 1 = w + i
            BY <1>1
        <3> HIDE DEF n, m
        <3>4. /\ t \in Seq(Byte) /\ Len(t) = IF m <= n THEN n - m + 1 ELSE 0
              /\ \A i \in 1 .. n - m + 1 : t[i] = data[m + i - 1]
            BY <3>1, <3>2, SubSeqProperties DEF m
        <3>5. tail = t
            BY Zenon DEF m
        <3> HIDE DEF t, tail, w
        <3>6. Len(t) = n - w
            BY <1>1, <1>3, <3>2, <3>4
        <3>7. \A i \in 1 .. n - w : t[i] = data[w + i]
            BY Zenon, <3>2, <3>3, <3>4
        <3> QED BY Zenon, <3>4, <3>5, <3>6, <3>7
    <2>3. Received(b, data) = IF n - w > 0 THEN AppendData(full, tail) ELSE full
        BY Zenon, <1>1, <1>3 DEF Received
    <2> HIDE DEF head, tail
    <2>4. Appends(full, b, head) /\ full.size = b.size
        BY <1>1, <2>1, FilledAppends
    <2> HIDE DEF full
    <2>5. full \in Buffers /\ full.write = b.size /\ WritableLength(full) = 0
        BY <1>1, <2>1, <2>4 DEF Appends, WritableLength
    <2>6. CASE n = w
        <3>1. Appends(full, b, data)
            BY Zenon, <1>1, <2>1, <2>4, <2>6 DEF Appends
        <3> QED BY <1>1, <2>3, <2>4, <2>6, <3>1
    <2>7. CASE n > w
        <3> DEFINE c == AppendData(full, tail)
        <3>1. Appends(c, full, tail) /\ c.size = b.size + (n - w)
            BY <1>1, <2>2, <2>5, <2>7, AppendDataAppends
        <3>2. Received(b, data) = c
            BY <1>1, <2>3, <2>7
        <3> HIDE DEF c
        <3> HIDE DEF n, w
        <3>3. /\ c \in Buffers /\ c.read = b.read /\ c.write = b.write + n
              /\ \A i \in 1 .. b.write : c.array[i] = b.array[i]
            <4>1. c.write = b.size + (n - w)
                BY Zenon, <2>2, <2>5, <3>1 DEF Appends
            <4>2. c \in Buffers /\ c.read = b.read
                BY Zenon, <2>4, <3>1 DEF Appends
            <4>3. \A i \in 1 .. b.write : i \in 1 .. full.write
                BY <1>1, <2>5
            <4>4. \A i \in 1 .. b.write : c.array[i] = b.array[i]
                BY Zenon, <2>4, <3>1, <4>3 DEF Appends
            <4> QED BY <1>1, <4>1, <4>2, <4>4
        <3>4. \A i \in 1 .. n : c.array[b.write + i] = data[i]
            <4> SUFFICES ASSUME NEW i \in 1 .. n PROVE c.array[b.write + i] = data[i]
                BY Zenon
            <4>1. CASE i <= w
                <5>1. i \in 1 .. w /\ b.write + i \in 1 .. full.write
                    BY <1>1, <2>5, <4>1
                <5>2. c.array[b.write + i] = full.array[b.write + i]
                    BY Zenon, <3>1, <5>1 DEF Appends
                <5>3. full.array[b.write + i] = head[i]
                    BY Zenon, <2>1, <2>4, <5>1 DEF Appends
                <5> QED BY Zenon, <2>1, <5>1, <5>2, <5>3
            <4>2. CASE i > w
                <5>1. /\ i - w \in 1 .. n - w /\ b.write + i = full.write + (i - w)
                      /\ w + (i - w) = i
                    <6>1. full.write = b.write + w
                        BY <1>1, <2>5
                    <6>2. /\ i - w \in 1 .. n - w /\ w + (i - w) = i
                          /\ (b.write + w) + (i - w) = b.write + i
                        <7>1. b.write \in Int /\ w \in Nat /\ n \in Int
                            BY <1>1
                        <7> QED BY Zenon, <4>2, <7>1, Shift
                    <6> QED BY Zenon, <6>1, <6>2
                <5>2. c.array[full.write + (i - w)] = tail[i - w]
                    BY Zenon, <2>2, <3>1, <5>1 DEF Appends
                <5>3. tail[i - w] = data[w + (i - w)]
                    BY Zenon, <2>2, <5>1
                <5> QED BY Zenon, <5>1, <5>2, <5>3
            <4> QED BY <1>1, <4>1, <4>2
        <3>5. Appends(c, b, data)
            BY Zenon, <3>3, <3>4 DEF Appends, n
        <3>6. c.size = b.write + n /\ ~(n <= w)
            BY <1>1, <2>7, <3>1
        <3> QED BY Zenon, <3>2, <3>5, <3>6 DEF n, w
    <2> QED BY <1>1, <1>3, <2>6, <2>7
<1> QED BY <1>1, <1>2, <1>3

(* HasRead moves the read offset only.                                     *)
LEMMA HasReadKeeps ==
    ASSUME NEW b \in Buffers, NEW k \in 0 .. b.write - b.read
    PROVE  LET c == HasRead(b, k)
           IN  /\ c \in Buffers /\ c.read = b.read + k /\ c.write = b.write
               /\ c.size = b.size /\ c.array = b.array
<1>1. HasRead(b, k) = [array |-> b.array, write |-> b.write, read |-> b.read + k, size |-> b.size]
    BY DEF HasRead, Buffers
<1> QED BY <1>1 DEF Buffers

(* Retrieve moves the readable bytes to the front.                         *)
LEMMA RetrieveFronts ==
    ASSUME NEW b \in Buffers
    PROVE  LET c == Retrieve(b)
           IN  /\ c \in Buffers /\ c.read = 0 /\ c.write = b.write - b.read /\ c.size = b.size
               /\ \A i \in 1 .. b.write - b.read : c.array[i] = b.array[b.read + i]
<1> DEFINE len == b.write - b.read
           a == [i \in DOMAIN b.array |-> IF i <= len THEN b.array[b.read + i] ELSE b.array[i]]
           c == [array |-> a, write |-> len, read |-> 0, size |-> b.size]
<1>1. /\ b.array \in Seq(Byte) /\ b.write \in Nat /\ b.read \in Nat /\ b.size \in Nat /\ len \in Nat
      /\ b.write <= b.size /\ Len(b.array) = b.size /\ DOMAIN b.array = 1 .. b.size
      /\ len <= b.size
      /\ b = [array |-> b.array, write |-> b.write, read |-> b.read, size |-> b.size]
    BY DEF Buffers
<1>2. Retrieve(b) = c
    <2>1. ReadableLength(b) = len
        BY Zenon DEF ReadableLength
    <2>2. Retrieve(b) = [b EXCEPT !.array = a, !.read = 0, !.write = len]
        BY Zenon, <2>1 DEF Retrieve
    <2> HIDE DEF a, len
    <2> QED BY Zenon, <1>1, <2>2
<1>3. \A i \in 1 .. b.size : a[i] \in Byte
    <2> SUFFICES ASSUME NEW i \in 1 .. b.size PROVE a[i] \in Byte
        BY Zenon
    <2>1. b.array[i] \in Byte
        BY Zenon, <1>1, ElementOfSeq
    <2>2. ASSUME i <= len PROVE b.array[b.read + i] \in Byte
        BY <1>1, <2>2, ElementOfSeq
    <2> QED BY Zenon, <1>1, <2>1, <2>2
<1>4. a \in Seq(Byte) /\ Len(a) = b.size
    <2>1. a \in [1 .. b.size -> Byte]
        BY Zenon, <1>1, <1>3
    <2> HIDE DEF a
    <2> QED BY Zenon, <1>1, <2>1, FunctionIsSeq
<1>5. \A i \in 1 .. len : a[i] = b.array[b.read + i]
    BY <1>1
<1> HIDE DEF a
<1>6. c \in Buffers
    BY <1>1, <1>4 DEF Buffers
<1> QED BY <1>1, <1>2, <1>5, <1>6

(* So does it with what Decoding left.                                     *)
LEMMA RetrieveMoves ==
    ASSUME NEW b \in Buffers, b.read = 0, NEW k \in 0 .. b.write
    PROVE  LET c == Retrieve(HasRead(b, k))
           IN  /\ c \in Buffers /\ c.read = 0 /\ c.write = b.write - k /\ c.size = b.size
               /\ \A i \in 1 .. b.write - k : c.array[i] = b.array[k + i]
<1>1. b.write \in Nat /\ k \in 0 .. b.write - b.read /\ b.read + k = k
    BY DEF Buffers
<1>2. /\ HasRead(b, k) \in Buffers /\ HasRead(b, k).read = k /\ HasRead(b, k).write = b.write
      /\ HasRead(b, k).size = b.size /\ HasRead(b, k).array = b.array
    BY Zenon, <1>1, HasReadKeeps
<1> QED BY <1>2, RetrieveFronts

(* A non-empty set of positions has a first one.                           *)
LEMMA FirstPosition ==
    ASSUME NEW T, T \subseteq Nat, T # {}
    PROVE  \E p \in T : \A i \in T : p <= i
<1>1. PICK p \in T : \A i \in T : <<i, p>> \notin OpToRel(<, Nat)
    BY Zenon, NatLessThanWellFounded, WFMin
<1>2. ASSUME NEW i \in T PROVE p <= i
    <2>1. i \in Nat /\ p \in Nat
        BY Zenon
    <2>2. ~(i < p)
        BY Zenon, <1>1, <2>1 DEF OpToRel
    <2> QED
        BY <2>1, <2>2
<1> QED
    BY Zenon, <1>2
-----------------------------------------------------------------------------
(* f joins the sequences of s one by one, as Concatenated's function does. *)
Joins(f, s) == f = [i \in 0 .. Len(s) |-> IF i = 0 THEN <<>> ELSE f[i - 1] \o s[i]]
JoinsUpTo(g, s, n) == \A i \in 0 .. n : g[i] = IF i = 0 THEN <<>> ELSE g[i - 1] \o s[i]

(* Up to every position there is such a function.                          *)
LEMMA JoinsStepByStep ==
    ASSUME NEW S, NEW s \in Seq(Seq(S)), NEW n \in 0 .. Len(s)
    PROVE  \E g \in [0 .. n -> Seq(S)] : JoinsUpTo(g, s, n)
<1> DEFINE T == {m \in 0 .. Len(s) : ~ \E g \in [0 .. m -> Seq(S)] : JoinsUpTo(g, s, m)}
<1>1. SUFFICES T = {}
    BY Zenon, <1>1
<1>2. SUFFICES ASSUME T # {} PROVE FALSE
    BY Zenon
<1>3. T \subseteq Nat
    OBVIOUS
<1>4. PICK m \in T : \A i \in T : m <= i
    BY Zenon, <1>2, <1>3, FirstPosition
<1>5. m \in 0 .. Len(s) /\ ~ \E g \in [0 .. m -> Seq(S)] : JoinsUpTo(g, s, m)
    BY Zenon, <1>4
<1>6. m # 0
    <2> SUFFICES ASSUME m = 0 PROVE FALSE
        BY Zenon
    <2>1. [i \in 0 .. 0 |-> <<>>] \in [0 .. 0 -> Seq(S)]
        OBVIOUS
    <2>2. JoinsUpTo([i \in 0 .. 0 |-> <<>>], s, 0)
        BY DEF JoinsUpTo
    <2> QED
        BY Zenon, <1>5, <2>1, <2>2
<1>7. m \in 1 .. Len(s) /\ m - 1 \in 0 .. Len(s) /\ ~(m <= m - 1)
    BY <1>5, <1>6
<1>8. m - 1 \notin T
    BY Zenon, <1>4, <1>7
<1>9. PICK g \in [0 .. m - 1 -> Seq(S)] : JoinsUpTo(g, s, m - 1)
    BY Zenon, <1>7, <1>8
<1> HIDE DEF T
<1> DEFINE last == g[m - 1] \o s[m]
           h == [i \in 0 .. m |-> IF i = m THEN last ELSE g[i]]
<1>10. last \in Seq(S)
    BY <1>7
<1> HIDE DEF last
<1>11. h \in [0 .. m -> Seq(S)]
    BY <1>7, <1>10
<1>12. \A i \in 0 .. m : h[i] = IF i = m THEN last ELSE g[i]
    BY Zenon
<1> HIDE DEF h
<1>13. ASSUME NEW i \in 0 .. m PROVE h[i] = IF i = 0 THEN <<>> ELSE h[i - 1] \o s[i]
    <2>1. CASE i = m
        <3>1. m - 1 \in 0 .. m /\ m - 1 # m
            BY <1>7
        <3>2. h[m - 1] = g[m - 1] /\ h[m] = last
            BY Zenon, <1>12, <2>1, <3>1
        <3> QED
            BY Zenon, <1>6, <2>1, <3>2 DEF last
    <2>2. CASE i # m
        <3>1. i \in 0 .. m - 1 /\ (i # 0 => i - 1 \in 0 .. m /\ i - 1 # m)
            BY <1>7, <2>2
        <3>2. h[i] = g[i] /\ (i # 0 => h[i - 1] = g[i - 1])
            BY Zenon, <1>12, <2>2, <3>1
        <3>3. g[i] = IF i = 0 THEN <<>> ELSE g[i - 1] \o s[i]
            BY Zenon, <1>9, <3>1 DEF JoinsUpTo
        <3> QED
            BY Zenon, <3>2, <3>3
    <2> QED
        BY Zenon, <2>1, <2>2
<1> QED
    BY Zenon, <1>5, <1>11, <1>13 DEF JoinsUpTo

(* So Concatenated's function is one.                                      *)
LEMMA JoinsExists ==
    ASSUME NEW S, NEW s \in Seq(Seq(S))
    PROVE  \E f : Joins(f, s) /\ f \in [0 .. Len(s) -> Seq(S)]
<1>1. Len(s) \in 0 .. Len(s)
    OBVIOUS
<1>2. PICK g \in [0 .. Len(s) -> Seq(S)] : JoinsUpTo(g, s, Len(s))
    BY Zenon, <1>1, JoinsStepByStep
<1>3. g = [i \in 0 .. Len(s) |-> IF i = 0 THEN <<>> ELSE g[i - 1] \o s[i]]
    BY Zenon, <1>2 DEF JoinsUpTo
<1> QED
    BY Zenon, <1>3 DEF Joins

(* Two such functions are the same.                                        *)
LEMMA JoinsAgree ==
    ASSUME NEW s, NEW f, NEW g, NEW n \in Nat, JoinsUpTo(f, s, n), JoinsUpTo(g, s, n)
    PROVE  \A k \in 0 .. n : f[k] = g[k]
<1> DEFINE T == {m \in 0 .. n : f[m] # g[m]}
<1> SUFFICES ASSUME T # {} PROVE FALSE
    BY Zenon
<1>1. T \subseteq Nat
    OBVIOUS
<1>2. PICK m \in T : \A i \in T : m <= i
    BY Zenon, <1>1, FirstPosition
<1>3. m \in 0 .. n /\ f[m] # g[m]
    BY Zenon, <1>2
<1>4. f[m] = (IF m = 0 THEN <<>> ELSE f[m - 1] \o s[m])
    BY Zenon, <1>3 DEF JoinsUpTo
<1>5. g[m] = (IF m = 0 THEN <<>> ELSE g[m - 1] \o s[m])
    BY Zenon, <1>3 DEF JoinsUpTo
<1>6. m # 0
    BY Zenon, <1>3, <1>4, <1>5
<1>7. m - 1 \in 0 .. n /\ ~(m <= m - 1)
    BY <1>3, <1>6
<1>8. f[m - 1] = g[m - 1]
    BY Zenon, <1>2, <1>7
<1> QED
    BY Zenon, <1>3, <1>4, <1>5, <1>6, <1>8

(* What Concatenated computes, and that both its users mean the same.      *)
Flat(s) == (CHOOSE f : Joins(f, s))[Len(s)]

(* Flat is the Concatenated of both instances.                             *)
LEMMA ConcatenatedIs ==
    ASSUME NEW s
    PROVE  Send!Concatenated(s) = Flat(s) /\ Message!Concatenated(s) = Flat(s)
BY Zenon DEF Send!Concatenated, Message!Concatenated, Joins, Flat

(* Its function.                                                           *)
LEMMA FlatFunction ==
    ASSUME NEW S, NEW s \in Seq(Seq(S))
    PROVE  \E f \in [0 .. Len(s) -> Seq(S)] : Flat(s) = f[Len(s)] /\ JoinsUpTo(f, s, Len(s))
<1> DEFINE f == CHOOSE f : Joins(f, s)
<1>1. PICK g : Joins(g, s) /\ g \in [0 .. Len(s) -> Seq(S)]
    BY Zenon, JoinsExists
<1>2. Joins(f, s)
    BY Zenon, <1>1
<1> HIDE DEF f
<1>3. JoinsUpTo(f, s, Len(s)) /\ DOMAIN f = 0 .. Len(s)
    BY Zenon, <1>2 DEF Joins, JoinsUpTo
<1>4. JoinsUpTo(g, s, Len(s)) /\ DOMAIN g = 0 .. Len(s)
    BY Zenon, <1>1 DEF Joins, JoinsUpTo
<1>5. \A k \in 0 .. Len(s) : f[k] = g[k]
    <2>1. Len(s) \in Nat
        OBVIOUS
    <2> QED
        BY <1>3, <1>4, <2>1, JoinsAgree
<1>6. f \in [0 .. Len(s) -> Seq(S)]
    <2>1. f = [k \in 0 .. Len(s) |-> f[k]]
        BY Zenon, <1>2, <1>3 DEF Joins
    <2> QED
        BY Zenon, <1>1, <1>5, <2>1
<1>7. Flat(s) = f[Len(s)]
    BY Zenon DEF Flat, f
<1> QED
    BY Zenon, <1>3, <1>6, <1>7

(* Nothing makes nothing, and anything makes a sequence.                   *)
LEMMA FlatType ==
    ASSUME NEW S, NEW s \in Seq(Seq(S))
    PROVE  Flat(s) \in Seq(S) /\ (s = <<>> => Flat(s) = <<>>)
<1>1. Len(s) \in 0 .. Len(s) /\ (s = <<>> => Len(s) = 0)
    OBVIOUS
<1>2. PICK f \in [0 .. Len(s) -> Seq(S)] : Flat(s) = f[Len(s)] /\ JoinsUpTo(f, s, Len(s))
    BY Zenon, FlatFunction
<1>3. Flat(s) \in Seq(S)
    BY Zenon, <1>1, <1>2
<1>4. Len(s) = 0 => f[Len(s)] = <<>>
    BY Zenon, <1>1, <1>2 DEF JoinsUpTo
<1> QED
    BY Zenon, <1>1, <1>2, <1>3, <1>4

(* The last sequence adds its elements at the end.                         *)
LEMMA FlatExtends ==
    ASSUME NEW S, NEW s \in Seq(Seq(S)), NEW t \in Seq(Seq(S)),
           Len(t) = Len(s) + 1, \A i \in 1 .. Len(s) : t[i] = s[i]
    PROVE  Flat(t) = Flat(s) \o t[Len(s) + 1]
<1>1. PICK f : Flat(t) = f[Len(t)] /\ JoinsUpTo(f, t, Len(t))
    BY Zenon, FlatFunction
<1>2. PICK g : Flat(s) = g[Len(s)] /\ JoinsUpTo(g, s, Len(s))
    BY Zenon, FlatFunction
<1>3. /\ Len(s) \in Nat /\ Len(t) \in 0 .. Len(t) /\ Len(t) # 0 /\ Len(t) - 1 = Len(s)
      /\ Len(s) \in 0 .. Len(s)
    OBVIOUS
<1>4. f[Len(t)] = f[Len(t) - 1] \o t[Len(t)]
    BY Zenon, <1>1, <1>3 DEF JoinsUpTo
<1>5. JoinsUpTo(f, s, Len(s))
    <2> SUFFICES ASSUME NEW i \in 0 .. Len(s)
                 PROVE  f[i] = IF i = 0 THEN <<>> ELSE f[i - 1] \o s[i]
        BY Zenon DEF JoinsUpTo
    <2>1. i \in 0 .. Len(t) /\ (i # 0 => t[i] = s[i])
        OBVIOUS
    <2> QED
        BY Zenon, <1>1, <2>1 DEF JoinsUpTo
<1>6. \A k \in 0 .. Len(s) : f[k] = g[k]
    BY <1>2, <1>3, <1>5, JoinsAgree
<1>7. f[Len(s)] = g[Len(s)]
    BY Zenon, <1>3, <1>6
<1> QED
    BY Zenon, <1>1, <1>2, <1>3, <1>4, <1>7
-----------------------------------------------------------------------------
(* The k-th byte of the stream is k: what was decoded is the first part,   *)
(* what is buffered the next.                                              *)
ReceiveInv ==
    /\ arrived \in 0 .. MaxBytes /\ taken \in 0 .. arrived /\ failed \in BOOLEAN
    /\ rcv_buffer \in Buffers /\ rcv_buffer.read = 0
    /\ decoded \in Seq(Byte)
    /\ Len(decoded) + rcv_buffer.write = taken
    /\ \A i \in 1 .. Len(decoded) : decoded[i] = i
    /\ \A i \in 1 .. rcv_buffer.write : rcv_buffer.array[i] = Len(decoded) + i

(* The first k elements of a sequence.                                     *)
LEMMA FirstElements ==
    ASSUME NEW s, NEW k \in Nat, \A i \in 1 .. k : s[i] \in Byte
    PROVE  /\ SubSeq(s, 1, k) \in Seq(Byte) /\ Len(SubSeq(s, 1, k)) = k
           /\ \A i \in 1 .. k : SubSeq(s, 1, k)[i] = s[i]
BY SubSeqProperties

(* An OnRead that reads n bytes and decodes k keeps the invariant, and     *)
(* does to the array what GrowthIsBacklog says.                            *)
LEMMA OnReadKeeps ==
    ASSUME ReceiveInv, NEW n \in 1 .. MaxBytes, NEW k \in 0 .. MaxBytes, OnRead(n, k)
    PROVE  /\ ReceiveInv'
           /\ rcv_buffer'.size > rcv_buffer.size =>
                 rcv_buffer'.size = ReadableLength(rcv_buffer) + (taken' - taken)
<1> DEFINE b == rcv_buffer
           data == NextBytes(n)
           c == Received(b, data)
           d == SubSeq(Readable(c), 1, k)
<1>1. /\ b \in Buffers /\ b.read = 0 /\ b.write \in Nat /\ b.size \in Nat /\ b.write <= b.size
      /\ taken \in Nat /\ arrived \in Nat /\ arrived <= MaxBytes /\ taken + n <= arrived
      /\ n \in Nat /\ k \in Nat /\ MaxBytes \in Nat /\ Len(decoded) \in Nat
      /\ decoded \in Seq(Byte) /\ Len(decoded) + b.write = taken
    BY ReceiveAssumption DEF ReceiveInv, OnRead, Buffers
<1>2. /\ data \in Seq(Byte) /\ Len(data) = n
      /\ \A i \in 1 .. n : data[i] = taken + i
    BY <1>1 DEF NextBytes, Byte
<1> HIDE DEF data
<1>3. /\ Appends(c, b, data)
      /\ c.size = IF n <= WritableLength(b) THEN b.size ELSE b.write + n
    BY Zenon, <1>1, <1>2, ReceivedAppends
<1>4. /\ k <= ReadableLength(c) /\ decoded' = decoded \o d
      /\ rcv_buffer' = Retrieve(HasRead(c, k)) /\ taken' = taken + n
      /\ arrived' = arrived /\ failed' = failed
    BY Zenon DEF OnRead, data
<1> HIDE DEF c
<1>5. /\ c \in Buffers /\ c.read = 0 /\ c.write = b.write + n /\ k \in 0 .. c.write
      /\ c.write \in Nat /\ c.size \in Nat
    BY SMTT(30), <1>1, <1>2, <1>3, <1>4 DEF Appends, ReadableLength, Buffers
<1>6. \A i \in 1 .. c.write : c.array[i] = Len(decoded) + i
    <2> SUFFICES ASSUME NEW i \in 1 .. c.write PROVE c.array[i] = Len(decoded) + i
        BY Zenon
    <2>1. CASE i <= b.write
        <3>1. i \in 1 .. b.write
            BY <1>1, <2>1
        <3>2. c.array[i] = b.array[i]
            BY Zenon, <1>3, <3>1 DEF Appends
        <3>3. b.array[i] = Len(decoded) + i
            BY Zenon, <3>1 DEF ReceiveInv
        <3> QED BY Zenon, <3>2, <3>3
    <2>2. CASE i > b.write
        <3>1. /\ i - b.write \in 1 .. n /\ b.write + (i - b.write) = i
              /\ taken + (i - b.write) = Len(decoded) + i
            <4>1. c.write - b.write = n /\ c.write \in Int /\ b.write \in Nat
                BY <1>1, <1>5
            <4>2. Len(decoded) \in Int /\ Len(decoded) + b.write = taken
                BY <1>1
            <4>3. /\ i - b.write \in 1 .. c.write - b.write /\ b.write + (i - b.write) = i
                  /\ (Len(decoded) + b.write) + (i - b.write) = Len(decoded) + i
                BY Zenon, <2>2, <4>1, <4>2, Shift
            <4> QED BY Zenon, <4>1, <4>2, <4>3
        <3>2. c.array[b.write + (i - b.write)] = data[i - b.write]
            BY Zenon, <1>2, <1>3, <3>1 DEF Appends
        <3>3. data[i - b.write] = taken + (i - b.write)
            BY Zenon, <1>2, <3>1
        <3> QED BY Zenon, <3>1, <3>2, <3>3
    <2> QED BY <1>1, <1>5, <2>1, <2>2
<1>7. d \in Seq(Byte) /\ Len(d) = k /\ \A i \in 1 .. k : d[i] = Len(decoded) + i
    <2>1. \A i \in 1 .. c.write : c.array[i] \in Byte
        BY <1>1, <1>5, <1>6 DEF Byte
    <2>2. /\ Readable(c) = SubSeq(c.array, 1, c.write)
          /\ \A i \in 1 .. c.write : Readable(c)[i] = c.array[i]
        BY <1>5, <2>1, SubSeqProperties DEF Readable
    <2> HIDE DEF ReceiveInv
    <2>3. \A i \in 1 .. k : Readable(c)[i] \in Byte
        BY <1>5, <2>1, <2>2
    <2>4. d \in Seq(Byte) /\ Len(d) = k /\ \A i \in 1 .. k : d[i] = Readable(c)[i]
        BY Zenon, <1>1, <2>3, FirstElements
    <2> QED BY <1>5, <1>6, <2>2, <2>4
<1> HIDE DEF d
<1>8. /\ rcv_buffer' \in Buffers /\ rcv_buffer'.read = 0
      /\ rcv_buffer'.write = c.write - k /\ rcv_buffer'.size = c.size
      /\ \A i \in 1 .. c.write - k : rcv_buffer'.array[i] = c.array[k + i]
    BY Zenon, <1>4, <1>5, RetrieveMoves
<1>9. /\ decoded' \in Seq(Byte) /\ Len(decoded') = Len(decoded) + k
      /\ \A i \in 1 .. Len(decoded) + k :
            decoded'[i] = IF i <= Len(decoded) THEN decoded[i] ELSE d[i - Len(decoded)]
    BY Zenon, <1>1, <1>4, <1>7, ConcatProperties
<1>10. \A i \in 1 .. Len(decoded') : decoded'[i] = i
    <2> SUFFICES ASSUME NEW i \in 1 .. Len(decoded') PROVE decoded'[i] = i
        BY Zenon
    <2>1. CASE i <= Len(decoded)
        BY <1>1, <1>9, <2>1 DEF ReceiveInv
    <2>2. CASE i > Len(decoded)
        <3>1. i - Len(decoded) \in 1 .. k
            BY <1>1, <1>9, <2>2
        <3> QED BY <1>1, <1>7, <1>9, <2>2, <3>1
    <2> QED BY <1>1, <1>9, <2>1, <2>2
<1>11. \A i \in 1 .. rcv_buffer'.write : rcv_buffer'.array[i] = Len(decoded') + i
    <2> SUFFICES ASSUME NEW i \in 1 .. rcv_buffer'.write
                 PROVE  rcv_buffer'.array[i] = Len(decoded') + i
        BY Zenon
    <2>1. i \in 1 .. c.write - k /\ k + i \in 1 .. c.write
        BY SMTT(30), <1>1, <1>5, <1>8
    <2>2. rcv_buffer'.array[i] = Len(decoded) + (k + i)
        BY Zenon, <1>6, <1>8, <2>1
    <2> QED BY <1>1, <1>9, <2>1, <2>2
<1>12. ReceiveInv'
    <2>1. Len(decoded') + rcv_buffer'.write = taken'
        <3>1. (Len(decoded) + k) + (c.write - k) = taken + n
            <4>1. Len(decoded) \in Int /\ b.write \in Int /\ n \in Int /\ k \in Int
                BY <1>1
            <4>2. (Len(decoded) + k) + ((b.write + n) - k) = (Len(decoded) + b.write) + n
                BY <4>1, Move
            <4>3. Len(decoded) + b.write = taken
                BY Zenon, <1>1
            <4> QED BY Zenon, <1>5, <4>2, <4>3
        <3> QED BY Zenon, <1>4, <1>8, <1>9, <3>1
    <2>2. arrived' \in 0 .. MaxBytes /\ taken' \in 0 .. arrived' /\ failed' \in BOOLEAN
        BY <1>1, <1>4 DEF ReceiveInv
    <2> QED BY Zenon, <1>8, <1>9, <1>10, <1>11, <2>1, <2>2 DEF ReceiveInv
<1>13. ASSUME rcv_buffer'.size > b.size
       PROVE  rcv_buffer'.size = ReadableLength(b) + (taken' - taken)
    <2>1. n \in Int /\ b.write \in Int /\ taken \in Int /\ b.size \in Int
        BY <1>1
    <2>2. c.size # b.size
        BY <1>8, <1>13, <2>1
    <2>3. c.size = b.write + n
        BY Zenon, <1>3, <2>2
    <2>4. b.write - 0 = b.write /\ (taken + n) - taken = n
        BY <2>1
    <2>5. ReadableLength(b) = b.write
        BY Zenon, <1>1, <2>4 DEF ReadableLength
    <2> QED BY Zenon, <1>4, <1>8, <2>3, <2>4, <2>5
<1> QED BY Zenon, <1>12, <1>13

(* Every step keeps the invariant.                                         *)
LEMMA NextKeeps == ReceiveInv /\ [Next]_vars => ReceiveInv'
<1> SUFFICES ASSUME ReceiveInv, [Next]_vars PROVE ReceiveInv'
    BY Zenon
<1>1. CASE Arrive
    BY <1>1, ReceiveAssumption DEF ReceiveInv, Arrive
<1>2. CASE \E n \in 1 .. MaxBytes, k \in 0 .. MaxBytes : OnRead(n, k)
    BY Zenon, <1>2, OnReadKeeps
<1>3. CASE OnReadError
    BY Zenon, <1>3 DEF ReceiveInv, OnReadError
<1>4. CASE UNCHANGED vars
    BY Zenon, <1>4 DEF ReceiveInv, vars
<1> QED BY Zenon, <1>1, <1>2, <1>3, <1>4 DEF Next

(* The invariant of every behaviour.                                       *)
LEMMA AlwaysReceiveInv == Spec => []ReceiveInv
<1>1. Init => ReceiveInv
    <2> SUFFICES ASSUME Init PROVE ReceiveInv
        BY Zenon
    <2>1. /\ rcv_buffer \in Buffers /\ rcv_buffer.read = 0 /\ rcv_buffer.write = 0
        BY Zenon, NewIsBuffer, ReceiveAssumption DEF Init
    <2>2. decoded \in Seq(Byte) /\ Len(decoded) = 0 /\ arrived = 0 /\ taken = 0 /\ failed = FALSE
        BY Zenon, EmptySeq DEF Init
    <2>3. Len(decoded) + rcv_buffer.write = taken
        BY <2>1, <2>2
    <2>4. /\ \A i \in 1 .. Len(decoded) : FALSE
          /\ \A i \in 1 .. rcv_buffer.write : FALSE
        BY <2>1, <2>2
    <2>5. arrived \in 0 .. MaxBytes /\ taken \in 0 .. arrived /\ failed \in BOOLEAN
        <3>1. 0 \in 0 .. MaxBytes /\ 0 \in 0 .. 0
            BY ReceiveAssumption
        <3> QED BY Zenon, <2>2, <3>1
    <2> QED BY Zenon, <2>1, <2>2, <2>3, <2>4, <2>5 DEF ReceiveInv
<1> QED BY <1>1, NextKeeps, PTL DEF Spec

(* For all sizes and splits, what Decoding consumed and what is buffered   *)
(* is the stream in order (BufferedSocket::OnRead).                        *)
THEOREM AlwaysReceivedInOrder == Spec => []ReceivedInOrder
<1>1. ReceiveInv => ReceivedInOrder
    <2> SUFFICES ASSUME ReceiveInv PROVE ReceivedInOrder
        BY Zenon
    <2> DEFINE b == rcv_buffer
               r == SubSeq(b.array, 1, b.write)
    <2>1. /\ b \in Buffers /\ b.read = 0 /\ b.write \in Nat /\ taken \in Nat
          /\ decoded \in Seq(Byte) /\ Len(decoded) \in Nat /\ Len(decoded) + b.write = taken
        BY ReceiveAssumption DEF ReceiveInv, Buffers
    <2>2. Readable(b) = r
        BY <2>1 DEF Readable
    <2>3. /\ r \in Seq(Byte) /\ Len(r) = b.write
          /\ \A i \in 1 .. b.write : r[i] = Len(decoded) + i
        <3>1. \A i \in 1 .. b.write : b.array[i] = Len(decoded) + i /\ b.array[i] \in Byte
            BY <2>1 DEF ReceiveInv, Byte
        <3> QED BY <2>1, <3>1, SubSeqProperties
    <2> HIDE DEF r
    <2>4. /\ decoded \o r \in Seq(Byte) /\ Len(decoded \o r) = taken
          /\ \A i \in 1 .. taken :
                (decoded \o r)[i] = IF i <= Len(decoded) THEN decoded[i] ELSE r[i - Len(decoded)]
        BY <2>1, <2>3, ConcatProperties
    <2>5. \A i \in 1 .. taken : (decoded \o r)[i] = i
        <3> SUFFICES ASSUME NEW i \in 1 .. taken PROVE (decoded \o r)[i] = i
            BY Zenon
        <3>1. CASE i <= Len(decoded)
            BY <2>1, <2>4, <3>1 DEF ReceiveInv
        <3>2. CASE i > Len(decoded)
            <4>1. i - Len(decoded) \in 1 .. b.write
                BY <2>1, <3>2
            <4> QED BY <2>1, <2>3, <2>4, <3>2, <4>1
        <3>3. i <= Len(decoded) \/ i > Len(decoded)
            BY <2>1
        <3> QED BY Zenon, <3>1, <3>2, <3>3
    <2>6. Stream(taken) \in Seq(Byte) /\ Len(Stream(taken)) = taken
          /\ \A i \in 1 .. taken : Stream(taken)[i] = i
        BY <2>1 DEF Stream, Byte
    <2>7. decoded \o r = Stream(taken)
        BY Zenon, <2>4, <2>5, <2>6, SeqEqual
    <2> QED BY Zenon, <2>2, <2>7 DEF ReceivedInOrder
<1> QED BY <1>1, AlwaysReceiveInv, PTL

(* For all sizes and splits, the array grows only to hold the backlog and  *)
(* the bytes of one readv, and the backlog starts it after every read.     *)
THEOREM GrowsByBacklogOnly == Spec => GrowthIsBacklog
<1> DEFINE A == /\ rcv_buffer'.read = 0
                /\ rcv_buffer'.size > rcv_buffer.size =>
                      rcv_buffer'.size = ReadableLength(rcv_buffer) + (taken' - taken)
<1>1. ReceiveInv /\ [Next]_vars => [A]_vars
    <2> SUFFICES ASSUME ReceiveInv, Next PROVE A
        BY Zenon DEF A
    <2>1. ReceiveInv'
        BY Zenon, NextKeeps
    <2>2. CASE \E n \in 1 .. MaxBytes, k \in 0 .. MaxBytes : OnRead(n, k)
        BY Zenon, <2>1, <2>2, OnReadKeeps DEF ReceiveInv
    <2>3. CASE Arrive \/ OnReadError
        <3>1. rcv_buffer' = rcv_buffer /\ rcv_buffer.size \in Nat
            BY Zenon, <2>3 DEF Arrive, OnReadError, ReceiveInv, Buffers
        <3> QED BY <2>1, <3>1 DEF ReceiveInv
    <2> QED BY Zenon, <2>2, <2>3 DEF Next
<1> QED BY <1>1, AlwaysReceiveInv, PTL DEF Spec, GrowthIsBacklog
-----------------------------------------------------------------------------
Msg ==
    {[handler |-> h, opcode |-> c.opcode, seq |-> n, body |-> Encoded(c.strings)] :
        h \in Handler, c \in Command, n \in Int}
Answers == {Answer(m) : m \in Msg}

LoopTypeOK ==
    /\ queue \in Seq(Msg) /\ process_queue \in Seq(Msg) /\ pushed \in Seq(Msg)
    /\ answers \in Seq(Answers)
    /\ next \in 1 .. Len(process_queue) + 1

QueuesHoldTheRest ==
    /\ at = "pop" \/ at = "test" \/ at = "outside" => process_queue = <<>>
    /\ \A i \in next .. Len(process_queue) :
          process_queue[i] = pushed[Len(answers) + i - next + 1]
    /\ \A i \in 1 .. Len(queue) : queue[i] = pushed[Len(answers) + Waiting + i]

LoopInv == LoopTypeOK /\ QueuesHoldTheRest /\ AnsweredInOrder

(* LoopInit, with both queues empty, satisfies the invariant.              *)
LEMMA LoopInitHolds == LoopInit => LoopInv
BY DEF LoopInit, LoopInv, LoopTypeOK, QueuesHoldTheRest, AnsweredInOrder, Waiting

(* PushMessage appends the same request to queue_ and to the history.      *)
LEMMA PushKeeps ==
    ASSUME LoopInv, NEW h \in Handler, NEW c \in Command, PushMessage(h, c)
    PROVE  LoopInv'
<1> DEFINE msg == [handler |-> h, opcode |-> c.opcode, seq |-> Len(pushed) + 1,
                   body |-> Encoded(c.strings)]
<1>1. /\ queue' = Append(queue, msg) /\ pushed' = Append(pushed, msg)
      /\ UNCHANGED <<process_queue, next, at, answers>>
    BY Zenon DEF PushMessage
<1>2. msg \in Msg
    <2>1. Len(pushed) + 1 \in Int
        BY DEF LoopInv, LoopTypeOK
    <2> QED
        BY <2>1 DEF Msg
<1> HIDE DEF msg
<1>3. LoopTypeOK'
    BY <1>1, <1>2 DEF LoopInv, LoopTypeOK
<1>4. /\ Len(queue') = Len(queue) + 1 /\ Len(pushed') = Len(pushed) + 1
      /\ Waiting' = Waiting /\ Waiting \in Nat /\ Len(answers) \in Nat
      /\ Len(queue) \in Nat /\ Len(pushed) \in Nat
      /\ Len(answers) + Waiting + Len(queue) = Len(pushed)
    BY <1>1, <1>2 DEF LoopInv, LoopTypeOK, AnsweredInOrder, Waiting
<1>5. \A i \in 1 .. Len(pushed) : pushed'[i] = pushed[i]
    BY <1>1, <1>2 DEF LoopInv, LoopTypeOK
<1>6. AnsweredInOrder'
    <2>1. ASSUME NEW i \in 1 .. Len(answers) PROVE answers[i] = Answer(pushed'[i])
        <3>1. i \in 1 .. Len(pushed)
            BY <1>4
        <3>2. answers[i] = Answer(pushed[i])
            BY Zenon DEF LoopInv, AnsweredInOrder
        <3> QED
            BY Zenon, <1>5, <3>1, <3>2
    <2>2. (Len(answers) + Waiting + Len(queue) = Len(pushed))'
        BY <1>1, <1>4
    <2> QED
        BY Zenon, <1>1, <2>1, <2>2 DEF AnsweredInOrder
<1>7. QueuesHoldTheRest'
    <2>1. (at = "pop" \/ at = "test" \/ at = "outside" => process_queue = <<>>)'
        BY Zenon, <1>1 DEF LoopInv, QueuesHoldTheRest
    <2>2. ASSUME NEW i \in next .. Len(process_queue)
          PROVE  process_queue[i] = pushed'[Len(answers) + i - next + 1]
        <3>1. Len(answers) + i - next + 1 \in 1 .. Len(pushed)
            BY <1>4 DEF LoopInv, LoopTypeOK, Waiting
        <3> QED
            BY Zenon, <1>5, <3>1 DEF LoopInv, QueuesHoldTheRest
    <2>3. ASSUME NEW i \in 1 .. Len(queue')
          PROVE  queue'[i] = pushed'[Len(answers) + Waiting + i]
        <3>1. CASE i = Len(queue')
            BY <1>1, <1>2, <1>4, <3>1 DEF LoopInv, LoopTypeOK
        <3>2. CASE i # Len(queue')
            <4>1. i \in 1 .. Len(queue) /\ Len(answers) + Waiting + i \in 1 .. Len(pushed)
                BY <1>4, <3>2
            <4>2. queue'[i] = queue[i]
                BY <1>1, <1>2, <4>1 DEF LoopInv, LoopTypeOK
            <4> QED
                BY Zenon, <1>5, <4>1, <4>2 DEF LoopInv, QueuesHoldTheRest
        <3> QED
            BY Zenon, <3>1, <3>2
    <2> QED
        BY Zenon, <1>1, <1>4, <2>1, <2>2, <2>3 DEF QueuesHoldTheRest
<1> QED
    BY Zenon, <1>3, <1>6, <1>7 DEF LoopInv

(* PopAll moves queue_ to process_queue_, which is empty before.           *)
LEMMA PopKeeps == LoopInv /\ PopAll => LoopInv'
<1> SUFFICES ASSUME LoopInv, PopAll PROVE LoopInv'
    BY Zenon
<1>1. process_queue = <<>> /\ next = 1 /\ Waiting = 0
    BY DEF LoopInv, LoopTypeOK, QueuesHoldTheRest, PopAll, Waiting
<1>2. /\ process_queue' = queue /\ queue' = <<>>
      /\ UNCHANGED <<next, pushed, answers>> /\ at' = "dispatch"
    BY Zenon, <1>1 DEF PopAll
<1>3. Waiting' = Len(queue) /\ Len(queue') = 0 /\ Len(queue) \in Nat /\ Len(answers) \in Nat
    BY <1>1, <1>2 DEF Waiting, LoopInv, LoopTypeOK
<1>4. LoopTypeOK'
    BY <1>1, <1>2, <1>3 DEF LoopInv, LoopTypeOK
<1>5. AnsweredInOrder'
    BY <1>1, <1>2, <1>3 DEF LoopInv, AnsweredInOrder
<1>6. QueuesHoldTheRest'
    <2>1. ASSUME NEW i \in 1 .. Len(queue)
          PROVE  queue[i] = pushed[Len(answers) + i - 1 + 1]
        BY <1>1, <1>3 DEF LoopInv, QueuesHoldTheRest
    <2> QED
        BY <1>1, <1>2, <1>3, <2>1 DEF QueuesHoldTheRest
<1> QED
    BY Zenon, <1>4, <1>5, <1>6 DEF LoopInv

(* DispatchMessage answers the first request of the rest, or crashes.      *)
LEMMA DispatchKeeps == LoopInv /\ DispatchMessage => LoopInv'
<1> SUFFICES ASSUME LoopInv, DispatchMessage PROVE LoopInv'
    BY Zenon
<1> DEFINE m == process_queue[next]
<1>1. /\ next \in 1 .. Len(process_queue) /\ Len(process_queue) \in Nat
      /\ Len(answers) \in Nat /\ Len(queue) \in Nat /\ Len(pushed) \in Nat
    BY DEF LoopInv, LoopTypeOK, DispatchMessage
<1>2. m \in Msg /\ m = pushed[Len(answers) + 1]
    <2>1. m \in Msg
        BY <1>1 DEF LoopInv, LoopTypeOK
    <2>2. m = pushed[Len(answers) + next - next + 1]
        BY <1>1 DEF LoopInv, QueuesHoldTheRest
    <2> QED
        BY <1>1, <2>1, <2>2
<1>3. CASE at' = "crashed" /\ UNCHANGED <<answers, next>>
    BY Zenon, <1>3 DEF LoopInv, LoopTypeOK, QueuesHoldTheRest, AnsweredInOrder, Waiting,
                DispatchMessage
<1>4. CASE answers' = Append(answers, Answer(m)) /\ next' = next + 1 /\ UNCHANGED at
    <2>1. /\ answers' = Append(answers, Answer(m)) /\ next' = next + 1
          /\ UNCHANGED <<at, queue, process_queue, pushed>> /\ at = "dispatch"
        BY Zenon, <1>4 DEF DispatchMessage
    <2>2. Answer(m) \in Answers
        BY Zenon, <1>2 DEF Answers
    <2>3. /\ Len(answers') = Len(answers) + 1 /\ answers' \in Seq(Answers)
          /\ answers'[Len(answers) + 1] = Answer(m)
          /\ \A i \in 1 .. Len(answers) : answers'[i] = answers[i]
        BY <2>1, <2>2 DEF LoopInv, LoopTypeOK
    <2>4. Waiting' = Waiting - 1 /\ Waiting \in Nat
        BY <1>1, <2>1 DEF Waiting
    <2>5. LoopTypeOK'
        BY <1>1, <2>1, <2>3 DEF LoopInv, LoopTypeOK
    <2>6. AnsweredInOrder'
        <3>1. Len(answers') + Waiting' + Len(queue') = Len(pushed')
            <4>1. Len(answers) + Waiting + Len(queue) = Len(pushed)
                BY Zenon DEF LoopInv, AnsweredInOrder
            <4>2. Len(answers') + Waiting' = Len(answers) + Waiting
                BY <1>1, <2>3, <2>4
            <4> QED
                BY Zenon, <2>1, <4>1, <4>2
        <3>2. ASSUME NEW i \in 1 .. Len(answers') PROVE answers'[i] = Answer(pushed[i])
            <4>1. CASE i = Len(answers) + 1
                BY Zenon, <1>2, <2>3, <4>1
            <4>2. CASE i \in 1 .. Len(answers)
                BY Zenon, <2>3, <4>2 DEF LoopInv, AnsweredInOrder
            <4> QED
                BY <1>1, <2>3, <4>1, <4>2
        <3> QED
            BY Zenon, <2>1, <3>1, <3>2 DEF AnsweredInOrder
    <2>7. QueuesHoldTheRest'
        <3>1. ASSUME NEW i \in next' .. Len(process_queue)
              PROVE  process_queue[i] = pushed[Len(answers') + i - next' + 1]
            <4>1. i \in next .. Len(process_queue)
                BY <1>1, <2>1
            <4>2. Len(answers') + i - next' + 1 = Len(answers) + i - next + 1
                BY <1>1, <2>1, <2>3, <4>1
            <4> QED
                BY Zenon, <4>1, <4>2 DEF LoopInv, QueuesHoldTheRest
        <3>2. Len(answers') + Waiting' = Len(answers) + Waiting
            BY <1>1, <2>3, <2>4
        <3> QED
            BY Zenon, <2>1, <3>1, <3>2 DEF LoopInv, QueuesHoldTheRest
    <2> QED
        BY Zenon, <2>5, <2>6, <2>7 DEF LoopInv
<1> QED
    BY Zenon, <1>3, <1>4 DEF DispatchMessage

(* At the end of a round nothing of process_queue_ is left to answer.      *)
LEMMA EndOfRoundKeeps == LoopInv /\ EndOfRound => LoopInv'
<1> SUFFICES ASSUME LoopInv, EndOfRound PROVE LoopInv'
    BY Zenon
<1>1. /\ process_queue' = <<>> /\ next' = 1 /\ UNCHANGED <<queue, pushed, answers>>
      /\ Waiting = 0 /\ Waiting' = 0 /\ Len(process_queue') = 0
    BY DEF LoopInv, LoopTypeOK, EndOfRound, Waiting
<1>2. LoopTypeOK'
    BY <1>1 DEF LoopInv, LoopTypeOK
<1>3. AnsweredInOrder'
    BY Zenon, <1>1 DEF LoopInv, AnsweredInOrder
<1>4. QueuesHoldTheRest'
    BY <1>1 DEF LoopInv, QueuesHoldTheRest
<1> QED
    BY Zenon, <1>2, <1>3, <1>4 DEF LoopInv

(* Every request is answered once, in the order of the lock, with its own  *)
(* seq and on its own socket (MessageLoop::PushMessage, Loop).             *)
THEOREM AlwaysAnsweredInOrder == LoopSpec => []AnsweredInOrder
<1>1. ASSUME LoopInv, [LoopNext]_loop_vars PROVE LoopInv'
    <2>1. CASE UNCHANGED loop_vars
        BY Zenon, <1>1, <2>1 DEF LoopInv, LoopTypeOK, QueuesHoldTheRest, AnsweredInOrder, Waiting,
                          loop_vars
    <2>2. CASE \E h \in Handler, c \in Command : PushMessage(h, c)
        BY Zenon, <1>1, <2>2, PushKeeps
    <2>3. CASE SetTerminal \/ Loop
        BY Zenon, <1>1, <2>3 DEF LoopInv, LoopTypeOK, QueuesHoldTheRest, AnsweredInOrder, Waiting,
                          SetTerminal, Loop
    <2> QED
        BY Zenon, <1>1, <2>1, <2>2, <2>3, PopKeeps, DispatchKeeps, EndOfRoundKeeps DEF LoopNext, LoopStep
<1>2. LoopInv => AnsweredInOrder
    BY Zenon DEF LoopInv
<1> QED
    BY LoopInitHolds, <1>1, <1>2, PTL DEF LoopSpec
-----------------------------------------------------------------------------
(* SocketSend.  Its Buffer is the one above.                               *)
LEMMA SameBuffer ==
    ASSUME NEW b, NEW n, NEW data
    PROVE  /\ Send!NewBuffer(n) = NewBuffer(n) /\ Send!HasRead(b, n) = HasRead(b, n)
           /\ Send!ReadableLength(b) = ReadableLength(b) /\ Send!Readable(b) = Readable(b)
           /\ Send!AppendData(b, data) = AppendData(b, data)
           /\ Send!Retrieve(b) = Retrieve(b) /\ Send!BufferOK(b) = BufferOK(b)
<1>1. Send!NewBuffer(n) = NewBuffer(n) /\ Send!HasRead(b, n) = HasRead(b, n)
    BY Zenon DEF Send!NewBuffer, NewBuffer, Send!HasRead, HasRead
<1>2. Send!ReadableLength(b) = ReadableLength(b) /\ Send!Readable(b) = Readable(b)
    BY Zenon DEF Send!ReadableLength, ReadableLength, Send!Readable, Readable
<1>3. Send!AppendData(b, data) = AppendData(b, data)
    BY Zenon DEF Send!AppendData, AppendData, Send!HasWritten, HasWritten, Send!Filled, Filled,
           Send!Grown, Grown, Send!WritableLength, WritableLength
<1>4. Send!Retrieve(b) = Retrieve(b)
    BY Zenon DEF Send!Retrieve, Retrieve, Send!ReadableLength, ReadableLength
<1>5. Send!BufferOK(b) = BufferOK(b)
    BY Zenon DEF Send!BufferOK, BufferOK
<1> QED
    BY Zenon, <1>1, <1>2, <1>3, <1>4, <1>5

(* The readable bytes, one by one.                                         *)
LEMMA ReadableBytes ==
    ASSUME NEW b \in Buffers
    PROVE  /\ Readable(b) \in Seq(Byte) /\ Len(Readable(b)) = b.write - b.read
           /\ b.write - b.read \in Nat
           /\ \A i \in 1 .. b.write - b.read : Readable(b)[i] = b.array[b.read + i]
<1>1. /\ b.array \in Seq(Byte) /\ b.write \in Nat /\ b.read \in Nat /\ b.read <= b.write
      /\ b.write <= Len(b.array) /\ b.write - b.read \in Nat
    BY DEF Buffers
<1>2. \A i \in b.read + 1 .. b.write : b.array[i] \in Byte
    BY <1>1, ElementOfSeq
<1> DEFINE first == b.read + 1
           r == SubSeq(b.array, first, b.write)
<1>3. /\ r \in Seq(Byte) /\ Len(r) = IF first <= b.write THEN b.write - first + 1 ELSE 0
      /\ \A i \in 1 .. b.write - first + 1 : r[i] = b.array[first + i - 1]
    <2>1. first \in Int /\ b.write \in Int
        BY <1>1
    <2> QED
        BY <1>2, <2>1, SubSeqProperties
<1> HIDE DEF r
<1>4. Readable(b) = r
    BY Zenon DEF Readable, r
<1>5. Len(r) = b.write - b.read /\ b.write - first + 1 = b.write - b.read
    BY <1>1, <1>3
<1>6. \A i \in 1 .. b.write - b.read : first + i - 1 = b.read + i
    BY <1>1
<1> QED
    BY Zenon, <1>1, <1>3, <1>4, <1>5, <1>6

(* Append puts its data behind what is readable.                           *)
LEMMA ReadableAppends ==
    ASSUME NEW b \in Buffers, NEW data \in Seq(Byte)
    PROVE  /\ AppendData(b, data) \in Buffers
           /\ Readable(AppendData(b, data)) = Readable(b) \o data
<1> DEFINE c == AppendData(b, data)
           r == Readable(b)
           n == b.write - b.read
<1>1. Appends(c, b, data)
    BY Zenon, AppendDataAppends
<1> HIDE DEF c
<1>2. /\ r \in Seq(Byte) /\ Len(r) = n /\ n \in Nat
      /\ \A i \in 1 .. n : r[i] = b.array[b.read + i]
    BY Zenon, ReadableBytes
<1>3. /\ c \in Buffers /\ c.read = b.read /\ c.write = b.write + Len(data) /\ Len(data) \in Nat
      /\ b.read \in Nat /\ b.write \in Nat
    BY <1>1 DEF Appends, Buffers
<1>4. /\ Readable(c) \in Seq(Byte) /\ Len(Readable(c)) = n + Len(data)
      /\ \A i \in 1 .. n + Len(data) : Readable(c)[i] = c.array[b.read + i]
    <2>1. c.write - c.read = n + Len(data)
        BY <1>3
    <2> QED
        BY Zenon, <1>3, <2>1, ReadableBytes
<1> HIDE DEF r
<1>5. /\ r \o data \in Seq(Byte) /\ Len(r \o data) = n + Len(data)
      /\ \A i \in 1 .. n + Len(data) : (r \o data)[i] = IF i <= n THEN r[i] ELSE data[i - n]
    <2>1. /\ r \o data \in Seq(Byte) /\ Len(r \o data) = Len(r) + Len(data)
          /\ \A i \in 1 .. Len(r) + Len(data) :
                (r \o data)[i] = IF i <= Len(r) THEN r[i] ELSE data[i - Len(r)]
        BY Zenon, <1>2, ConcatProperties
    <2> HIDE DEF n
    <2> QED
        BY Zenon, <1>2, <2>1
<1>6. ASSUME NEW i \in 1 .. n + Len(data) PROVE Readable(c)[i] = (r \o data)[i]
    <2>1. CASE i <= n
        <3>1. i \in 1 .. n /\ b.read + i \in 1 .. b.write
            BY <1>2, <1>3, <2>1
        <3> QED
            BY Zenon, <1>1, <1>2, <1>4, <1>5, <2>1, <3>1 DEF Appends
    <2>2. CASE ~(i <= n)
        <3>1. i - n \in 1 .. Len(data) /\ b.read + i = b.write + (i - n)
            BY <1>2, <1>3, <2>2
        <3> QED
            BY Zenon, <1>1, <1>4, <1>5, <2>2, <3>1 DEF Appends
    <2> QED
        BY Zenon, <2>1, <2>2
<1>7. Readable(c) = r \o data
    <2> HIDE DEF n
    <2> QED
        BY Zenon, <1>4, <1>5, <1>6, SeqEqual
<1> QED
    BY Zenon, <1>3, <1>7 DEF c, r

(* What write(2) took and what then is readable are what was readable      *)
(* before, whether or not OnWrite retrieves.                               *)
LEMMA WriteSplits ==
    ASSUME NEW b \in Buffers, NEW n \in 0 .. b.write - b.read,
           NEW c \in {HasRead(b, n), Retrieve(HasRead(b, n))}
    PROVE  /\ c \in Buffers /\ SubSeq(Readable(b), 1, n) \in Seq(Byte)
           /\ SubSeq(Readable(b), 1, n) \o Readable(c) = Readable(b)
<1> DEFINE r == Readable(b)
           len == b.write - b.read
           h == HasRead(b, n)
           w == SubSeq(r, 1, n)
<1>1. /\ r \in Seq(Byte) /\ Len(r) = len /\ len \in Nat /\ n \in Nat /\ n <= len
      /\ \A i \in 1 .. len : r[i] = b.array[b.read + i]
      /\ b.read \in Nat /\ b.write \in Nat
    BY ReadableBytes DEF Buffers
<1>2. /\ h \in Buffers /\ h.read = b.read + n /\ h.write = b.write /\ h.array = b.array
    BY Zenon, HasReadKeeps
<1>3. h.write - h.read = len - n
    BY <1>1, <1>2
<1> HIDE DEF h, r
<1>4. /\ c \in Buffers /\ c.write - c.read = len - n
      /\ \A i \in 1 .. len - n : c.array[c.read + i] = b.array[(b.read + n) + i]
    <2>1. CASE c = h
        BY Zenon, <1>2, <1>3, <2>1
    <2>2. CASE c = Retrieve(h)
        <3>1. /\ c \in Buffers /\ c.read = 0 /\ c.write = h.write - h.read
              /\ \A i \in 1 .. h.write - h.read : c.array[i] = h.array[h.read + i]
            BY Zenon, <1>2, <2>2, RetrieveFronts
        <3>2. \A i \in 1 .. len - n : c.read + i = i
            BY <3>1
        <3>3. c.write - c.read = len - n
            BY <1>1, <1>3, <3>1
        <3> HIDE DEF len
        <3> QED
            BY Zenon, <1>2, <1>3, <3>1, <3>2, <3>3
    <2> QED
        BY Zenon, <2>1, <2>2 DEF h
<1> HIDE DEF len
<1>5. /\ Readable(c) \in Seq(Byte) /\ Len(Readable(c)) = len - n
      /\ \A i \in 1 .. len - n : Readable(c)[i] = b.array[(b.read + n) + i]
    BY Zenon, <1>4, ReadableBytes
<1>6. w \in Seq(Byte) /\ Len(w) = n /\ \A i \in 1 .. n : w[i] = r[i]
    BY <1>1
<1> HIDE DEF w
<1>7. /\ w \o Readable(c) \in Seq(Byte) /\ Len(w \o Readable(c)) = len
      /\ \A i \in 1 .. len : (w \o Readable(c))[i] = IF i <= n THEN w[i] ELSE Readable(c)[i - n]
    <2>1. /\ w \o Readable(c) \in Seq(Byte) /\ Len(w \o Readable(c)) = Len(w) + Len(Readable(c))
          /\ \A i \in 1 .. Len(w) + Len(Readable(c)) :
                (w \o Readable(c))[i] = IF i <= Len(w) THEN w[i] ELSE Readable(c)[i - Len(w)]
        BY <1>5, <1>6, ConcatProperties
    <2>2. Len(w) + Len(Readable(c)) = len
        BY <1>1, <1>5, <1>6
    <2> QED
        BY Zenon, <1>6, <2>1, <2>2
<1>8. ASSUME NEW i \in 1 .. len PROVE (w \o Readable(c))[i] = r[i]
    <2>1. CASE i <= n
        <3>1. i \in 1 .. n
            BY <1>1, <2>1
        <3> QED
            BY Zenon, <1>6, <1>7, <2>1, <3>1
    <2>2. CASE ~(i <= n)
        <3>1. i - n \in 1 .. len - n /\ (b.read + n) + (i - n) = b.read + i
            BY <1>1, <2>2
        <3>2. Readable(c)[i - n] = b.array[b.read + i]
            BY Zenon, <1>5, <3>1
        <3> QED
            BY Zenon, <1>1, <1>7, <2>2, <3>2
    <2> QED
        BY Zenon, <2>1, <2>2
<1>9. w \o Readable(c) = r
    BY Zenon, <1>1, <1>7, <1>8, SeqEqual
<1> QED
    BY Zenon, <1>4, <1>6, <1>9 DEF w, r

(* Messages as SendMessage is called with them.                            *)
SentMessage == Sender \X (1 .. MaxMessages) \X Lengths

(* The bytes of a message, and that one more message adds its own.         *)
LEMMA BytesType ==
    ASSUME NEW m \in SentMessage
    PROVE  Send!Bytes(m) \in Seq(Byte)
<1>1. m[1] \in Sender /\ m[2] \in Nat /\ m[3] \in Nat
    <2>1. m[1] \in Sender /\ m[2] \in 1 .. MaxMessages /\ m[3] \in Lengths
        BY Zenon DEF SentMessage
    <2>2. m[3] \in Nat
        BY Zenon, <2>1, SendAssumption
    <2>3. \A i \in 1 .. MaxMessages : i \in Nat
        OBVIOUS
    <2> QED
        BY Zenon, <2>1, <2>2, <2>3
<1>2. \A i \in 1 .. m[3] : <<m[1], m[2], i>> \in Byte
    BY <1>1 DEF Byte, SentByte
<1>3. [i \in 1 .. m[3] |-> <<m[1], m[2], i>>] \in [1 .. m[3] -> Byte]
    BY Zenon, <1>2
<1> QED
    BY Zenon, <1>1, <1>3, FunctionIsSeq DEF Send!Bytes

(* AllBytes concatenates the bytes of its messages.                        *)
LEMMA AllBytesIs ==
    ASSUME NEW ms \in Seq(SentMessage)
    PROVE  LET bs == [k \in 1 .. Len(ms) |-> Send!Bytes(ms[k])]
           IN  /\ bs \in Seq(Seq(Byte)) /\ Len(bs) = Len(ms)
               /\ \A k \in 1 .. Len(ms) : bs[k] = Send!Bytes(ms[k])
               /\ Send!AllBytes(ms) = Flat(bs)
<1> DEFINE bs == [k \in 1 .. Len(ms) |-> Send!Bytes(ms[k])]
<1>1. \A k \in 1 .. Len(ms) : Send!Bytes(ms[k]) \in Seq(Byte)
    BY BytesType
<1>2. bs \in Seq(Seq(Byte)) /\ Len(bs) = Len(ms)
    BY <1>1
<1>3. Send!AllBytes(ms) = Flat(bs)
    BY Zenon, ConcatenatedIs DEF Send!AllBytes
<1> QED
    BY Zenon, <1>2, <1>3

(* AllBytes gives bytes, and none for no message.                          *)
LEMMA AllBytesType ==
    ASSUME NEW ms \in Seq(SentMessage)
    PROVE  Send!AllBytes(ms) \in Seq(Byte) /\ (ms = <<>> => Send!AllBytes(ms) = <<>>)
<1> DEFINE bs == [k \in 1 .. Len(ms) |-> Send!Bytes(ms[k])]
<1>1. bs \in Seq(Seq(Byte)) /\ Len(bs) = Len(ms) /\ Send!AllBytes(ms) = Flat(bs)
    BY Zenon, AllBytesIs
<1> HIDE DEF bs
<1>2. ms = <<>> => bs = <<>>
    BY <1>1
<1> QED
    BY Zenon, <1>1, <1>2, FlatType

(* One message more adds its bytes at the end.                             *)
LEMMA AllBytesAppend ==
    ASSUME NEW ms \in Seq(SentMessage), NEW m \in SentMessage
    PROVE  Send!AllBytes(Append(ms, m)) = Send!AllBytes(ms) \o Send!Bytes(m)
<1> DEFINE more == Append(ms, m)
           bs == [k \in 1 .. Len(ms) |-> Send!Bytes(ms[k])]
           cs == [k \in 1 .. Len(more) |-> Send!Bytes(more[k])]
<1>1. /\ more \in Seq(SentMessage) /\ Len(more) = Len(ms) + 1 /\ Len(ms) \in Nat
      /\ more[Len(ms) + 1] = m /\ \A k \in 1 .. Len(ms) : more[k] = ms[k]
    BY AppendProperties
<1> HIDE DEF more
<1>2. /\ bs \in Seq(Seq(Byte)) /\ Len(bs) = Len(ms) /\ Send!AllBytes(ms) = Flat(bs)
      /\ \A k \in 1 .. Len(ms) : bs[k] = Send!Bytes(ms[k])
    BY Zenon, AllBytesIs
<1>3. /\ cs \in Seq(Seq(Byte)) /\ Len(cs) = Len(more) /\ Send!AllBytes(more) = Flat(cs)
      /\ \A k \in 1 .. Len(more) : cs[k] = Send!Bytes(more[k])
    BY Zenon, <1>1, AllBytesIs
<1> HIDE DEF bs, cs
<1>4. Len(cs) = Len(bs) + 1 /\ \A k \in 1 .. Len(bs) : cs[k] = bs[k]
    <2>1. \A k \in 1 .. Len(ms) : k \in 1 .. Len(more)
        BY <1>1
    <2> QED
        BY Zenon, <1>1, <1>2, <1>3, <2>1
<1>5. cs[Len(bs) + 1] = Send!Bytes(m)
    <2>1. Len(ms) + 1 \in 1 .. Len(more)
        BY <1>1
    <2> QED
        BY Zenon, <1>1, <1>2, <1>3, <2>1
<1>6. Flat(cs) = Flat(bs) \o cs[Len(bs) + 1]
    BY Zenon, <1>2, <1>3, <1>4, FlatExtends
<1> QED
    BY Zenon, <1>2, <1>3, <1>5, <1>6 DEF more

(* StreamIntact is inductive once it is said which messages OnWrite swaps  *)
(* back, namely none, and that the lock keeps room for one message.        *)
SendInv ==
    /\ lock \in Sender \cup {NoSender} /\ closing \in BOOLEAN
    /\ pc \in {"poll", "swap", "write", "closed", "removed"}
    /\ snd_buffer \in Buffers /\ wire \in Seq(Byte)
    /\ snd_messages \in Seq(SentMessage) /\ tmp_messages \in Seq(SentMessage)
    /\ accepted \in Seq(SentMessage) /\ Len(accepted) <= MaxMessages
    /\ count \in [Sender -> Nat] /\ \A s \in Sender : count[s] <= Len(accepted)
    /\ lock # NoSender => Len(accepted) < MaxMessages
    /\ pc = "swap" => tmp_messages = <<>>
    /\ (wire \o Readable(snd_buffer)) \o Send!AllBytes(snd_messages) = Send!AllBytes(accepted)

(* A new socket has nothing to send.                                       *)
LEMMA SendStart == Send!Init => SendInv
<1> SUFFICES ASSUME Send!Init PROVE SendInv
    BY Zenon
<1>1. snd_buffer = NewBuffer(SendSize)
    BY Zenon, SameBuffer DEF Send!Init
<1>2. snd_buffer \in Buffers /\ snd_buffer.read = 0 /\ snd_buffer.write = 0
    BY Zenon, <1>1, NewIsBuffer, SendAssumption
<1>3. Readable(snd_buffer) = <<>>
    <2>1. Readable(snd_buffer) \in Seq(Byte) /\ Len(Readable(snd_buffer)) = 0
        BY <1>2, ReadableBytes
    <2> QED
        BY <2>1
<1>4. <<>> \in Seq(SentMessage) /\ <<>> \in Seq(Byte)
    OBVIOUS
<1>5. Send!AllBytes(<<>>) = <<>>
    BY Zenon, <1>4, AllBytesType
<1>6. (wire \o Readable(snd_buffer)) \o Send!AllBytes(snd_messages) = Send!AllBytes(accepted)
    BY <1>3, <1>5 DEF Send!Init
<1>7. /\ lock = NoSender /\ closing = FALSE /\ pc = "poll" /\ wire = <<>>
      /\ snd_messages = <<>> /\ tmp_messages = <<>> /\ accepted = <<>> /\ Len(accepted) = 0
      /\ count = [s \in Sender |-> 0]
    BY Zenon DEF Send!Init
<1>8. /\ count \in [Sender -> Nat] /\ \A s \in Sender : count[s] <= Len(accepted)
      /\ Len(accepted) <= MaxMessages
    BY <1>7, SendAssumption
<1>9. lock \in Sender \cup {NoSender} /\ closing \in BOOLEAN
    BY Zenon, <1>7
<1> QED
    BY Zenon, <1>2, <1>4, <1>6, <1>7, <1>8, <1>9 DEF SendInv

(* A sender takes the lock; nothing moves.                                 *)
LEMMA SendLockStep ==
    ASSUME SendInv, NEW s \in Sender, Send!SendLock(s)
    PROVE  SendInv'
<1>1. /\ lock' = s /\ Len(accepted) < MaxMessages
      /\ UNCHANGED <<snd_messages, tmp_messages, snd_buffer, pc, closing, count, accepted, wire>>
    BY Zenon DEF Send!SendLock
<1> QED
    BY Zenon, <1>1 DEF SendInv

(* A message enters snd_messages_ and the history at their ends.           *)
LEMMA SendPushStep ==
    ASSUME SendInv, NEW s \in Sender, Send!SendPush(s)
    PROVE  SendInv'
<1>1. PICK n \in Lengths :
          /\ snd_messages' = Append(snd_messages, <<s, count[s] + 1, n>>)
          /\ accepted' = Append(accepted, <<s, count[s] + 1, n>>)
    BY Zenon DEF Send!SendPush
<1> DEFINE m == <<s, count[s] + 1, n>>
           sent == wire \o Readable(snd_buffer)
<1>2. /\ lock = s /\ lock' = NoSender /\ count' = [count EXCEPT ![s] = @ + 1]
      /\ UNCHANGED <<tmp_messages, snd_buffer, pc, closing, wire>>
    BY Zenon DEF Send!SendPush
<1>3. Len(accepted) < MaxMessages /\ Len(accepted) \in Nat
    BY <1>2, SendAssumption DEF SendInv
<1>4. count[s] \in Nat /\ count[s] <= Len(accepted)
    BY Zenon DEF SendInv
<1>5. m \in SentMessage
    <2>1. count[s] + 1 \in 1 .. MaxMessages
        BY <1>3, <1>4, SendAssumption
    <2> QED
        BY Zenon, <2>1 DEF SentMessage
<1> HIDE DEF m
<1>6. snd_messages' = Append(snd_messages, m) /\ accepted' = Append(accepted, m)
    BY Zenon, <1>1 DEF m
<1>7. /\ snd_messages' \in Seq(SentMessage) /\ accepted' \in Seq(SentMessage)
      /\ Len(accepted') = Len(accepted) + 1
    BY Zenon, <1>5, <1>6, AppendProperties DEF SendInv
<1>8. count' \in [Sender -> Nat] /\ \A q \in Sender : count'[q] <= Len(accepted')
    <2>1. \A q \in Sender : count'[q] = IF q = s THEN count[s] + 1 ELSE count[q]
        BY Zenon, <1>2 DEF SendInv
    <2>2. count' \in [Sender -> Nat]
        BY <1>2, <1>4 DEF SendInv
    <2>3. \A q \in Sender : count[q] \in Nat /\ count[q] <= Len(accepted)
        BY Zenon DEF SendInv
    <2> QED
        BY <1>3, <1>7, <2>1, <2>2, <2>3
<1>9. (wire' \o Readable(snd_buffer')) \o Send!AllBytes(snd_messages') = Send!AllBytes(accepted')
    <2>1. /\ Send!AllBytes(snd_messages') = Send!AllBytes(snd_messages) \o Send!Bytes(m)
          /\ Send!AllBytes(accepted') = Send!AllBytes(accepted) \o Send!Bytes(m)
        BY Zenon, <1>5, <1>6, AllBytesAppend DEF SendInv
    <2>2. /\ sent \in Seq(Byte) /\ Send!AllBytes(snd_messages) \in Seq(Byte)
          /\ Send!Bytes(m) \in Seq(Byte)
        <3>1. Readable(snd_buffer) \in Seq(Byte)
            BY Zenon, ReadableBytes DEF SendInv
        <3>2. sent \in Seq(Byte)
            BY Zenon, <3>1, ConcatProperties DEF SendInv
        <3> QED
            BY Zenon, <1>5, <3>2, AllBytesType, BytesType DEF SendInv
    <2>3. sent \o Send!AllBytes(snd_messages) = Send!AllBytes(accepted)
        BY Zenon DEF SendInv
    <2>4. wire' \o Readable(snd_buffer') = sent
        BY Zenon, <1>2
    <2> HIDE DEF sent
    <2>5. (sent \o Send!AllBytes(snd_messages)) \o Send!Bytes(m)
              = sent \o (Send!AllBytes(snd_messages) \o Send!Bytes(m))
        BY SMTT(30), <2>2, ConcatAssociative
    <2> QED
        BY Zenon, <2>1, <2>3, <2>4, <2>5
<1>10. Len(accepted') <= MaxMessages
    BY <1>3, <1>7, SendAssumption
<1> QED
    BY Zenon, <1>2, <1>7, <1>8, <1>9, <1>10 DEF SendInv

(* OnWrite empties tmp_messages_ before it asks for the lock.              *)
LEMMA OnWriteStep ==
    ASSUME SendInv, Send!OnWrite
    PROVE  SendInv'
<1>1. /\ pc' \in {"swap", "closed", "poll"} /\ tmp_messages' \in {<<>>, tmp_messages}
      /\ pc' = "swap" => tmp_messages' = <<>>
      /\ UNCHANGED <<lock, snd_messages, snd_buffer, closing, count, accepted, wire>>
    <2>1. /\ \E b \in Send!HasData : IF b THEN pc' = "swap" /\ tmp_messages' = <<>>
                                          ELSE Send!OnWriteReturns /\ UNCHANGED tmp_messages
          /\ UNCHANGED <<lock, snd_messages, snd_buffer, closing, count, accepted, wire>>
        BY Zenon DEF Send!OnWrite
    <2>2. Send!OnWriteReturns => pc' \in {"closed", "poll"}
        BY Zenon DEF Send!OnWriteReturns
    <2> QED
        BY Zenon, <2>1, <2>2
<1>2. tmp_messages' \in Seq(SentMessage)
    <2>1. <<>> \in Seq(SentMessage)
        OBVIOUS
    <2> QED
        BY Zenon, <1>1, <2>1 DEF SendInv
<1>3. pc' \in {"poll", "swap", "write", "closed", "removed"}
    BY Zenon, <1>1
<1> QED
    BY Zenon, <1>1, <1>2, <1>3 DEF SendInv

(* The messages swapped out are appended to the buffer; none are swapped   *)
(* in.                                                                     *)
LEMMA SwapStep ==
    ASSUME SendInv, Send!Swap
    PROVE  SendInv'
<1> DEFINE data == Send!AllBytes(snd_messages)
<1>1. /\ pc = "swap" /\ tmp_messages' = snd_messages /\ snd_messages' = tmp_messages
      /\ snd_buffer' = AppendData(snd_buffer, data) /\ pc' = "write"
      /\ UNCHANGED <<lock, closing, count, accepted, wire>>
    BY Zenon, SameBuffer DEF Send!Swap
<1>2. data \in Seq(Byte) /\ snd_messages' = <<>> /\ Send!AllBytes(snd_messages') = <<>>
    BY Zenon, <1>1, AllBytesType DEF SendInv
<1>3. wire \o Readable(snd_buffer) \in Seq(Byte) /\ Readable(snd_buffer) \in Seq(Byte) /\ wire \in Seq(Byte)
    <2>1. Readable(snd_buffer) \in Seq(Byte)
        BY Zenon, ReadableBytes DEF SendInv
    <2> QED
        BY Zenon, <2>1, ConcatProperties DEF SendInv
<1>4. (wire \o Readable(snd_buffer)) \o data = Send!AllBytes(accepted)
    BY Zenon DEF SendInv
<1> HIDE DEF data
<1>5. snd_buffer' \in Buffers /\ Readable(snd_buffer') = Readable(snd_buffer) \o data
    BY Zenon, <1>1, <1>2, ReadableAppends DEF SendInv
<1>6. (wire' \o Readable(snd_buffer')) \o Send!AllBytes(snd_messages') = Send!AllBytes(accepted')
    <2>1. wire' \o Readable(snd_buffer') = (wire \o Readable(snd_buffer)) \o data
        BY SMTT(30), <1>1, <1>2, <1>3, <1>5, ConcatAssociative
    <2>2. (wire \o Readable(snd_buffer)) \o data \in Seq(Byte)
        BY Zenon, <1>2, <1>3, ConcatProperties
    <2>3. ((wire \o Readable(snd_buffer)) \o data) \o <<>> = (wire \o Readable(snd_buffer)) \o data
        BY Zenon, <2>2, ConcatEmptySeq
    <2> QED
        BY Zenon, <1>1, <1>2, <1>4, <2>1, <2>3
<1> QED
    BY Zenon, <1>1, <1>5, <1>6 DEF SendInv

(* The kernel takes n bytes from the front of the buffer.                  *)
LEMMA SendWriteStep ==
    ASSUME SendInv, NEW n \in 0 .. ReadableLength(snd_buffer), Send!Write(n)
    PROVE  SendInv'
<1>1. /\ snd_buffer' = Send!AfterWrite(n) /\ pc' \in {"closed", "poll"}
      /\ wire' = wire \o SubSeq(Readable(snd_buffer), 1, n)
      /\ UNCHANGED <<lock, snd_messages, tmp_messages, closing, count, accepted>>
    BY Zenon, SameBuffer DEF Send!Write, Send!OnWriteReturns
<1>2. snd_buffer' \in {HasRead(snd_buffer, n), Retrieve(HasRead(snd_buffer, n))}
    <2>1. Send!AfterWrite(n) \in {Send!HasRead(snd_buffer, n), Send!Retrieve(Send!HasRead(snd_buffer, n))}
        BY Zenon DEF Send!AfterWrite
    <2> QED
        BY Zenon, <1>1, <2>1, SameBuffer
<1>3. n \in 0 .. snd_buffer.write - snd_buffer.read
    BY Zenon DEF ReadableLength
<1>4. /\ snd_buffer' \in Buffers /\ SubSeq(Readable(snd_buffer), 1, n) \in Seq(Byte)
      /\ SubSeq(Readable(snd_buffer), 1, n) \o Readable(snd_buffer') = Readable(snd_buffer)
    BY Zenon, <1>2, <1>3, WriteSplits DEF SendInv
<1>5. PICK w \in Seq(Byte) : w = wire
    BY Zenon DEF SendInv
<1>6. PICK a \in Seq(Byte) : a = SubSeq(Readable(snd_buffer), 1, n)
    BY Zenon, <1>4
<1>7. PICK r \in Seq(Byte) : r = Readable(snd_buffer')
    BY Zenon, <1>4, ReadableBytes
<1>8. wire' = w \o a /\ w \o a \in Seq(Byte)
    BY Zenon, <1>1, <1>5, <1>6, ConcatProperties
<1>9. wire' \o Readable(snd_buffer') = wire \o Readable(snd_buffer)
    <2>1. (w \o a) \o r = w \o (a \o r)
        BY ConcatAssociative
    <2>2. a \o r = Readable(snd_buffer)
        BY Zenon, <1>4, <1>6, <1>7
    <2> QED
        BY Zenon, <1>5, <1>7, <1>8, <2>1, <2>2
<1>10. (wire' \o Readable(snd_buffer')) \o Send!AllBytes(snd_messages') = Send!AllBytes(accepted')
    BY Zenon, <1>1, <1>9 DEF SendInv
<1>11. pc' \in {"poll", "swap", "write", "closed", "removed"} /\ pc' # "swap"
    BY Zenon, <1>1
<1> QED
    BY Zenon, <1>1, <1>4, <1>8, <1>10, <1>11 DEF SendInv

(* Every step keeps the invariant, which implies the promise.              *)
LEMMA SendStep ==
    ASSUME SendInv, [Send!Next]_send_vars
    PROVE  SendInv'
<1>1. CASE \E s \in Sender : Send!SendLock(s) \/ Send!SendPush(s)
    BY Zenon, <1>1, SendLockStep, SendPushStep
<1>2. CASE Send!OnWrite
    BY Zenon, <1>2, OnWriteStep
<1>3. CASE Send!Swap
    BY Zenon, <1>3, SwapStep
<1>4. CASE Send!WriteSome
    <2>1. PICK n \in 1 .. ReadableLength(snd_buffer) : Send!Write(n)
        BY Zenon, <1>4, SameBuffer DEF Send!WriteSome
    <2>2. n \in 0 .. ReadableLength(snd_buffer)
        OBVIOUS
    <2> QED
        BY Zenon, <2>1, <2>2, SendWriteStep
<1>5. CASE Send!Write(0)
    <2>1. 0 \in 0 .. ReadableLength(snd_buffer)
        BY ReadableBytes DEF SendInv, ReadableLength
    <2> QED
        BY Zenon, <1>5, <2>1, SendWriteStep
<1>6. CASE Send!WriteError
    <2>1. /\ pc' \in {"closed", "poll"} /\ closing' \in BOOLEAN
          /\ UNCHANGED <<lock, snd_messages, tmp_messages, snd_buffer, count, accepted, wire>>
        BY Zenon, <1>6 DEF Send!WriteError, SendInv
    <2>2. pc' \in {"poll", "swap", "write", "closed", "removed"} /\ pc' # "swap"
        BY Zenon, <2>1
    <2> QED
        BY Zenon, <2>1, <2>2 DEF SendInv
<1>7. CASE Send!LeavePoller
    <2>1. /\ pc' = "removed"
          /\ UNCHANGED <<lock, snd_messages, tmp_messages, snd_buffer, closing, count, accepted, wire>>
        BY Zenon, <1>7 DEF Send!LeavePoller
    <2>2. pc' \in {"poll", "swap", "write", "closed", "removed"} /\ pc' # "swap"
        BY <2>1
    <2> QED
        BY Zenon, <2>1, <2>2 DEF SendInv
<1>8. CASE UNCHANGED send_vars
    BY Zenon, <1>8 DEF send_vars, SendInv
<1> QED
    BY Zenon, <1>1, <1>2, <1>3, <1>4, <1>5, <1>6, <1>7, <1>8 DEF Send!Next

(* The type of SocketSend, from the invariant.                             *)
LEMMA SendInvSuffices == SendInv => StreamIntact
<1> SUFFICES ASSUME SendInv PROVE StreamIntact
    BY Zenon
<1>1. BufferOK(snd_buffer)
    BY DEF SendInv, Buffers, BufferOK
<1>2. count \in [Sender -> 0 .. MaxMessages]
    <2>1. \A s \in Sender : count[s] \in 0 .. MaxMessages
        <3>1. Len(accepted) \in Nat /\ Len(accepted) <= MaxMessages
            BY DEF SendInv
        <3>2. \A s \in Sender : count[s] \in Nat /\ count[s] <= Len(accepted)
            BY Zenon DEF SendInv
        <3> QED
            BY <3>1, <3>2, SendAssumption
    <2> QED
        BY Zenon, <2>1 DEF SendInv
<1>3. \A ms \in {snd_messages, tmp_messages, accepted} :
          \A k \in 1 .. Len(ms) : ms[k] \in Sender \X (1 .. MaxMessages) \X Lengths
    <2>1. \A ms \in Seq(SentMessage) : \A k \in 1 .. Len(ms) : ms[k] \in SentMessage
        OBVIOUS
    <2>2. {snd_messages, tmp_messages, accepted} \subseteq Seq(SentMessage)
        BY Zenon DEF SendInv
    <2> QED
        BY Zenon, <2>1, <2>2 DEF SentMessage
<1>4. Send!TypeOK
    BY Zenon, <1>1, <1>2, <1>3, SameBuffer DEF SendInv, Send!TypeOK
<1>5. wire \o Send!Readable(snd_buffer) \o Send!AllBytes(snd_messages) = Send!AllBytes(accepted)
    BY Zenon, SameBuffer DEF SendInv
<1> QED
    BY Zenon, <1>4, <1>5 DEF StreamIntact, Send!StreamIntact

(* For any number of senders and messages, of any lengths, however the     *)
(* kernel splits its writes and whether or not one fails, the bytes on the *)
(* wire, in snd_buffer_ and in snd_messages_ are those of the messages in  *)
(* the order SendMessage took them.                                        *)
THEOREM AlwaysStreamIntact == Send!Spec => []StreamIntact
<1>1. SendInv /\ [Send!Next]_Send!vars => SendInv'
    BY Zenon, SendStep DEF send_vars, Send!vars
<1> QED
    BY SendStart, <1>1, SendInvSuffices, PTL DEF Send!Spec
-----------------------------------------------------------------------------
(* MessageBuffer.  A cell of a message is a value and its place in it; the *)
(* cells before field j + 1 are those of the first j fields.               *)
Cell == (Datum \cup {Zero}) \X Nat
UpTo(s, j) == Flat(SubSeq(s, 1, j))

(* The fields joined one after the other.                                  *)
LEMMA UpToStep ==
    ASSUME NEW s \in Seq(Seq(Cell)), NEW j \in 1 .. Len(s)
    PROVE  /\ UpTo(s, j) = UpTo(s, j - 1) \o s[j]
           /\ UpTo(s, j - 1) \in Seq(Cell) /\ UpTo(s, j) \in Seq(Cell) /\ s[j] \in Seq(Cell)
<1> DEFINE p == SubSeq(s, 1, j - 1)
           q == SubSeq(s, 1, j)
<1>1. /\ p \in Seq(Seq(Cell)) /\ Len(p) = j - 1 /\ \A i \in 1 .. j - 1 : p[i] = s[i]
      /\ q \in Seq(Seq(Cell)) /\ Len(q) = j /\ \A i \in 1 .. j : q[i] = s[i]
    OBVIOUS
<1> HIDE DEF p, q
<1>2. /\ Len(q) = Len(p) + 1 /\ Len(p) + 1 = j /\ j \in 1 .. j
      /\ \A i \in 1 .. Len(p) : i \in 1 .. j - 1 /\ i \in 1 .. j
    BY <1>1
<1>3. \A i \in 1 .. Len(p) : q[i] = p[i]
    BY Zenon, <1>1, <1>2
<1>4. Flat(q) = Flat(p) \o q[Len(p) + 1]
    BY Zenon, <1>1, <1>2, <1>3, FlatExtends
<1>5. Flat(p) \in Seq(Cell) /\ Flat(q) \in Seq(Cell)
    BY Zenon, <1>1, FlatType
<1>6. q[Len(p) + 1] = s[j]
    BY Zenon, <1>1, <1>2
<1>7. s[j] \in Seq(Cell)
    BY Zenon, ElementOfSeq
<1> QED
    BY Zenon, <1>4, <1>5, <1>6, <1>7 DEF UpTo, p, q

(* No fields are nothing, all of them what Concatenated makes of them.       *)
LEMMA UpToEnds ==
    ASSUME NEW s \in Seq(Seq(Cell))
    PROVE  UpTo(s, 0) = <<>> /\ UpTo(s, Len(s)) = Flat(s)
<1>1. SubSeq(s, 1, 0) = <<>> /\ SubSeq(s, 1, Len(s)) = s
    BY SubSeqEmpty, SubSeqFull
<1>2. Flat(<<>>) = <<>>
    <2>1. <<>> \in Seq(Seq(Cell))
        OBVIOUS
    <2> QED
        BY Zenon, <2>1, FlatType
<1> QED
    BY Zenon, <1>1, <1>2 DEF UpTo

(* What lies before a field depends only on the fields before it.          *)
LEMMA UpToPrefix ==
    ASSUME NEW s \in Seq(Seq(Cell)), NEW t \in Seq(Seq(Cell)),
           NEW j \in 0 .. Len(s), j <= Len(t), \A i \in 1 .. j : s[i] = t[i]
    PROVE  UpTo(s, j) = UpTo(t, j)
<1>1. /\ SubSeq(s, 1, j) \in Seq(Seq(Cell)) /\ Len(SubSeq(s, 1, j)) = j
      /\ \A i \in 1 .. j : SubSeq(s, 1, j)[i] = s[i]
      /\ SubSeq(t, 1, j) \in Seq(Seq(Cell)) /\ Len(SubSeq(t, 1, j)) = j
      /\ \A i \in 1 .. j : SubSeq(t, 1, j)[i] = t[i]
    OBVIOUS
<1>2. SubSeq(s, 1, j) = SubSeq(t, 1, j)
    BY Zenon, <1>1, SeqEqual
<1> QED
    BY Zenon, <1>2 DEF UpTo

(* c over the cells of b from offset o on.                                 *)
Over(b, o, c) ==
    [i \in 1 .. Len(b) |-> IF i - o \in 1 .. Len(c) THEN c[i - o] ELSE b[i]]

Within(o, c, b) == o + Len(c) <= Len(b)

(* It replaces cells, and makes none.                                      *)
LEMMA OverType ==
    ASSUME NEW b \in Seq(Cell), NEW o \in Nat, NEW c \in Seq(Cell)
    PROVE  /\ Over(b, o, c) \in Seq(Cell) /\ Len(Over(b, o, c)) = Len(b)
           /\ \A i \in 1 .. Len(b) :
                 Over(b, o, c)[i] = IF i - o \in 1 .. Len(c) THEN c[i - o] ELSE b[i]
<1>1. \A i \in 1 .. Len(b) : b[i] \in Cell
    OBVIOUS
<1>2. \A i \in 1 .. Len(c) : c[i] \in Cell
    OBVIOUS
<1>3. Over(b, o, c) \in [1 .. Len(b) -> Cell]
    BY Zenon, <1>1, <1>2 DEF Over
<1>4. Over(b, o, c) \in Seq(Cell) /\ Len(Over(b, o, c)) = Len(b)
    BY <1>3
<1>5. \A i \in 1 .. Len(b) :
          Over(b, o, c)[i] = IF i - o \in 1 .. Len(c) THEN c[i - o] ELSE b[i]
    BY Zenon DEF Over
<1> QED
    BY Zenon, <1>4, <1>5

(* x is a followed by b, cell by cell.                                     *)
Follow(x, a, b) ==
    /\ Len(x) = Len(a) + Len(b)
    /\ \A i \in 1 .. Len(a) + Len(b) : x[i] = IF i <= Len(a) THEN a[i] ELSE b[i - Len(a)]

(* A concatenation is its first part, then its second ...                  *)
LEMMA ConcatFollows ==
    ASSUME NEW a \in Seq(Cell), NEW b \in Seq(Cell)
    PROVE  a \o b \in Seq(Cell) /\ Follow(a \o b, a, b)
BY Zenon, ConcatProperties DEF Follow

(* ... and nothing else is.                                                *)
LEMMA FollowIsConcat ==
    ASSUME NEW x \in Seq(Cell), NEW a \in Seq(Cell), NEW b \in Seq(Cell), Follow(x, a, b)
    PROVE  x = a \o b
<1>1. a \o b \in Seq(Cell) /\ Follow(a \o b, a, b)
    BY Zenon, ConcatFollows
<1>2. Len(x) = Len(a \o b) /\ \A i \in 1 .. Len(x) : x[i] = (a \o b)[i]
    BY Zenon, <1>1 DEF Follow
<1> QED
    BY Zenon, <1>1, <1>2, SeqEqual

(* Over the last field, and with another field behind it.                  *)
LEMMA OverLast ==
    ASSUME NEW a \in Seq(Cell), NEW b \in Seq(Cell), NEW c \in Seq(Cell), NEW x \in Seq(Cell),
           Len(c) = Len(b), Follow(x, a, b)
    PROVE  Over(x, Len(a), c) = a \o c
<1>1. Len(a) \in Nat /\ Len(b) \in Nat /\ Len(x) = Len(a) + Len(b)
    BY DEF Follow
<1>2. /\ Over(x, Len(a), c) \in Seq(Cell) /\ Len(Over(x, Len(a), c)) = Len(x)
      /\ \A i \in 1 .. Len(x) :
            Over(x, Len(a), c)[i] = IF i - Len(a) \in 1 .. Len(c) THEN c[i - Len(a)] ELSE x[i]
    BY <1>1, OverType
<1>3. ASSUME NEW i \in 1 .. Len(a) + Len(c)
      PROVE  Over(x, Len(a), c)[i] = IF i <= Len(a) THEN a[i] ELSE c[i - Len(a)]
    <2>1. i \in 1 .. Len(x) /\ (i <= Len(a) <=> i - Len(a) \notin 1 .. Len(c))
        BY <1>1
    <2>2. i <= Len(a) => x[i] = a[i]
        BY Zenon, <1>1 DEF Follow
    <2> QED
        BY Zenon, <1>2, <2>1, <2>2
<1>4. Follow(Over(x, Len(a), c), a, c)
    BY Zenon, <1>1, <1>2, <1>3 DEF Follow
<1> QED
    BY Zenon, <1>2, <1>4, FollowIsConcat

(* Writing within the first part leaves the second one alone.              *)
LEMMA OverBefore ==
    ASSUME NEW a \in Seq(Cell), NEW b \in Seq(Cell), NEW c \in Seq(Cell), NEW x \in Seq(Cell),
           NEW o \in Nat, Within(o, c, a), Follow(x, a, b)
    PROVE  Over(x, o, c) = Over(a, o, c) \o b
<1>1. Len(a) \in Nat /\ Len(b) \in Nat /\ Len(c) \in Nat /\ Len(x) = Len(a) + Len(b)
    BY DEF Follow
<1>2. /\ Over(x, o, c) \in Seq(Cell) /\ Len(Over(x, o, c)) = Len(x)
      /\ \A i \in 1 .. Len(x) : Over(x, o, c)[i] = IF i - o \in 1 .. Len(c) THEN c[i - o] ELSE x[i]
    BY OverType
<1>3. /\ Over(a, o, c) \in Seq(Cell) /\ Len(Over(a, o, c)) = Len(a)
      /\ \A i \in 1 .. Len(a) : Over(a, o, c)[i] = IF i - o \in 1 .. Len(c) THEN c[i - o] ELSE a[i]
    BY OverType
<1>4. ASSUME NEW i \in 1 .. Len(a) + Len(b)
      PROVE  Over(x, o, c)[i] = IF i <= Len(a) THEN Over(a, o, c)[i] ELSE b[i - Len(a)]
    <2>1. i \in 1 .. Len(x) /\ x[i] = IF i <= Len(a) THEN a[i] ELSE b[i - Len(a)]
        BY Zenon, <1>1 DEF Follow
    <2>2. i <= Len(a) => i \in 1 .. Len(a)
        BY <1>1
    <2>3. ~(i <= Len(a)) => i - o \notin 1 .. Len(c)
        BY <1>1 DEF Within
    <2> QED
        BY Zenon, <1>2, <1>3, <2>1, <2>2, <2>3
<1>5. Follow(Over(x, o, c), Over(a, o, c), b)
    BY Zenon, <1>1, <1>2, <1>3, <1>4 DEF Follow
<1> QED
    BY Zenon, <1>2, <1>3, <1>5, FollowIsConcat

(* Another sequence of the same length for field k changes its own cells   *)
(* and no others, however many fields follow.                              *)
LEMMA UpToReplaced ==
    ASSUME NEW s \in Seq(Seq(Cell)), NEW k \in 1 .. Len(s), NEW c \in Seq(Cell),
           Len(c) = Len(s[k])
    PROVE  \A j \in k .. Len(s) :
              /\ UpTo([s EXCEPT ![k] = c], j) = Over(UpTo(s, j), Len(UpTo(s, k - 1)), c)
              /\ Len(UpTo(s, k - 1)) + Len(c) <= Len(UpTo(s, j))
<1>1. PICK o \in Nat : o = Len(UpTo(s, k - 1))
    <2>1. UpTo(s, k - 1) \in Seq(Cell)
        BY Zenon, UpToStep
    <2> QED
        BY <2>1
<1> DEFINE t == [s EXCEPT ![k] = c]
           Good(j) == UpTo(t, j) = Over(UpTo(s, j), o, c) /\ o + Len(c) <= Len(UpTo(s, j))
           T == {j \in k .. Len(s) : ~Good(j)}
<1>2. /\ t \in Seq(Seq(Cell)) /\ Len(t) = Len(s) /\ t[k] = c
      /\ \A i \in 1 .. Len(s) : i # k => t[i] = s[i]
    OBVIOUS
<1>3. SUFFICES ASSUME T # {} PROVE FALSE
    BY Zenon, <1>1
<1> HIDE DEF Good
<1>4. T \subseteq Nat
    OBVIOUS
<1>5. PICK j \in T : \A i \in T : j <= i
    BY Zenon, <1>3, <1>4, FirstPosition
<1>6. j \in k .. Len(s) /\ ~Good(j)
    BY Zenon, <1>5
<1>7. j \in 1 .. Len(s) /\ j - 1 \in Nat
    BY <1>6
<1>8. j # k => j - 1 \in k .. Len(s) /\ ~(j <= j - 1)
    BY <1>6
<1>9. j # k => Good(j - 1)
    BY Zenon, <1>5, <1>8
<1> HIDE DEF T, t
<1>10. /\ UpTo(s, j) = UpTo(s, j - 1) \o s[j] /\ UpTo(s, j - 1) \in Seq(Cell) /\ s[j] \in Seq(Cell)
    BY Zenon, <1>7, UpToStep
<1>11. /\ UpTo(t, j) = UpTo(t, j - 1) \o t[j] /\ UpTo(t, j - 1) \in Seq(Cell) /\ t[j] \in Seq(Cell)
    BY Zenon, <1>2, <1>7, UpToStep
<1>12. PICK u \in Seq(Cell) : u = UpTo(s, j - 1)
    BY Zenon, <1>10
<1>13. PICK d \in Seq(Cell) : d = s[j]
    BY Zenon, <1>10
<1>14. PICK x \in Seq(Cell) : x = UpTo(s, j) /\ x = u \o d
    <2>1. u \o d \in Seq(Cell)
        BY Zenon, ConcatFollows
    <2> QED
        BY Zenon, <1>10, <1>12, <1>13, <2>1
<1>15. Follow(x, u, d) /\ Len(x) = Len(u) + Len(d)
    BY <1>14, ConcatFollows DEF Follow
<1>16. j # k
    <2> SUFFICES ASSUME j = k PROVE FALSE
        BY Zenon
    <2>1. UpTo(t, j - 1) = UpTo(s, j - 1)
        <3>1. j - 1 \in 0 .. Len(t) /\ j - 1 <= Len(s) /\ \A i \in 1 .. j - 1 : t[i] = s[i]
            BY <1>2, <1>7
        <3> QED
            BY Zenon, <1>2, <3>1, UpToPrefix
    <2>2. UpTo(t, j) = u \o c
        BY Zenon, <1>2, <1>11, <1>12, <2>1
    <2>3. Len(d) = Len(c) /\ o = Len(u)
        BY Zenon, <1>1, <1>12, <1>13
    <2>4. Over(x, Len(u), c) = u \o c
        BY Zenon, <1>15, <2>3, OverLast
    <2>5. o + Len(c) <= Len(x)
        BY <1>15, <2>3
    <2> QED
        BY Zenon, <1>6, <1>14, <2>2, <2>3, <2>4, <2>5 DEF Good
<1>17. t[j] = d
    BY Zenon, <1>2, <1>7, <1>13, <1>16
<1>18. UpTo(t, j - 1) = Over(u, o, c) /\ o + Len(c) <= Len(u)
    BY Zenon, <1>9, <1>12, <1>16 DEF Good
<1>19. UpTo(t, j) = Over(x, o, c)
    <2>1. Within(o, c, u) /\ Follow(x, u, d)
        BY Zenon, <1>15, <1>18 DEF Within
    <2>2. Over(x, o, c) = Over(u, o, c) \o d
        BY <2>1, OverBefore
    <2> QED
        BY Zenon, <1>11, <1>17, <1>18, <2>2
<1>20. o + Len(c) <= Len(x)
    BY <1>15, <1>18
<1> QED
    BY Zenon, <1>6, <1>14, <1>19, <1>20 DEF Good

(* What a field is filled with.                                            *)
LEMMA CellsType ==
    ASSUME NEW v \in Datum \cup {Zero}, NEW n \in Nat
    PROVE  Message!Cells(v, n) \in Seq(Cell) /\ Len(Message!Cells(v, n)) = n
<1>1. \A i \in 1 .. n : <<v, i>> \in Cell
    BY DEF Cell
<1>2. Message!Cells(v, n) \in [1 .. n -> Cell]
    BY Zenon, <1>1 DEF Message!Cells
<1> QED
    BY <1>2

(* FieldsStay is inductive once it is said where a MemberPtr points: just  *)
(* behind the fields before its own.                                       *)
MessageInv ==
    /\ fields \in Seq(Seq(Cell)) /\ buffer = Flat(fields)
    /\ \A m \in members :
          /\ m.field \in 1 .. Len(fields)
          /\ m.offset = Len(UpTo(fields, m.field - 1))

(* A field more, at the end, moves no other.                               *)
LEMMA MakeSpaceStep ==
    ASSUME MessageInv, NEW cells \in Seq(Cell), Message!MakeSpace(cells),
           NEW more, members' = members \cup more,
           \A m \in more : m.field = Len(fields) + 1 /\ m.offset = Len(buffer)
    PROVE  MessageInv'
<1> DEFINE t == Append(fields, cells)
<1>1. fields' = t /\ buffer' = buffer \o cells
    BY Zenon DEF Message!MakeSpace
<1>2. fields \in Seq(Seq(Cell)) /\ buffer = Flat(fields) /\ Len(fields) \in Nat
    BY DEF MessageInv
<1>3. /\ t \in Seq(Seq(Cell)) /\ Len(t) = Len(fields) + 1 /\ t[Len(fields) + 1] = cells
      /\ \A i \in 1 .. Len(fields) : t[i] = fields[i]
    BY <1>2, AppendProperties
<1> HIDE DEF t
<1>4. Flat(t) = Flat(fields) \o cells
    BY Zenon, <1>2, <1>3, FlatExtends
<1>5. \A j \in 0 .. Len(fields) : UpTo(fields, j) = UpTo(t, j)
    <2> TAKE j \in 0 .. Len(fields)
    <2>1. j <= Len(t) /\ \A i \in 1 .. j : fields[i] = t[i]
        BY <1>2, <1>3
    <2> QED
        BY Zenon, <1>2, <1>3, <2>1, UpToPrefix
<1>6. ASSUME NEW m \in members'
      PROVE  m.field \in 1 .. Len(t) /\ m.offset = Len(UpTo(t, m.field - 1))
    <2>1. CASE m \in members
        <3>1. m.field \in 1 .. Len(fields) /\ m.offset = Len(UpTo(fields, m.field - 1))
            BY Zenon, <2>1 DEF MessageInv
        <3>2. m.field \in 1 .. Len(t) /\ m.field - 1 \in 0 .. Len(fields)
            BY SMTT(30), <1>2, <1>3, <3>1
        <3> QED
            BY Zenon, <1>5, <3>1, <3>2
    <2>2. CASE m \in more
        <3>1. m.field = Len(fields) + 1 /\ m.offset = Len(buffer)
            BY Zenon, <2>2
        <3>2. m.field \in 1 .. Len(t) /\ m.field - 1 = Len(fields) /\ Len(fields) \in 0 .. Len(fields)
            BY <1>2, <1>3, <3>1
        <3>3. UpTo(t, Len(fields)) = buffer
            BY Zenon, <1>2, <1>5, <3>2, UpToEnds
        <3> QED
            BY Zenon, <3>1, <3>2, <3>3
    <2> QED
        BY Zenon, <2>1, <2>2
<1> QED
    BY Zenon, <1>1, <1>2, <1>3, <1>4, <1>6 DEF MessageInv

(* An assignment through a MemberPtr changes the cells of its field.       *)
LEMMA StoreStep ==
    ASSUME MessageInv, NEW m \in members, NEW v \in Datum, Message!Store(m, v)
    PROVE  MessageInv'
<1> DEFINE k == m.field
           n == Len(fields[k])
<1>1. /\ fields \in Seq(Seq(Cell)) /\ buffer = Flat(fields)
      /\ k \in 1 .. Len(fields) /\ m.offset = Len(UpTo(fields, k - 1))
    BY Zenon DEF MessageInv
<1>2. fields[k] \in Seq(Cell) /\ n \in Nat
    BY <1>1, ElementOfSeq
<1>3. PICK c \in Seq(Cell) : c = Message!Cells(v, n) /\ Len(c) = n
    BY Zenon, <1>2, CellsType
<1>4. /\ buffer' = [i \in DOMAIN buffer |-> IF i - m.offset \in DOMAIN c
                                            THEN c[i - m.offset] ELSE buffer[i]]
      /\ fields' = [fields EXCEPT ![k] = c] /\ members' = members
    BY Zenon, <1>3 DEF Message!Store, Message!get
<1>5. buffer \in Seq(Cell) /\ UpTo(fields, Len(fields)) = buffer
    BY Zenon, <1>1, FlatType, UpToEnds
<1>6. buffer' = Over(buffer, m.offset, c)
    <2>1. DOMAIN buffer = 1 .. Len(buffer) /\ DOMAIN c = 1 .. Len(c)
        BY <1>5
    <2> QED
        BY Zenon, <1>4, <2>1 DEF Over
<1>7. /\ fields' \in Seq(Seq(Cell)) /\ Len(fields') = Len(fields)
      /\ \A i \in 1 .. Len(fields) : i # k => fields'[i] = fields[i]
    BY <1>1, <1>4
<1>8. \A j \in k .. Len(fields) :
          UpTo(fields', j) = Over(UpTo(fields, j), m.offset, c)
    BY Zenon, <1>1, <1>3, <1>4, UpToReplaced
<1>9. buffer' = Flat(fields')
    <2>1. Len(fields) \in k .. Len(fields)
        BY <1>1
    <2>2. UpTo(fields', Len(fields')) = Over(buffer, m.offset, c)
        BY Zenon, <1>5, <1>7, <1>8, <2>1
    <2> QED
        BY Zenon, <1>6, <1>7, <2>2, UpToEnds
<1>10. \A j \in 0 .. Len(fields) : Len(UpTo(fields', j)) = Len(UpTo(fields, j))
    <2> TAKE j \in 0 .. Len(fields)
    <2>1. CASE j < k
        <3>1. \A i \in 1 .. j : fields[i] = fields'[i]
            BY <1>1, <1>7, <2>1
        <3>2. j <= Len(fields')
            BY <1>7
        <3>3. UpTo(fields, j) = UpTo(fields', j)
            BY Zenon, <1>1, <1>7, <3>1, <3>2, UpToPrefix
        <3> QED
            BY Zenon, <3>3
    <2>2. CASE ~(j < k)
        <3>1. j \in k .. Len(fields) /\ j \in 1 .. Len(fields)
            BY <1>1, <2>2
        <3>2. UpTo(fields, j) \in Seq(Cell)
            BY Zenon, <1>1, <3>1, UpToStep
        <3>3. m.offset \in Nat
            BY <1>1, UpToStep
        <3> QED
            BY <1>8, <3>1, <3>2, <3>3, OverType
    <2> QED
        BY Zenon, <2>1, <2>2
<1>11. ASSUME NEW q \in members
       PROVE  q.field \in 1 .. Len(fields') /\ q.offset = Len(UpTo(fields', q.field - 1))
    <2>1. q.field \in 1 .. Len(fields) /\ q.offset = Len(UpTo(fields, q.field - 1))
        BY Zenon DEF MessageInv
    <2>2. q.field - 1 \in 0 .. Len(fields)
        BY <1>1, <2>1
    <2> QED
        BY Zenon, <1>7, <1>10, <2>1, <2>2
<1> QED
    BY Zenon, <1>4, <1>7, <1>9, <1>11 DEF MessageInv

(* A new message has no fields.                                            *)
LEMMA MessageStart == Message!Init => MessageInv
<1> SUFFICES ASSUME Message!Init PROVE MessageInv
    BY Zenon
<1>1. <<>> \in Seq(Seq(Cell))
    OBVIOUS
<1>2. Flat(<<>>) = <<>>
    BY Zenon, <1>1, FlatType
<1> QED
    BY Zenon, <1>1, <1>2 DEF Message!Init, MessageInv

(* Every step keeps the invariant.                                         *)
LEMMA MessageStep ==
    ASSUME MessageInv, [Message!Next]_message_vars
    PROVE  MessageInv'
<1>1. ASSUME NEW n \in 1 .. 3, Message!AppendMember(n)
      PROVE  MessageInv'
    <2> DEFINE more == {[field |-> Len(fields) + 1, offset |-> Len(buffer), made |-> block']}
    <2>1. Message!MakeSpace(Message!Cells(Zero, n)) /\ members' = members \cup more
        BY Zenon, <1>1 DEF Message!AppendMember
    <2>2. \A m \in more : m.field = Len(fields) + 1 /\ m.offset = Len(buffer)
        OBVIOUS
    <2>3. Message!Cells(Zero, n) \in Seq(Cell)
        BY CellsType
    <2> HIDE DEF more
    <2> QED
        BY Zenon, <2>1, <2>2, <2>3, MakeSpaceStep
<1>2. ASSUME NEW n \in 1 .. 3, NEW v \in Datum, Message!AppendValue(v, n)
      PROVE  MessageInv'
    <2> DEFINE more == {}
    <2>1. Message!MakeSpace(Message!Cells(v, n)) /\ members' = members \cup more
        BY Zenon, <1>2 DEF Message!AppendValue
    <2>2. \A m \in more : m.field = Len(fields) + 1 /\ m.offset = Len(buffer)
        BY Zenon
    <2>3. Message!Cells(v, n) \in Seq(Cell)
        BY CellsType
    <2> HIDE DEF more
    <2> QED
        BY Zenon, <2>1, <2>2, <2>3, MakeSpaceStep
<1>3. ASSUME NEW m \in members, NEW v \in Datum, Message!Store(m, v)
      PROVE  MessageInv'
    BY Zenon, <1>3, StoreStep
<1>4. CASE UNCHANGED message_vars
    BY Zenon, <1>4 DEF message_vars, MessageInv
<1> QED
    BY Zenon, <1>1, <1>2, <1>3, <1>4 DEF Message!Next

(* For any values, any number of fields and any growth of the string, a    *)
(* message is its fields one behind the other, each with what was last     *)
(* stored in it through a MemberPtr.                                       *)
THEOREM AlwaysFieldsStay == Message!Spec => []FieldsStay
<1>1. MessageInv /\ [Message!Next]_Message!message_vars => MessageInv'
    BY Zenon, MessageStep DEF message_vars, Message!message_vars
<1>2. MessageInv => FieldsStay
    BY Zenon, ConcatenatedIs DEF MessageInv, FieldsStay, Message!FieldsStay
<1> QED
    BY MessageStart, <1>1, <1>2, PTL DEF Message!Spec
=============================================================================
