--------------------------- MODULE SocketReceive ---------------------------
(***************************************************************************)
(* The receiving half of green_turtle/net/buffered_socket.*: OnRead reads  *)
(* with one readv into the free space of rcv_buffer_ and an extra array on *)
(* the stack, appends what spilled over, lets Decoding consume a prefix    *)
(* and moves the rest to the front.  All of it runs on the IO thread.      *)
(***************************************************************************)
EXTENDS Buffer

CONSTANTS
    MaxBytes,     \* bound: bytes the peer sends
    BufferSize,   \* SocketConfig::kBufferedSocketBufferSize
    ExtraSize     \* sizeof(extrabuff)

ASSUME ReceiveAssumption == MaxBytes \in Nat /\ BufferSize \in Nat /\ ExtraSize \in Nat

VARIABLES
    arrived,      \* bytes the peer has sent; the k-th byte is k
    taken,        \* bytes readv has returned
    rcv_buffer,
    decoded,      \* history: the bytes Decoding has consumed, in order
    failed        \* readv has failed and HandleEvent has called OnError

vars == <<arrived, taken, rcv_buffer, decoded, failed>>

Init ==
    /\ arrived = 0 /\ taken = 0
    /\ rcv_buffer = NewBuffer(BufferSize)
    /\ decoded = <<>>
    /\ failed = FALSE

Arrive ==
    /\ arrived < MaxBytes
    /\ arrived' = arrived + 1
    /\ UNCHANGED <<taken, rcv_buffer, decoded, failed>>

Stream(n) == [i \in 1 .. n |-> i]
NextBytes(n) == [i \in 1 .. n |-> taken + i]

(* rcv_buffer_ after a readv that returned the bytes of data: the first of *)
(* them were read into the free space, the others into extrabuff.          *)
Bug_SpillTwice(b, data) ==
    LET w == WritableLength(b)
        n == Len(data)
    IN  IF w <= n
           THEN AppendData(HasWritten(Filled(b, SubSeq(data, 1, w)), w), data)
           ELSE HasWritten(Filled(b, data), n)
Received(b, data) ==
    LET w == WritableLength(b)
        n == Len(data)
    IN  IF w <= n
           THEN LET full == HasWritten(Filled(b, SubSeq(data, 1, w)), w)
                IN  IF n - w > 0 THEN AppendData(full, SubSeq(data, w + 1, n)) ELSE full
           ELSE HasWritten(Filled(b, data), n)

(* n bytes are there; Decoding, which subclasses define, consumes k.       *)
Bug_OnReadNoRetrieve(n, k) ==
    /\ ~failed
    /\ n > 0 /\ n <= arrived - taken
    /\ n <= WritableLength(rcv_buffer) + ExtraSize
    /\ LET b == Received(rcv_buffer, NextBytes(n))
       IN  /\ k <= ReadableLength(b)
           /\ decoded' = decoded \o SubSeq(Readable(b), 1, k)
           /\ rcv_buffer' = HasRead(b, k)
    /\ taken' = taken + n
    /\ UNCHANGED <<arrived, failed>>
OnRead(n, k) ==
    /\ ~failed
    /\ n > 0 /\ n <= arrived - taken
    /\ n <= WritableLength(rcv_buffer) + ExtraSize
    /\ LET b == Received(rcv_buffer, NextBytes(n))
       IN  /\ k <= ReadableLength(b)
           /\ decoded' = decoded \o SubSeq(Readable(b), 1, k)
           /\ rcv_buffer' = Retrieve(HasRead(b, k))
    /\ taken' = taken + n
    /\ UNCHANGED <<arrived, failed>>

(* readv fails.  A return of 0, EAGAIN or the end of the stream, changes   *)
(* nothing.                                                                *)
OnReadError ==
    /\ ~failed
    /\ failed' = TRUE
    /\ UNCHANGED <<arrived, taken, rcv_buffer, decoded>>

Next ==
    \/ Arrive
    \/ \E n \in 1 .. MaxBytes, k \in 0 .. MaxBytes : OnRead(n, k)
    \/ OnReadError

Spec == Init /\ [][Next]_vars
-----------------------------------------------------------------------------
(* The bytes Decoding has consumed and the ones still buffered are exactly *)
(* the bytes that arrived, in order: none is lost, duplicated or read from *)
(* uninitialised memory at the boundary between the buffer's free space    *)
(* and the extra array, at whatever sizes readv returns.                   *)
ReceivedInOrder == decoded \o Readable(rcv_buffer) = Stream(taken)

(* After every read the unconsumed bytes start the array, and the array is *)
(* never larger than its initial size or than what had to be held at once: *)
(* the receive buffer, unlike the send buffer, does not grow with traffic. *)
GrowthIsBacklog ==
    [][ /\ rcv_buffer'.read = 0
        /\ rcv_buffer'.size > rcv_buffer.size =>
              rcv_buffer'.size = ReadableLength(rcv_buffer) + (taken' - taken) ]_vars
=============================================================================
