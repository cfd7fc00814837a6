----------------------------- MODULE SocketSend -----------------------------
(***************************************************************************)
(* The sending half of green_turtle/net/buffered_socket.*: any thread puts *)
(* messages into snd_messages_ under write_lock_; the socket's IO thread   *)
(* swaps them out, copies them into snd_buffer_ and writes what the kernel *)
(* takes.  EventHandler::HandleEvent calls OnWrite when poll reports the   *)
(* socket writable and, after a failed write, once more from Shutdown.     *)
(* A handler that was taken out of its poller gets no event any more.      *)
(***************************************************************************)
EXTENDS Buffer, Concatenation

CONSTANTS
    Sender,         \* the threads that call SendMessage
    Lengths,        \* the lengths a message may have
    MaxMessages,    \* bound: messages of all senders
    BufferSize,     \* SocketConfig::kBufferedSocketBufferSize
    RetrieveSize,   \* SocketConfig::kBufferedSocketRetrieveBufferSize
    NoSender

VARIABLES
    lock,            \* who holds write_lock_
    snd_messages, tmp_messages, snd_buffer,
    pc,              \* the IO thread: "poll", "swap", "write", "closed" after
                     \* Shutdown, "removed" when the poller forgot the handler
    closing,         \* OnWrite has been called from Shutdown
    count,           \* messages sent so far, per sender
    accepted,        \* history: the messages in the order they entered snd_messages_
    wire             \* history: the bytes the kernel has taken

vars == <<lock, snd_messages, tmp_messages, snd_buffer, pc, closing, count, accepted, wire>>
-----------------------------------------------------------------------------
(* A message is <<sender, number, length>>; its bytes name it and their    *)
(* position in it.                                                         *)
Bytes(m) == [i \in 1 .. m[3] |-> <<m[1], m[2], i>>]
AllBytes(ms) == Concatenated([k \in 1 .. Len(ms) |-> Bytes(ms[k])])

Init ==
    /\ lock = NoSender
    /\ snd_messages = <<>> /\ tmp_messages = <<>>
    /\ snd_buffer = NewBuffer(BufferSize)
    /\ pc = "poll" /\ closing = FALSE
    /\ count = [s \in Sender |-> 0]
    /\ accepted = <<>> /\ wire = <<>>

(* SendMessage: lock_guard, push_back, unlock.                             *)
SendLock(s) ==
    /\ lock = NoSender /\ Len(accepted) < MaxMessages
    /\ lock' = s
    /\ UNCHANGED <<snd_messages, tmp_messages, snd_buffer, pc, closing, count, accepted, wire>>

SendPush(s) ==
    /\ lock = s
    /\ \E n \in Lengths :
          LET m == <<s, count[s] + 1, n>>
          IN  snd_messages' = Append(snd_messages, m) /\ accepted' = Append(accepted, m)
    /\ count' = [count EXCEPT ![s] = @ + 1]
    /\ lock' = NoSender
    /\ UNCHANGED <<tmp_messages, snd_buffer, pc, closing, wire>>

(* HasData reads snd_messages_.size() without the lock.  While a push_back *)
(* is under way it may see anything.                                       *)
Bug_HasDataBufferOnly == {ReadableLength(snd_buffer) # 0}
HasData ==
    IF ReadableLength(snd_buffer) # 0 THEN {TRUE}
    ELSE IF lock # NoSender THEN BOOLEAN ELSE {snd_messages # <<>>}

OnWriteReturns == pc' = IF closing THEN "closed" ELSE "poll"

(* OnWrite up to the lock.                                                 *)
Bug_OnWriteKeepsTmp ==
    /\ pc = "poll"
    /\ \E b \in HasData : IF b THEN pc' = "swap" ELSE OnWriteReturns
    /\ UNCHANGED <<lock, snd_messages, tmp_messages, snd_buffer, closing, count, accepted, wire>>
OnWrite ==
    /\ pc = "poll"
    /\ \E b \in HasData : IF b THEN pc' = "swap" /\ tmp_messages' = <<>>
                               ELSE OnWriteReturns /\ UNCHANGED tmp_messages
    /\ UNCHANGED <<lock, snd_messages, snd_buffer, closing, count, accepted, wire>>

(* tmp_messages_.swap(snd_messages_) under the lock; then the messages are *)
(* copied into snd_buffer_, which only this thread uses.                   *)
Swap ==
    /\ pc = "swap" /\ lock = NoSender
    /\ tmp_messages' = snd_messages
    /\ snd_messages' = tmp_messages
    /\ snd_buffer' = AppendData(snd_buffer, AllBytes(snd_messages))
    /\ pc' = "write"
    /\ UNCHANGED <<lock, closing, count, accepted, wire>>

(* snd_buffer_ once the kernel has taken n bytes.                          *)
AfterWrite(n) ==
    LET b == HasRead(snd_buffer, n)
    IN  IF n > 0 /\ ReadableLength(b) < RetrieveSize THEN Retrieve(b) ELSE b

(* write(2) and the accounting for it.  No bytes: EAGAIN.                  *)
Write(n) ==
    /\ pc = "write"
    /\ snd_buffer' = AfterWrite(n)
    /\ wire' = wire \o SubSeq(Readable(snd_buffer), 1, n)
    /\ OnWriteReturns
    /\ UNCHANGED <<lock, snd_messages, tmp_messages, closing, count, accepted>>

(* write(2) fails: HandleEvent removes the handler and calls Shutdown,     *)
(* which starts another OnWrite; there the result is ignored.              *)
WriteError ==
    /\ pc = "write"
    /\ IF closing THEN pc' = "closed" /\ UNCHANGED closing
                  ELSE pc' = "poll" /\ closing' = TRUE
    /\ UNCHANGED <<lock, snd_messages, tmp_messages, snd_buffer, count, accepted, wire>>

(* Without any failed write the handler leaves its poller: OnRead failed   *)
(* or met the end of the stream, or nothing was read for                   *)
(* kSocketRecvTimeOut, whatever was written in the meantime.               *)
LeavePoller ==
    /\ pc = "poll" /\ ~closing
    /\ pc' = "removed"
    /\ UNCHANGED <<lock, snd_messages, tmp_messages, snd_buffer, closing, count, accepted, wire>>

WriteSome == \E n \in 1 .. ReadableLength(snd_buffer) : Write(n)
Next ==
    \/ \E s \in Sender : SendLock(s) \/ SendPush(s)
    \/ OnWrite \/ Swap \/ WriteSome \/ Write(0) \/ WriteError \/ LeavePoller

Spec == Init /\ [][Next]_vars

(* Sockets are watched level-triggered, so as long as the handler is in    *)
(* its poller a writable socket is reported again and again, and the       *)
(* peer's reading lets the kernel take some bytes again and again; a       *)
(* thread that holds write_lock_ releases it.                              *)
FairSpec ==
    /\ Spec
    /\ \A s \in Sender : WF_vars(SendPush(s))
    /\ WF_vars(OnWrite) /\ SF_vars(Swap)
    /\ SF_vars(WriteSome) /\ WF_vars(Write(0))
-----------------------------------------------------------------------------
(* Buffer offsets stay in order and in the array, messages are messages.   *)
TypeOK ==
    /\ lock \in Sender \cup {NoSender}
    /\ BufferOK(snd_buffer)
    /\ pc \in {"poll", "swap", "write", "closed", "removed"} /\ closing \in BOOLEAN
    /\ count \in [Sender -> 0 .. MaxMessages]
    /\ \A ms \in {snd_messages, tmp_messages, accepted} :
          \A k \in 1 .. Len(ms) : ms[k] \in Sender \X (1 .. MaxMessages) \X Lengths

(* Nothing is lost, duplicated or reordered on the way through the two     *)
(* vectors and the compacted buffer, whatever the kernel takes per write   *)
(* and whether or not a write fails: wire, buffer and queues concatenated  *)
(* are exactly the messages in the order SendMessage took them, so bytes   *)
(* of one message are never split by those of another.                     *)
StreamIntact ==
    /\ TypeOK
    /\ wire \o Readable(snd_buffer) \o AllBytes(snd_messages) = AllBytes(accepted)

(* A message handed to SendMessage reaches the wire completely, unless a   *)
(* write fails or the handler has left its poller: no wake-up is lost when *)
(* HasData misses a push_back.                                             *)
EverythingIsWritten ==
    \A k \in 1 .. MaxMessages :
        (Len(accepted) >= k) ~>
            \/ closing \/ pc = "removed"
            \/ Len(accepted) >= k /\ Len(wire) >= Len(AllBytes(SubSeq(accepted, 1, k)))
=============================================================================
