--------------------------- MODULE BufferedSocket ---------------------------
(***************************************************************************)
(* green_turtle/net/buffered_socket.* with what uses it: the two halves of *)
(* a BufferedSocket, the MessageBuffers it sends, and the kv sample's      *)
(* MessageLoop that answers through one.                                   *)
(***************************************************************************)
EXTENDS SocketReceive, MessageLoop

CONSTANTS
    NoSender, Sender, Lengths, MaxMessages, SendSize, RetrieveSize,
    Datum, Zero, InitSize, MaxFields

ASSUME SendAssumption ==
    /\ NoSender \notin Sender /\ Lengths \subseteq Nat
    /\ MaxMessages \in Nat /\ SendSize \in Nat /\ RetrieveSize \in Nat

VARIABLES
    lock, snd_messages, tmp_messages, snd_buffer, pc, closing, count, accepted, wire,
    buffer, block, members, fields

send_vars == <<lock, snd_messages, tmp_messages, snd_buffer, pc, closing, count, accepted, wire>>
message_vars == <<buffer, block, members, fields>>

Send == INSTANCE SocketSend WITH BufferSize <- SendSize
Message == INSTANCE MessageBuffer
-----------------------------------------------------------------------------
(* What is written is what SendMessage took, in order.                     *)
StreamIntact == Send!StreamIntact
(* Every message is written, unless a write fails or the handler leaves    *)
(* its poller.                                                             *)
EverythingIsWritten == Send!EverythingIsWritten
(* A message is its fields, also when they are filled in late.             *)
FieldsStay == Message!FieldsStay
=============================================================================
