-------------------------- MODULE MCBufferedSocket --------------------------
(***************************************************************************)
(* The way of bytes and messages between threads: the two halves of a      *)
(* BufferedSocket, the MessageBuffers it sends, the kv sample's            *)
(* MessageLoop that answers through one, and the MessageQueue.  They share *)
(* no variable here, so each behaviour is one of a single part.            *)
(*                                                                         *)
(* Sending: two threads on one socket.  Messages of one and three bytes    *)
(* against a buffer of two make Append grow the array, and a retrieve size *)
(* of two makes OnWrite both compact and not compact.                      *)
(*                                                                         *)
(* Receiving: a buffer of three bytes and an extra array of two.  Reads    *)
(* fill the free space exactly, fall short of it, and spill over.          *)
(*                                                                         *)
(* Answering: the requests of MCMessageLoop.                               *)
(*                                                                         *)
(* Building: three fields of one to three bytes in a string that starts    *)
(* with a block of two, so that it moves once or twice.                    *)
(*                                                                         *)
(* The ring: four slots and counters that wrap after three rounds, so that *)
(* pushes need no bound and every phase of the wrap-around is reached.     *)
(***************************************************************************)
EXTENDS BufferedSocket, MCMessageLoop, MessageQueue

VARIABLE part

SocketInit ==
    /\ part \in {"send", "receive", "requests", "message", "ring"}
    /\ Send!Init /\ Init /\ LoopInit /\ Message!Init
    /\ RingInit /\ (part # "ring" => pval = CHOOSE v \in Element : TRUE)

Sending == part = "send" /\ UNCHANGED <<part, vars, loop_vars, message_vars, ring_vars>>
Receiving == part = "receive" /\ UNCHANGED <<part, send_vars, loop_vars, message_vars, ring_vars>>
Answering == part = "requests" /\ UNCHANGED <<part, send_vars, vars, message_vars, ring_vars>>
Building == part = "message" /\ UNCHANGED <<part, send_vars, vars, loop_vars, ring_vars>>
Ringing == part = "ring" /\ UNCHANGED <<part, send_vars, vars, loop_vars, message_vars>>

SocketNext ==
    \/ (Sending /\ Send!Next) \/ (Receiving /\ Next)
    \/ (Answering /\ LoopNext) \/ (Building /\ Message!Next) \/ (Ringing /\ RingNext)

(* The fairness of SocketSend and of MessageQueue.                         *)
SocketSpec ==
    /\ SocketInit /\ [][SocketNext]_<<part, send_vars, vars, loop_vars, message_vars, ring_vars>>
    /\ \A s \in Sender : WF_send_vars(Sending /\ Send!SendPush(s))
    /\ WF_send_vars(Sending /\ Send!OnWrite) /\ SF_send_vars(Sending /\ Send!Swap)
    /\ SF_send_vars(Sending /\ Send!WriteSome) /\ WF_send_vars(Sending /\ Send!Write(0))
    /\ WF_ring_vars(Ringing /\ PopLoad /\ c_write' = write_idx)
    /\ WF_ring_vars(Ringing /\ PopTake) /\ WF_ring_vars(Ringing /\ PopRelease)
=============================================================================
