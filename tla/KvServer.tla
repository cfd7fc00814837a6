------------------------------ MODULE KvServer ------------------------------
(***************************************************************************)
(* The kv sample's way of a request: IoTask::Decoding (kv/server.cc) cuts  *)
(* the bytes that OnRead received into messages and hands each to a loop   *)
(* of the MessageLoopPool (kv/message_loop.cc).  Bytes are counted; the    *)
(* client sends whole requests, of which any part may have arrived.  Init  *)
(* is the state after MessageLoopPool::Init, the one caller of which is    *)
(* main.                                                                   *)
(***************************************************************************)
EXTENDS Integers, Sequences

CONSTANTS
    LoopCount,    \* loops that MessageLoopPool::Init is asked for
    HeadSize,     \* sizeof(MessageHead)
    Requests,     \* what the client sends: records with length and affinity
    NoLoop        \* a null unique_ptr

VARIABLES
    loops,        \* MessageLoopPool::loops_
    arrived,      \* bytes that have arrived
    taken,        \* bytes that Decoding has consumed
    handed,       \* requests given to a loop
    at            \* the IO thread: "poll", "decoding", "crashed"

vars == <<loops, arrived, taken, handed, at>>

Init ==
    /\ loops = [i \in 0 .. LoopCount - 1 |-> NoLoop]
    /\ arrived = 0 /\ taken = 0 /\ handed = 0
    /\ at = "poll"

TotalLength[n \in 0 .. Len(Requests)] ==
    IF n = 0 THEN 0 ELSE TotalLength[n - 1] + Requests[n].length
ReadableLength == arrived - taken

(* OnRead appends what has arrived and calls Decoding.                     *)
OnRead(n) ==
    /\ at = "poll"
    /\ n > 0 /\ arrived + n <= TotalLength[Len(Requests)]
    /\ arrived' = arrived + n
    /\ at' = "decoding"
    /\ UNCHANGED <<loops, taken, handed>>

GetMessageLoop(index) == loops[index % LoopCount]

(* One round of while (true): a header is there and ...                    *)
HeadIsThere == at = "decoding" /\ ReadableLength >= HeadSize
PushMessage ==
    LET msg == Requests[handed + 1]
    IN  /\ HeadIsThere /\ ReadableLength >= msg.length
        /\ IF GetMessageLoop(msg.affinity) = NoLoop
           THEN at' = "crashed" /\ UNCHANGED <<taken, handed>>
           ELSE /\ taken' = taken + msg.length
                /\ handed' = handed + 1
                /\ UNCHANGED at
        /\ UNCHANGED <<loops, arrived>>
Break ==
    /\ HeadIsThere /\ ReadableLength < Requests[handed + 1].length
    /\ at' = "poll"
    /\ UNCHANGED <<loops, arrived, taken, handed>>

(* ... or it is not: the round does nothing and the next one is the same.  *)
Spin == at = "decoding" /\ ReadableLength < HeadSize /\ UNCHANGED vars

Next == (\E n \in 1 .. TotalLength[Len(Requests)] : OnRead(n)) \/ PushMessage \/ Break \/ Spin

(* The IO thread keeps running and the network delivers.                   *)
Spec == /\ Init /\ [][Next]_vars
        /\ WF_vars(\E n \in 1 .. TotalLength[Len(Requests)] : OnRead(n))
        /\ WF_vars(PushMessage \/ Break)
-----------------------------------------------------------------------------
=============================================================================
