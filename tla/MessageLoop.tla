----------------------------- MODULE MessageLoop -----------------------------
(***************************************************************************)
(* The kv sample's MessageLoop (kv/message_loop.cc) over its BlockingQueue *)
(* (green_turtle/blocking_queue.h): IO threads push requests under a lock, *)
(* one thread takes all of them at once and answers them.  Nothing in the  *)
(* repository constructs a MessageLoop yet (see KvServer); this is what    *)
(* the class does once somebody does.                                      *)
(*                                                                         *)
(* A body is a sequence of 32-bit words, and strings are whole words long. *)
(***************************************************************************)
EXTENDS Integers, Sequences

CONSTANTS
    Handler,      \* the sockets that requests come from
    Command,      \* what clients send: an opcode and its strings
    MaxRequests,  \* bound: requests pushed
    NoAnswer

VARIABLES
    queue,          \* queue_, a BlockingQueue
    process_queue,  \* process_queue_
    next,           \* the position of the for loop in it
    terminal,       \* terminal_
    at,             \* the loop's thread
    pushed,         \* history: requests in the order they took the lock
    answers         \* history: what each request dispatched was answered

loop_vars == <<queue, process_queue, next, terminal, at, pushed, answers>>

LoopInit ==
    /\ queue = <<>> /\ process_queue = <<>> /\ next = 1
    /\ terminal = FALSE /\ at = "outside"
    /\ pushed = <<>> /\ answers = <<>>
-----------------------------------------------------------------------------
(* Every string is preceded by its length.                                 *)
Encoded(strings) ==
    CASE Len(strings) = 0 -> <<>>
      [] Len(strings) = 1 -> <<Len(strings[1])>> \o strings[1]
      [] OTHER -> <<Len(strings[1])>> \o strings[1] \o <<Len(strings[2])>> \o strings[2]

(* Decode<std::string> leaves ptr after str_len bytes, but begins them at  *)
(* the length: Decode<int32_t> moves its own copy of the pointer.  0 for a *)
(* string that does not lie in the message.                                *)
Decode(body, ptr) ==
    IF ptr \in 1 .. Len(body) /\ body[ptr] \in 0 .. Len(body) - ptr + 1
    THEN ptr + body[ptr] ELSE 0

OneString == {"GET", "DEL", "INC", "DEC"}
TwoStrings == {"SET", "APPEND"}
NoString == {"VERSION", "NOOP", "FLUSH"}
StringAnswer == {"VERSION", "GET", "INC", "DEC"}

Decodes(msg) ==
    /\ msg.opcode \in OneString \cup TwoStrings => Decode(msg.body, 1) # 0
    /\ msg.opcode \in TwoStrings => Decode(msg.body, Decode(msg.body, 1)) # 0

(* SendMessage with the request's opcode and seq; others are only logged.  *)
Answer(msg) ==
    IF msg.opcode \in OneString \cup TwoStrings \cup NoString
    THEN [to |-> msg.handler, opcode |-> msg.opcode, seq |-> msg.seq]
    ELSE NoAnswer
-----------------------------------------------------------------------------
(* Push: clients number their requests, here by their place in pushed.     *)
PushMessage(h, c) ==
    LET msg == [handler |-> h, opcode |-> c.opcode, seq |-> Len(pushed) + 1,
                body |-> Encoded(c.strings)]
    IN  /\ Len(pushed) < MaxRequests /\ at # "crashed"
        /\ queue' = Append(queue, msg)
        /\ pushed' = Append(pushed, msg)
        /\ UNCHANGED <<process_queue, next, terminal, at, answers>>

SetTerminal ==
    /\ ~terminal /\ at # "crashed"
    /\ terminal' = TRUE
    /\ UNCHANGED <<queue, process_queue, next, at, pushed, answers>>

(* Loop: while (terminal_), which starts out false.                        *)
Loop ==
    /\ at \in {"outside", "test"}
    /\ at' = IF terminal THEN "pop" ELSE "ended"
    /\ UNCHANGED <<queue, process_queue, next, terminal, pushed, answers>>

(* Pop of all: swap under the lock, then queue_.clear().                   *)
Bug_PopKeeps ==
    /\ at = "pop"
    /\ process_queue' = queue
    /\ at' = "dispatch"
    /\ UNCHANGED <<queue, next, terminal, pushed, answers>>
PopAll ==
    /\ at = "pop"
    /\ IF queue # <<>> THEN process_queue' = queue /\ queue' = <<>>
                       ELSE UNCHANGED <<process_queue, queue>>
    /\ at' = "dispatch"
    /\ UNCHANGED <<next, terminal, pushed, answers>>

(* __Append passes its arguments on as lvalues, for which Append(const T&) *)
(* is chosen: it assigns a std::string to bytes where none was constructed *)
(* (undefined: the loop crashes, or the object's bytes are sent).          *)
DispatchMessage ==
    LET msg == process_queue[next]
    IN  /\ at = "dispatch" /\ next <= Len(process_queue)
        /\ \/ /\ Decodes(msg)
              /\ answers' = Append(answers, Answer(msg))
              /\ next' = next + 1
              /\ UNCHANGED at
           \/ /\ ~Decodes(msg) \/ msg.opcode \in StringAnswer
              /\ at' = "crashed"
              /\ UNCHANGED <<answers, next>>
        /\ UNCHANGED <<queue, process_queue, terminal, pushed>>

EndOfRound ==
    /\ at = "dispatch" /\ next > Len(process_queue)
    /\ process_queue' = <<>> /\ next' = 1
    /\ at' = "test"
    /\ UNCHANGED <<queue, terminal, pushed, answers>>

(* The thread that runs Loop; it polls, and is never blocked for long.     *)
LoopStep == Loop \/ PopAll \/ DispatchMessage \/ EndOfRound

LoopNext ==
    \/ \E h \in Handler, c \in Command : PushMessage(h, c)
    \/ SetTerminal
    \/ LoopStep

LoopSpec == LoopInit /\ [][LoopNext]_loop_vars
FairLoopSpec == LoopSpec /\ WF_loop_vars(LoopStep)
-----------------------------------------------------------------------------
Waiting == Len(process_queue) - next + 1

(* The i-th request to take the lock gets the i-th answer, with its own    *)
(* seq and on its own socket, and one still unanswered is in exactly one   *)
(* of the two queues, however pushes fall between the swaps.               *)
AnsweredInOrder ==
    /\ Len(answers) + Waiting + Len(queue) = Len(pushed)
    /\ \A i \in 1 .. Len(answers) : answers[i] = Answer(pushed[i])

=============================================================================
