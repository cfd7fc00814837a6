---------------------------- MODULE ListenSocket ----------------------------
(***************************************************************************)
(* The descriptor of a TcpAcceptor from socket(2) to the end of            *)
(* ~EventHandler (net/tcp_acceptor.cc, net/socket_option.cc), while other  *)
(* threads open and close descriptors.  A failing bind(2) or listen(2) in  *)
(* SocketOption::Listen, ~TcpAcceptor and ~EventHandler each close it, and *)
(* none of them forgets the number.                                        *)
(***************************************************************************)
EXTENDS Integers

CONSTANTS
    Descriptor    \* the process's limit on descriptors

VARIABLES
    open,         \* per descriptor: "free", "acceptor" or "other"
    fd,           \* the acceptor's fd_
    phase,        \* of the acceptor's life
    victims,      \* history: descriptors of others that the acceptor closed
    released      \* history: how often the acceptor has closed its number

listen_vars == <<open, fd, phase, victims, released>>

Free == {d \in Descriptor : open[d] = "free"}

Lowest == CHOOSE d \in Free : \A e \in Free : d <= e

Init ==
    /\ open = [d \in Descriptor |-> "free"] /\ fd = -1
    /\ phase = "none" /\ victims = {} /\ released = 0

(* TcpAcceptor::TcpAcceptor: socket(2) gives the lowest free descriptor.   *)
NewFD ==
    /\ phase = "none" /\ Free # {}
    /\ fd' = Lowest
    /\ open' = [open EXCEPT ![Lowest] = "acceptor"]
    /\ phase' = "made"
    /\ UNCHANGED <<victims, released>>

(* close(2), on whosever descriptor has this number now.                   *)
Closed ==
    /\ open' = [open EXCEPT ![fd] = "free"]
    /\ victims' = IF open[fd] = "other" THEN victims \cup {<<fd, released>>} ELSE victims
    /\ released' = released + 1
    /\ UNCHANGED fd

(* SocketOption::DestoryFD.                                                *)
DestoryFD == IF fd = 0 THEN UNCHANGED <<open, fd, victims, released>> ELSE Closed

(* SocketOption::Listen closes what it could not bind or listen on.        *)
Bug_Listen(ok) ==
    /\ phase = "made"
    /\ Closed
    /\ phase' = IF ok THEN "listening" ELSE "refused"
Listen(ok) ==
    /\ phase = "made"
    /\ IF ok THEN UNCHANGED <<open, fd, victims, released>> ELSE Closed
    /\ phase' = IF ok THEN "listening" ELSE "refused"

(* ~TcpAcceptor, then ~EventHandler.                                       *)
DestroyAcceptor ==
    /\ phase \in {"made", "listening", "refused"}
    /\ DestoryFD
    /\ phase' = IF phase = "refused" THEN "refused_again" ELSE "closed"
DestroyHandler ==
    /\ phase \in {"closed", "refused_again"}
    /\ DestoryFD
    /\ phase' = IF phase = "refused_again" THEN "refused_for_good" ELSE "gone"

(* Other threads.                                                          *)
Open ==
    /\ Free # {}
    /\ open' = [open EXCEPT ![Lowest] = "other"]
    /\ UNCHANGED <<fd, phase, victims, released>>
Close(d) ==
    /\ open[d] = "other"
    /\ open' = [open EXCEPT ![d] = "free"]
    /\ UNCHANGED <<fd, phase, victims, released>>

Next ==
    \/ NewFD \/ (\E ok \in BOOLEAN : Listen(ok)) \/ DestroyAcceptor \/ DestroyHandler
    \/ Open \/ \E d \in Descriptor : Close(d)

Spec == Init /\ [][Next]_listen_vars
-----------------------------------------------------------------------------
(* The first close is always of the acceptor's own descriptor.  Every      *)
(* later one may hit a descriptor that another thread was given the number *)
(* of: the second in any life, the third only in one whose Listen failed.  *)
(* DestoryFD spares descriptor 0, which a listening acceptor that was      *)
(* given it leaves open for ever.                                          *)
ForeignCloses ==
    /\ phase # "none" /\ released = 0 => open[fd] = "acceptor"
    /\ released > 0 => \A d \in Descriptor : open[d] # "acceptor"
    /\ fd = 0 => victims = {}
    /\ fd = 0 /\ phase = "gone" => open[fd] = "acceptor"
    /\ victims \subseteq {fd} \X (IF phase = "refused_for_good" THEN {1, 2} ELSE {1})
=============================================================================
