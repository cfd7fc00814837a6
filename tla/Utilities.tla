----------------------------- MODULE Utilities -----------------------------
(***************************************************************************)
(* The parts of green_turtle that stand by themselves: VectorMap, the XML  *)
(* cache, the time stamps of log lines, the MySQL wrapper, the kqueue      *)
(* poller and the life of a listening descriptor.  They share no state.    *)
(***************************************************************************)
EXTENDS VectorMap

CONSTANTS
    File, MaxVersion, MaxTime, NoDoc, NoFile,
    Second, Lag, MaxClock,
    Fields, Tables, Data, MaxParams, MaxCalls, Null,
    Handler, interest, InitSize,
    Descriptor

VARIABLES
    disk, now, docs, task, visited,
    clock, set_back, t_time, header, stamp,
    unread, params, wanted, statements, calls, outcome, result_set,
    registered, knotes, capacity, revents, fired_events,
    open, fd, phase, victims, released

Xml == INSTANCE XmlDocCache
Stamp == INSTANCE LogHeader
Sql == INSTANCE MySql WITH result <- result_set
Kqueue == INSTANCE KqueuePoller
Listening == INSTANCE ListenSocket

(* NoFile is neither the name of a file nor an XmlDocInfo.                 *)
ASSUME FileAssumption == NoFile \notin File /\ NoFile \notin Xml!DocInfo
(* time(2) lags behind gettimeofday(2) by less than a second.              *)
ASSUME LagAssumption == Second \in Nat \ {0} /\ Lag \in 0 .. Second - 1
(* A field of a row has a length, an unsigned long.                        *)
ASSUME TablesAssumption ==
    /\ Fields \in Nat /\ MaxParams \in Nat
    /\ \A rows \in Tables :
          /\ Len(rows) \in Nat
          /\ \A i \in 1 .. Len(rows), j \in 1 .. Fields : rows[i][j].len \in Nat
(* events() asks for filters that there are.                               *)
ASSUME InterestAssumption == interest \in [Handler -> SUBSET Kqueue!Filters]
(* Descriptors are numbers, so that one of the free ones is the lowest.    *)
ASSUME DescriptorAssumption == Descriptor \subseteq Nat
-----------------------------------------------------------------------------
xml_vars == <<disk, now, docs, task, visited>>
stamp_vars == <<clock, set_back, t_time, header, stamp>>
sql_vars == <<unread, params, wanted, statements, calls, outcome, result_set>>
kqueue_vars == <<registered, knotes, capacity, revents, fired_events>>
listen_vars == <<open, fd, phase, victims, released>>

(* Reloading, and what parse_file rejected.                                *)
CacheFollowsFiles == Xml!CacheFollowsFiles
(* Every log line of a thread shows the clock, to within a second, and its *)
(* seconds never go back (Logger::GenerateLogHeader).                      *)
StampFollowsClock == [][Stamp!LineFollowsClock]_stamp_vars
(* Rows and parameters.                                                    *)
SqlIsTold == Sql!SqlIsTold
(* Registered handlers are watched; stale events need two filters.         *)
KnotesFollowHandlers == Kqueue!KnotesFollowHandlers
(* Whose descriptors the destructors of an acceptor close.                 *)
ForeignCloses == Listening!ForeignCloses
============================================================================
