---------------------------- MODULE LoggerProofs ----------------------------
(***************************************************************************)
(* What keeps the unlocked writers of a Logger alive and their entries     *)
(* safe, for any number of threads, files, entries and rotations.          *)
(*                                                                         *)
(* The properties about pointers need that the lock is held exactly from   *)
(* "move" to "install", that file_ is null exactly at "install", that      *)
(* file_, backup_file_ and the LogFiles being installed are different and  *)
(* alive, and that a writer's pointer is file_ before a rotation and one   *)
(* of the two after it.  Those about entries, in the second half, need to  *)
(* know where each entry is and which buffers will still be flushed.       *)
(***************************************************************************)
EXTENDS Logger, TLAPS

Entry == Thread \X Nat
LogFile == [name : Name, open : BOOLEAN, alive : BOOLEAN, buf : Seq(Entry)]

LoggerTypeOK ==
    /\ files \in Seq(LogFile)
    /\ pc \in [Thread -> Labels]
    /\ ptr \in [Thread -> Nat] /\ created \in [Thread -> Nat]
    /\ entry \in [Thread -> Entry]
    /\ fatal \in [Thread -> {"no", "LogFatal", "VFatal"}]
    /\ moves \in [Thread -> {0, 1, 2}]
    /\ calls \in Nat
    /\ file \in 0 .. Len(files) /\ backup_file \in 0 .. Len(files)

Rotating == {"move", "install"}
Mutex ==
    /\ lock \in Thread \cup {NoThread}
    /\ \A t \in Thread : pc[t] \in Rotating <=> lock = t
    /\ file = NoFile <=> \E t \in Thread : pc[t] = "install"

Owned ==
    /\ file # NoFile => files[file].alive /\ files[file].name = file_name
    /\ backup_file # NoFile => files[backup_file].alive /\ backup_file # file
    /\ \A t \in Thread : pc[t] \in {"lock", "move", "install"} =>
          /\ created[t] \in 1 .. Len(files) /\ files[created[t]].alive
          /\ created[t] # file /\ created[t] # backup_file
          /\ \A u \in Thread : pc[u] \in {"lock", "move", "install"} /\ u # t =>
                created[u] # created[t]

Pointers ==
    \A t \in Thread : pc[t] \in {"write", "fflush"} =>
        /\ ptr[t] \in 1 .. Len(files)
        /\ moves[t] = 0 => ptr[t] = file
        /\ moves[t] = 1 => ptr[t] = file \/ ptr[t] = backup_file

Held == LoggerTypeOK /\ Mutex /\ Owned /\ Pointers

LoggerInv ==
    /\ status # "destroyed" => Held
    /\ status = "destroyed" => \A t \in Thread : pc[t] = "idle"
    /\ status = "segv" => lock # NoThread
-----------------------------------------------------------------------------
(* The same LogFiles, with the same names, alive or not as before.         *)
Lives(s, g) ==
    /\ g \in Seq(LogFile) /\ Len(g) = Len(s)
    /\ \A i \in 1 .. Len(s) : g[i].alive = s[i].alive /\ g[i].name = s[i].name

(* What Write and Flush do to a buffer leaves lifetimes and names alone.   *)
LEMMA BufferChange ==
    ASSUME NEW s \in Seq(LogFile), NEW f \in 1 .. Len(s), NEW b \in Seq(Entry)
    PROVE  Lives(s, [s EXCEPT ![f].buf = b])
<1> DEFINE g == [s EXCEPT ![f].buf = b]
<1>1. s[f] \in LogFile
    OBVIOUS
<1>2. /\ [s[f] EXCEPT !.buf = b] \in LogFile
      /\ [s[f] EXCEPT !.buf = b].alive = s[f].alive
      /\ [s[f] EXCEPT !.buf = b].name = s[f].name
    BY Zenon, <1>1 DEF LogFile
<1>3. g \in Seq(LogFile) /\ Len(g) = Len(s)
    BY <1>2
<1>4. \A i \in 1 .. Len(s) : g[i].alive = s[i].alive /\ g[i].name = s[i].name
    BY <1>2
<1> QED
    BY Zenon, <1>3, <1>4 DEF Lives

(* Ownership stays while lifetimes do and no thread begins a rotation.     *)
LEMMA OwnedStays ==
    ASSUME Held, Lives(files, files'), created' = created, file' = file,
           backup_file' = backup_file, file_name' = file_name,
           \A u \in Thread : pc'[u] \in {"lock", "move", "install"} =>
               pc[u] \in {"lock", "move", "install"}
    PROVE  Owned'
<1>1. /\ file # NoFile => file \in 1 .. Len(files)
      /\ backup_file # NoFile => backup_file \in 1 .. Len(files)
    BY DEF Held, LoggerTypeOK, NoFile
<1>2. /\ Len(files') = Len(files)
      /\ \A i \in 1 .. Len(files) :
            files'[i].alive = files[i].alive /\ files'[i].name = files[i].name
    BY Zenon DEF Lives
<1>3. /\ file' # NoFile => files'[file'].alive /\ files'[file'].name = file_name'
      /\ backup_file' # NoFile => files'[backup_file'].alive /\ backup_file' # file'
    BY Zenon, <1>1, <1>2 DEF Held, Owned
<1>4. ASSUME NEW u \in Thread, pc'[u] \in {"lock", "move", "install"}
      PROVE  /\ created'[u] \in 1 .. Len(files') /\ files'[created'[u]].alive
             /\ created'[u] # file' /\ created'[u] # backup_file'
             /\ \A v \in Thread : pc'[v] \in {"lock", "move", "install"} /\ v # u =>
                   created'[v] # created'[u]
    BY Zenon, <1>2, <1>4 DEF Held, Owned
<1> QED
    BY Zenon, <1>3, <1>4 DEF Owned

(* A thread outside ChangeLoggerFile goes on without loading file_.        *)
LEMMA GoingOn ==
    ASSUME Held, NEW t \in Thread, pc[t] \notin {"lock", "move", "install"},
           NEW l \in {"idle", "load", "flush", "reload", "aborted"}, Goto(t, l),
           UNCHANGED <<ptr, created, file, backup_file, file_name, lock>>,
           moves' = moves \/ moves' = [moves EXCEPT ![t] = 0],
           Lives(files, files')
    PROVE  /\ Mutex' /\ Owned' /\ Pointers'
           /\ pc' \in [Thread -> Labels] /\ moves' \in [Thread -> {0, 1, 2}]
<1> USE DEF Held
<1>1. /\ pc' = [pc EXCEPT ![t] = l] /\ pc \in [Thread -> Labels]
      /\ moves \in [Thread -> {0, 1, 2}]
    BY Zenon DEF Goto, LoggerTypeOK
<1>2. /\ pc'[t] = l /\ \A u \in Thread : u # t => pc'[u] = pc[u] /\ moves'[u] = moves[u]
      /\ pc' \in [Thread -> Labels] /\ moves' \in [Thread -> {0, 1, 2}]
    BY Zenon, <1>1 DEF Labels
<1>3. Mutex'
    BY Zenon, <1>2 DEF Mutex, Rotating
<1>4. Owned'
    BY Zenon, <1>2, OwnedStays
<1>5. Pointers'
    BY Zenon, <1>2 DEF Pointers, Lives
<1> QED
    BY Zenon, <1>2, <1>3, <1>4, <1>5

(* A thread loads file_ and goes on to use it.                             *)
LEMMA Loading ==
    ASSUME Held, NEW t \in Thread, pc[t] \notin {"lock", "move", "install"},
           NEW l \in {"write", "fflush"}, Goto(t, l), file # NoFile,
           ptr' = [ptr EXCEPT ![t] = file],
           moves' = moves \/ moves' = [moves EXCEPT ![t] = 0],
           UNCHANGED <<entry, fatal, created, file, backup_file, file_name, lock, files, calls>>
    PROVE  Held'
<1> USE DEF Held
<1>1. /\ pc' = [pc EXCEPT ![t] = l] /\ pc \in [Thread -> Labels]
      /\ moves \in [Thread -> {0, 1, 2}] /\ ptr \in [Thread -> Nat]
      /\ file \in 1 .. Len(files) /\ file \in Nat
    BY DEF Goto, LoggerTypeOK, NoFile
<1>2. /\ pc'[t] = l /\ ptr'[t] = file
      /\ \A u \in Thread : u # t => pc'[u] = pc[u] /\ moves'[u] = moves[u] /\ ptr'[u] = ptr[u]
    BY Zenon, <1>1
<1>3. LoggerTypeOK'
    BY Zenon, <1>1 DEF LoggerTypeOK, Labels
<1>4. Mutex'
    BY Zenon, <1>2 DEF Mutex, Rotating
<1>5. Owned'
    BY Zenon, <1>2 DEF Owned
<1>6. Pointers'
    BY <1>1, <1>2 DEF Pointers
<1> QED
    BY Zenon, <1>3, <1>4, <1>5, <1>6

(* A Flush of a LogFile that exists.                                       *)
LEMMA FlushLives ==
    ASSUME LoggerTypeOK, NEW f \in 1 .. Len(files)
    PROVE  Lives(files, Emptied(f))
<1>1. <<>> \in Seq(Entry)
    OBVIOUS
<1> QED
    BY Zenon, <1>1, BufferChange DEF LoggerTypeOK, Emptied

(* Log and Flush: a call begins.                                           *)
LEMMA BeginsHeld ==
    ASSUME Held, NEW t \in Thread,
           Flush(t) \/ \E how \in {"no", "LogFatal", "VFatal"} : Log(t, how)
    PROVE  Held'
<1>1. Lives(files, files)
    BY Zenon DEF Lives, Held, LoggerTypeOK
<1>2. CASE Flush(t)
    <2>1. /\ Mutex' /\ Owned' /\ Pointers'
          /\ pc' \in [Thread -> Labels] /\ moves' \in [Thread -> {0, 1, 2}]
        BY Zenon, <1>1, <1>2, GoingOn DEF Flush, At, logger, outside
    <2>2. LoggerTypeOK'
        BY Zenon, <1>2, <2>1 DEF Held, LoggerTypeOK, Flush, logger, outside
    <2> QED
        BY Zenon, <2>1, <2>2 DEF Held
<1>3. CASE \E how \in {"no", "LogFatal", "VFatal"} : Log(t, how)
    <2>1. PICK how \in {"no", "LogFatal", "VFatal"} : Log(t, how)
        BY Zenon, <1>3
    <2>2. /\ Mutex' /\ Owned' /\ Pointers'
          /\ pc' \in [Thread -> Labels] /\ moves' \in [Thread -> {0, 1, 2}]
        BY Zenon, <1>1, <2>1, GoingOn DEF Log, At, logger, history
    <2>3. <<t, calls + 1>> \in Entry /\ calls + 1 \in Nat
        BY DEF Held, LoggerTypeOK, Entry
    <2>4. LoggerTypeOK'
        BY Zenon, <2>1, <2>2, <2>3 DEF Held, LoggerTypeOK, Log, logger, history
    <2> QED
        BY Zenon, <2>2, <2>4 DEF Held
<1> QED
    BY Zenon, <1>2, <1>3

(* LoadFile and ReloadFile, which find file_ null only while the lock is   *)
(* held.                                                                   *)
LEMMA LoadsHeld ==
    ASSUME Held, NEW t \in Thread, status = "running", LoadFile(t) \/ ReloadFile(t)
    PROVE  /\ Held' /\ status' # "destroyed"
           /\ status' = "segv" => lock' # NoThread
<1>1. CASE file = NoFile
    <2>1. status' = "segv" /\ UNCHANGED <<locals, logger, files, disk, calls, history>>
        BY Zenon, <1>1 DEF LoadFile, ReloadFile, Dies
    <2>2. lock # NoThread
        BY Zenon, <1>1, ThreadAssumption DEF Held, Mutex, Rotating
    <2>3. UNCHANGED <<pc, ptr, entry, fatal, created, file, backup_file, file_name, lock,
                      files, calls, moves>>
        BY Zenon, <2>1 DEF locals, logger, history
    <2>4. Held'
        BY Zenon, <2>3 DEF Held, LoggerTypeOK, Mutex, Owned, Pointers
    <2> QED
        BY Zenon, <2>1, <2>2, <2>3, <2>4
<1>2. CASE file # NoFile
    <2>1. /\ pc[t] \notin {"lock", "move", "install"}
          /\ \E l \in {"write", "fflush"} : Goto(t, l)
          /\ ptr' = [ptr EXCEPT ![t] = file]
          /\ moves' = moves \/ moves' = [moves EXCEPT ![t] = 0]
          /\ UNCHANGED <<entry, fatal, created, file, backup_file, file_name, lock, files,
                         calls, status>>
        BY Zenon, <1>2 DEF LoadFile, ReloadFile, At, logger, outside, history
    <2>2. Held'
        BY Zenon, <1>2, <2>1, Loading
    <2> QED
        BY Zenon, <2>1, <2>2
<1> QED
    BY Zenon, <1>1, <1>2

(* LogMessage's write, and what the entry's kind makes of its return.      *)
LEMMA WriteHeld ==
    ASSUME Held, NEW t \in Thread, status = "running", WriteEntry(t)
    PROVE  Held' /\ status' \notin {"destroyed", "segv"}
<1> DEFINE p == ptr[t]
<1>1. p \in 1 .. Len(files) /\ pc[t] = "write" /\ files \in Seq(LogFile) /\ entry[t] \in Entry
    BY Zenon DEF WriteEntry, At, Held, Pointers, LoggerTypeOK
<1>2. CASE ~files[p].alive \/ ~files[p].open
    <2>1. /\ status' \in {"undefined", "assert"}
          /\ UNCHANGED <<pc, ptr, entry, fatal, created, file, backup_file, file_name, lock,
                         files, calls, moves>>
        BY Zenon, <1>2 DEF WriteEntry, Dies, locals, logger, history
    <2> QED
        BY Zenon, <2>1 DEF Held, LoggerTypeOK, Mutex, Owned, Pointers
<1>3. CASE files[p].alive /\ files[p].open
    <2>1. /\ Write(p, entry[t]) /\ Written(t)
          /\ UNCHANGED <<ptr, entry, fatal, created, logger, calls, moves>>
        BY Zenon, <1>3 DEF WriteEntry
    <2>2. files[p].buf \in Seq(Entry)
        <3>1. files[p] \in LogFile
            BY <1>1
        <3> QED
            BY Zenon, <3>1 DEF LogFile
    <2>3. Lives(files, files')
        <3>1. <<entry[t]>> \in Seq(Entry) /\ Append(files[p].buf, entry[t]) \in Seq(Entry)
            BY <1>1, <2>2
        <3>2. \/ files' = [files EXCEPT ![p].buf = <<entry[t]>>]
              \/ files' = [files EXCEPT ![p].buf = Append(files[p].buf, entry[t])]
            BY Zenon, <2>1 DEF Write
        <3>3. ASSUME NEW b \in Seq(Entry) PROVE Lives(files, [files EXCEPT ![p].buf = b])
            BY Zenon, <1>1, BufferChange
        <3> QED
            BY Zenon, <3>1, <3>2, <3>3
    <2>4. /\ \E l \in {"idle", "flush", "aborted"} : Goto(t, l)
          /\ status' \in {"running", "abort"}
        BY Zenon, <2>1 DEF Written, Held, LoggerTypeOK
    <2>5. /\ Mutex' /\ Owned' /\ Pointers'
          /\ pc' \in [Thread -> Labels] /\ moves' \in [Thread -> {0, 1, 2}]
        BY Zenon, <1>1, <2>1, <2>3, <2>4, GoingOn DEF logger
    <2>6. LoggerTypeOK'
        BY Zenon, <2>1, <2>3, <2>5 DEF Held, LoggerTypeOK, Lives, logger
    <2> QED
        BY Zenon, <2>4, <2>5, <2>6 DEF Held
<1> QED
    BY Zenon, <1>2, <1>3

(* TestFile and FlushFile.                                                 *)
LEMMA FlushesHeld ==
    ASSUME Held, NEW t \in Thread, status = "running", TestFile(t) \/ FlushFile(t)
    PROVE  Held' /\ status' \notin {"destroyed", "segv"}
<1>1. CASE FlushFile(t) /\ ~files[ptr[t]].alive
    <2>1. /\ status' = "undefined"
          /\ UNCHANGED <<pc, ptr, entry, fatal, created, file, backup_file, file_name, lock,
                         files, calls, moves>>
        BY Zenon, <1>1 DEF FlushFile, Dies, locals, logger, history
    <2> QED
        BY Zenon, <2>1 DEF Held, LoggerTypeOK, Mutex, Owned, Pointers
<1>2. CASE TestFile(t) \/ (FlushFile(t) /\ files[ptr[t]].alive)
    <2>1. /\ pc[t] \in {"flush", "fflush"}
          /\ \E l \in {"idle", "reload", "aborted"} : Goto(t, l)
          /\ status' \in {"running", "abort"}
          /\ UNCHANGED <<ptr, entry, fatal, created, logger, calls, moves>>
        BY Zenon, <1>2 DEF TestFile, FlushFile, FlushReturns, At, history
    <2>2. Lives(files, files')
        <3>1. CASE TestFile(t)
            BY Zenon, <3>1 DEF TestFile, Lives, Held, LoggerTypeOK
        <3>2. CASE FlushFile(t) /\ files[ptr[t]].alive
            <4>1. ptr[t] \in 1 .. Len(files) /\ LoggerTypeOK /\ files' = Emptied(ptr[t])
                BY Zenon, <3>2 DEF FlushFile, At, Held, Pointers
            <4> QED
                BY Zenon, <4>1, FlushLives
        <3> QED
            BY Zenon, <1>2, <3>1, <3>2
    <2>3. /\ Mutex' /\ Owned' /\ Pointers'
          /\ pc' \in [Thread -> Labels] /\ moves' \in [Thread -> {0, 1, 2}]
        BY Zenon, <2>1, <2>2, GoingOn DEF logger
    <2>4. LoggerTypeOK'
        BY Zenon, <2>1, <2>2, <2>3 DEF Held, LoggerTypeOK, Lives, logger
    <2> QED
        BY Zenon, <2>1, <2>3, <2>4 DEF Held
<1> QED
    BY Zenon, <1>1, <1>2 DEF TestFile, FlushFile

(* ChangeLoggerFile opens a LogFile that nobody else knows.                *)
LEMMA ChangeHeld ==
    ASSUME Held, NEW t \in Thread, NEW name \in Name, NEW open \in BOOLEAN,
           ChangeLoggerFile(t, name, open)
    PROVE  Held'
<1> DEFINE n == Len(files) + 1
<1>1. /\ pc[t] = "idle" /\ files' = Append(files, NewLogFile(name, open))
      /\ created' = [created EXCEPT ![t] = n] /\ pc' = [pc EXCEPT ![t] = "lock"]
      /\ UNCHANGED <<ptr, entry, fatal, file, backup_file, file_name, lock, calls, moves>>
    BY Zenon DEF ChangeLoggerFile, At, Goto, logger, history
<1>2. NewLogFile(name, open) \in LogFile /\ NewLogFile(name, open).alive
    <2>1. <<>> \in Seq(Entry)
        OBVIOUS
    <2> QED
        BY Zenon, <2>1 DEF NewLogFile, LogFile
<1>3. /\ files \in Seq(LogFile) /\ Len(files) \in Nat /\ n \in Nat
      /\ created \in [Thread -> Nat] /\ pc \in [Thread -> Labels]
      /\ file \in 0 .. Len(files) /\ backup_file \in 0 .. Len(files)
    BY DEF Held, LoggerTypeOK
<1>4. /\ files' \in Seq(LogFile) /\ Len(files') = n /\ files'[n].alive
      /\ \A i \in 1 .. Len(files) : files'[i] = files[i]
    BY <1>1, <1>2, <1>3
<1>5. /\ pc'[t] = "lock" /\ created'[t] = n
      /\ \A u \in Thread : u # t => pc'[u] = pc[u] /\ created'[u] = created[u]
    BY Zenon, <1>1, <1>3
<1>6. LoggerTypeOK'
    BY <1>1, <1>3, <1>4 DEF Held, LoggerTypeOK, Labels
<1>7. Mutex'
    BY Zenon, <1>1, <1>5 DEF Held, Mutex, Rotating
<1>8. Owned'
    <2> DEFINE changing == {"lock", "move", "install"}
    <2>1. file # NoFile => files'[file].alive /\ files'[file].name = file_name
        BY <1>3, <1>4 DEF Held, Owned, NoFile
    <2>2. backup_file # NoFile => files'[backup_file].alive /\ backup_file # file
        BY <1>3, <1>4 DEF Held, Owned, NoFile
    <2>3. ASSUME NEW u \in Thread, pc'[u] \in changing
          PROVE  /\ created'[u] \in 1 .. n /\ files'[created'[u]].alive
                 /\ created'[u] # file /\ created'[u] # backup_file
                 /\ u # t => created'[u] \in 1 .. Len(files)
        <3>1. CASE u = t
            BY <1>3, <1>4, <1>5, <3>1
        <3>2. CASE u # t
            <4>1. /\ created[u] \in 1 .. Len(files) /\ files[created[u]].alive
                  /\ created[u] # file /\ created[u] # backup_file
                BY Zenon, <1>5, <2>3, <3>2 DEF Held, Owned
            <4> QED
                BY <1>3, <1>4, <1>5, <3>2, <4>1
        <3> QED
            BY Zenon, <3>1, <3>2
    <2>4. ASSUME NEW u \in Thread, NEW v \in Thread, u # v,
                 pc'[u] \in changing, pc'[v] \in changing
          PROVE  created'[v] # created'[u]
        <3>1. CASE u = t
            BY <1>3, <1>5, <2>3, <2>4, <3>1
        <3>2. CASE v = t
            BY <1>3, <1>5, <2>3, <2>4, <3>2
        <3>3. CASE u # t /\ v # t
            BY Zenon, <1>5, <2>4, <3>3 DEF Held, Owned
        <3> QED
            BY Zenon, <3>1, <3>2, <3>3
    <2> QED
        BY Zenon, <1>1, <1>4, <2>1, <2>2, <2>3, <2>4 DEF Owned
<1>9. Pointers'
    BY <1>1, <1>3, <1>4, <1>5 DEF Held, Pointers
<1> QED
    BY Zenon, <1>6, <1>7, <1>8, <1>9 DEF Held

(* The lock is taken by one thread, and file_, not null, is flushed.       *)
LEMMA LockHeld ==
    ASSUME Held, NEW t \in Thread, LockAndFlush(t)
    PROVE  Held'
<1>1. /\ pc[t] = "lock" /\ lock = NoThread /\ lock' = t /\ files' = Emptied(file)
      /\ pc' = [pc EXCEPT ![t] = "move"] /\ pc \in [Thread -> Labels]
      /\ UNCHANGED <<ptr, entry, fatal, created, file, backup_file, file_name, calls, moves>>
    BY Zenon DEF LockAndFlush, At, Goto, Held, LoggerTypeOK, history
<1>2. \A u \in Thread : pc[u] \notin Rotating
    BY Zenon, <1>1, ThreadAssumption DEF Held, Mutex
<1>3. file # NoFile
    BY Zenon, <1>2 DEF Held, Mutex, Rotating
<1>4. Lives(files, files')
    <2>1. file \in 1 .. Len(files) /\ LoggerTypeOK
        BY <1>3 DEF Held, LoggerTypeOK, NoFile
    <2> QED
        BY Zenon, <1>1, <2>1, FlushLives
<1>5. pc'[t] = "move" /\ \A u \in Thread : u # t => pc'[u] = pc[u]
    BY Zenon, <1>1
<1>6. LoggerTypeOK'
    BY Zenon, <1>1, <1>4 DEF Held, LoggerTypeOK, Lives, Labels
<1>7. Mutex'
    BY Zenon, <1>1, <1>2, <1>3, <1>5 DEF Held, Mutex, Rotating
<1>8. Owned'
    BY Zenon, <1>1, <1>4, <1>5, OwnedStays
<1>9. Pointers'
    BY Zenon, <1>1, <1>4, <1>5 DEF Held, Pointers, Lives
<1> QED
    BY Zenon, <1>6, <1>7, <1>8, <1>9 DEF Held

(* ~LogFile ends one LogFile and leaves the others alone.                  *)
LEMMA ClosedOne ==
    ASSUME NEW f, NEW d, LoggerTypeOK, f \in 0 .. Len(files), NEW c \in Closed(f, d)
    PROVE  /\ c[1] \in Seq(LogFile) /\ Len(c[1]) = Len(files)
           /\ \A i \in 1 .. Len(files) : i # f =>
                 c[1][i].alive = files[i].alive /\ c[1][i].name = files[i].name
<1>1. CASE f = NoFile
    BY <1>1 DEF Closed, LoggerTypeOK
<1>2. CASE f # NoFile
    <2> DEFINE r == [files[f] EXCEPT !.buf = <<>>]
               q == [r EXCEPT !.alive = FALSE]
    <2>1. f \in 1 .. Len(files) /\ files \in Seq(LogFile) /\ files[f] \in LogFile
        BY <1>2 DEF NoFile, LoggerTypeOK
    <2>2. <<>> \in Seq(Entry)
        OBVIOUS
    <2>3. r \in LogFile
        BY Zenon, <2>1, <2>2 DEF LogFile
    <2>4. q \in LogFile
        BY Zenon, <2>3 DEF LogFile
    <2>5. c[1] = [files EXCEPT ![f].buf = <<>>, ![f].alive = FALSE]
        BY Zenon, <1>2 DEF Closed
    <2>6. c[1] = [files EXCEPT ![f] = q]
        BY Zenon, <2>1, <2>5
    <2> HIDE DEF q
    <2> QED
        BY <2>1, <2>4, <2>6
<1> QED
    BY Zenon, <1>1, <1>2

(* file_ becomes backup_file_, and a rotation is counted for every call.   *)
LEMMA MoveHeld ==
    ASSUME Held, NEW t \in Thread, MoveToBackup(t)
    PROVE  Held'
<1>1. /\ pc[t] = "move" /\ backup_file' = file /\ file' = NoFile
      /\ pc' = [pc EXCEPT ![t] = "install"] /\ pc \in [Thread -> Labels]
      /\ moves' = [u \in Thread |-> IF moves[u] = 2 THEN 2 ELSE moves[u] + 1]
      /\ UNCHANGED <<ptr, entry, fatal, created, file_name, lock, calls>>
    BY Zenon DEF MoveToBackup, At, Goto, Held, LoggerTypeOK
<1>2. /\ files' \in Seq(LogFile) /\ Len(files') = Len(files)
      /\ \A i \in 1 .. Len(files) : i # backup_file =>
            files'[i].alive = files[i].alive /\ files'[i].name = files[i].name
    <2>1. PICK c \in Closed(backup_file, disk) : files' = c[1]
        BY Zenon DEF MoveToBackup
    <2>2. LoggerTypeOK /\ backup_file \in 0 .. Len(files)
        BY Zenon DEF Held, LoggerTypeOK
    <2> QED
        BY <2>1, <2>2, ClosedOne
<1>3. /\ pc'[t] = "install" /\ \A u \in Thread : u # t => pc'[u] = pc[u]
      /\ lock = t /\ \A u \in Thread : u # t => pc[u] \notin Rotating
    BY Zenon, <1>1 DEF Held, Mutex, Rotating
<1>4. file # NoFile /\ file \in 1 .. Len(files) /\ Len(files) \in Nat
    BY <1>1, <1>3 DEF Held, Mutex, Rotating, LoggerTypeOK, NoFile
<1>5. /\ moves \in [Thread -> {0, 1, 2}] /\ moves' \in [Thread -> {1, 2}]
      /\ \A u \in Thread : moves'[u] = 1 => moves[u] = 0
    <2>1. moves \in [Thread -> {0, 1, 2}]
        BY Zenon DEF Held, LoggerTypeOK
    <2>2. ASSUME NEW u \in Thread
          PROVE  moves'[u] \in {1, 2} /\ (moves'[u] = 1 => moves[u] = 0)
        <3>1. moves'[u] = IF moves[u] = 2 THEN 2 ELSE moves[u] + 1
            BY Zenon, <1>1
        <3>2. moves[u] = 0 \/ moves[u] = 1 \/ moves[u] = 2
            BY Zenon, <2>1
        <3> QED
            BY <3>1, <3>2
    <2> QED
        BY Zenon, <1>1, <2>1, <2>2
<1>6. LoggerTypeOK'
    BY <1>1, <1>2, <1>4, <1>5 DEF Held, LoggerTypeOK, Labels, NoFile
<1>7. Mutex'
    BY Zenon, <1>1, <1>3 DEF Held, Mutex, Rotating
<1>8. Owned'
    <2>1. files'[file].alive
        BY Zenon, <1>2, <1>4 DEF Held, Owned
    <2>2. ASSUME NEW u \in Thread, pc'[u] \in {"lock", "move", "install"}
          PROVE  /\ created[u] \in 1 .. Len(files) /\ files'[created[u]].alive
                 /\ created[u] # NoFile /\ created[u] # file
                 /\ pc[u] \in {"lock", "move", "install"}
        BY <1>1, <1>2, <1>3, <2>2 DEF Held, Owned, NoFile
    <2> QED
        BY Zenon, <1>1, <1>2, <1>4, <2>1, <2>2 DEF Held, Owned
<1>9. Pointers'
    <2> SUFFICES ASSUME NEW u \in Thread, pc'[u] \in {"write", "fflush"}
                 PROVE  /\ ptr[u] \in 1 .. Len(files')
                        /\ moves'[u] = 0 => ptr[u] = file'
                        /\ moves'[u] = 1 => ptr[u] = file' \/ ptr[u] = backup_file'
        BY Zenon, <1>1 DEF Pointers
    <2>1. ptr[u] \in 1 .. Len(files) /\ (moves[u] = 0 => ptr[u] = file)
        BY Zenon, <1>3 DEF Held, Pointers
    <2> QED
        BY <1>1, <1>2, <1>5, <2>1
<1> QED
    BY Zenon, <1>6, <1>7, <1>8, <1>9 DEF Held

(* file_ is the LogFile that the thread holding the lock has opened.       *)
LEMMA InstallHeld ==
    ASSUME Held, NEW t \in Thread, Install(t)
    PROVE  Held'
<1>1. /\ pc[t] = "install" /\ file' = created[t] /\ lock' = NoThread
      /\ file_name' = files[created[t]].name
      /\ created' = [created EXCEPT ![t] = NoFile] /\ created \in [Thread -> Nat]
      /\ pc' = [pc EXCEPT ![t] = "idle"] /\ pc \in [Thread -> Labels]
      /\ UNCHANGED <<ptr, entry, fatal, backup_file, files, calls, moves>>
    BY Zenon DEF Install, At, Goto, Held, LoggerTypeOK, outside
<1>2. /\ pc'[t] = "idle"
      /\ \A u \in Thread : u # t => pc'[u] = pc[u] /\ created'[u] = created[u]
    BY Zenon, <1>1
<1>3. file = NoFile /\ \A u \in Thread : u # t => pc[u] \notin Rotating
    BY Zenon, <1>1 DEF Held, Mutex, Rotating
<1>4. /\ created[t] \in 1 .. Len(files) /\ files[created[t]].alive
      /\ created[t] # backup_file /\ created[t] # NoFile
    BY <1>1 DEF Held, Owned, NoFile
<1>5. LoggerTypeOK'
    BY <1>1, <1>4 DEF Held, LoggerTypeOK, Labels, NoFile
<1>6. Mutex'
    BY Zenon, <1>1, <1>2, <1>3, <1>4, ThreadAssumption DEF Mutex, Rotating
<1>7. Owned'
    <2>1. ASSUME NEW u \in Thread, pc'[u] \in {"lock", "move", "install"}
          PROVE  /\ u # t /\ created'[u] = created[u]
                 /\ pc[u] \in {"lock", "move", "install"}
                 /\ created[u] \in 1 .. Len(files) /\ files[created[u]].alive
                 /\ created[u] # created[t] /\ created[u] # backup_file
        BY Zenon, <1>1, <1>2, <2>1 DEF Held, Owned
    <2>2. ASSUME NEW u \in Thread, NEW v \in Thread, v # u,
                 pc'[u] \in {"lock", "move", "install"}, pc'[v] \in {"lock", "move", "install"}
          PROVE  created'[v] # created'[u]
        BY Zenon, <2>1, <2>2 DEF Held, Owned
    <2>3. backup_file # NoFile => files[backup_file].alive
        BY Zenon DEF Held, Owned
    <2> QED
        BY Zenon, <1>1, <1>4, <2>1, <2>2, <2>3 DEF Owned
<1>8. Pointers'
    <2> SUFFICES ASSUME NEW u \in Thread, pc'[u] \in {"write", "fflush"}
                 PROVE  /\ ptr[u] \in 1 .. Len(files)
                        /\ moves[u] # 0
                        /\ moves[u] = 1 => ptr[u] = backup_file
        BY Zenon, <1>1 DEF Pointers
    <2>1. /\ ptr[u] \in 1 .. Len(files)
          /\ moves[u] = 0 => ptr[u] = file
          /\ moves[u] = 1 => ptr[u] = file \/ ptr[u] = backup_file
        BY Zenon, <1>2 DEF Held, Pointers
    <2> QED
        BY <1>3, <2>1 DEF NoFile
<1> QED
    BY Zenon, <1>5, <1>6, <1>7, <1>8 DEF Held

(* A Logger begins with one LogFile and no thread in it.                   *)
LEMMA LoggerInit == Init => LoggerInv
<1> SUFFICES ASSUME Init PROVE LoggerInv
    BY Zenon
<1>1. PICK name \in Name, open \in BOOLEAN :
          files = <<NewLogFile(name, open)>> /\ file_name = name
    BY Zenon DEF Init
<1>2. NewLogFile(name, open) \in LogFile /\ NewLogFile(name, open).alive
      /\ NewLogFile(name, open).name = name
    <2>1. <<>> \in Seq(Entry)
        OBVIOUS
    <2> QED
        BY Zenon, <2>1 DEF NewLogFile, LogFile
<1>3. files \in Seq(LogFile) /\ Len(files) = 1 /\ files[1].alive /\ files[1].name = file_name
    BY <1>1, <1>2
<1>4. LoggerTypeOK
    BY <1>3 DEF Init, LoggerTypeOK, Labels, Entry, NoFile
<1>5. Mutex /\ Owned /\ Pointers
    BY <1>3, ThreadAssumption DEF Init, Mutex, Owned, Pointers, Rotating, NoFile
<1> QED
    BY Zenon, <1>4, <1>5 DEF Init, LoggerInv, Held

(* The invariant is inductive.                                             *)
LEMMA LoggerNext == LoggerInv /\ [Next]_vars => LoggerInv'
<1> SUFFICES ASSUME LoggerInv, [Next]_vars PROVE LoggerInv'
    BY Zenon
<1>1. CASE UNCHANGED vars
    BY Zenon, <1>1 DEF LoggerInv, Held, LoggerTypeOK, Mutex, Owned, Pointers, vars, locals, logger,
                outside, history
<1>2. ASSUME NEW t \in Thread, Step(t) PROVE LoggerInv'
    <2>1. status = "running" /\ Held
        BY Zenon, <1>2 DEF Step, Log, LoadFile, WriteEntry, Flush, TestFile, ReloadFile, FlushFile,
                    ChangeLoggerFile, LockAndFlush, MoveToBackup, Install, At, LoggerInv
    <2>2. CASE Flush(t) \/ \E how \in {"no", "LogFatal", "VFatal"} : Log(t, how)
        <3>1. Held'
            BY Zenon, <2>1, <2>2, BeginsHeld
        <3>2. status' = "running"
            BY Zenon, <2>1, <2>2 DEF Flush, Log, outside
        <3> QED
            BY Zenon, <3>1, <3>2 DEF LoggerInv
    <2>3. CASE LoadFile(t) \/ ReloadFile(t)
        BY Zenon, <2>1, <2>3, LoadsHeld DEF LoggerInv
    <2>4. CASE WriteEntry(t)
        BY Zenon, <2>1, <2>4, WriteHeld DEF LoggerInv
    <2>5. CASE TestFile(t) \/ FlushFile(t)
        BY Zenon, <2>1, <2>5, FlushesHeld DEF LoggerInv
    <2>6. CASE \E name \in Name, open \in BOOLEAN : ChangeLoggerFile(t, name, open)
        <3>1. Held'
            BY Zenon, <2>1, <2>6, ChangeHeld
        <3>2. status' = "running"
            BY Zenon, <2>1, <2>6 DEF ChangeLoggerFile
        <3> QED
            BY Zenon, <3>1, <3>2 DEF LoggerInv
    <2>7. CASE LockAndFlush(t) \/ MoveToBackup(t) \/ Install(t)
        <3>1. Held'
            BY Zenon, <2>1, <2>7, LockHeld, MoveHeld, InstallHeld
        <3>2. status' = "running"
            BY Zenon, <2>1, <2>7 DEF LockAndFlush, MoveToBackup, Install, outside
        <3> QED
            BY Zenon, <3>1, <3>2 DEF LoggerInv
    <2> QED
        BY Zenon, <1>2, <2>2, <2>3, <2>4, <2>5, <2>6, <2>7 DEF Step
<1>3. CASE Destroy
    BY Zenon, <1>3 DEF Destroy, At, LoggerInv, locals
<1> QED
    BY Zenon, <1>1, <1>2, <1>3 DEF Next

(* For any number of threads: a thread that logs while nobody rotates      *)
(* never meets a null or a destroyed file_ (Logger::ChangeLoggerFile).     *)
THEOREM CrashFreeOutsideRotation == Spec => []CrashOnlyDuringRotation
<1>1. LoggerInv => CrashOnlyDuringRotation
    <2> SUFFICES ASSUME LoggerInv PROVE CrashOnlyDuringRotation
        BY Zenon
    <2>1. status = "segv" => lock # NoThread
        BY Zenon DEF LoggerInv
    <2>2. ASSUME status = "running", lock = NoThread
          PROVE  file # NoFile /\ files[file].alive /\ files[file].name = file_name
        <3>1. \A t \in Thread : pc[t] \notin Rotating
            BY Zenon, <2>2, ThreadAssumption DEF LoggerInv, Held, Mutex
        <3>2. file # NoFile
            BY Zenon, <2>2, <3>1 DEF LoggerInv, Held, Mutex, Rotating
        <3> QED
            BY Zenon, <2>2, <3>2 DEF LoggerInv, Held, Owned
    <2> QED
        BY Zenon, <2>1, <2>2 DEF CrashOnlyDuringRotation
<1> QED
    BY <1>1, LoggerInit, LoggerNext, PTL DEF Spec

(* For any number of threads and rotations: a LogFile that a call has      *)
(* loaded outlives one rotation, because backup_file_ keeps it.            *)
THEOREM BackupIsEnoughForOne == Spec => []BackupOutlivesOneRotation
<1>1. LoggerInv => BackupOutlivesOneRotation
    <2> SUFFICES ASSUME LoggerInv, NEW t \in Thread, pc[t] \in {"write", "fflush"},
                        moves[t] < 2
                 PROVE  files[ptr[t]].alive
        BY Zenon DEF BackupOutlivesOneRotation
    <2>1. Held
        BY Zenon DEF LoggerInv
    <2>2. ptr[t] # NoFile /\ (ptr[t] = file \/ ptr[t] = backup_file)
        <3>1. moves[t] = 0 \/ moves[t] = 1
            BY <2>1 DEF Held, LoggerTypeOK
        <3> QED
            BY <2>1, <3>1 DEF Held, Pointers, NoFile
    <2> QED
        BY Zenon, <2>1, <2>2 DEF Held, Owned
<1> QED
    BY <1>1, LoggerInit, LoggerNext, PTL DEF Spec
-----------------------------------------------------------------------------
(* What the entries need.  Every entry is in one place at most, on disk or *)
(* in a buffer, and only once its LogMessage has returned; it is in none   *)
(* only if it is late.                                                     *)
In(s) == {s[k] : k \in DOMAIN s}
Distinct(s) == \A j, k \in DOMAIN s : s[j] = s[k] => j = k

Apart(D, B) ==
    /\ \A n \in DOMAIN D : Distinct(D[n])
    /\ \A f \in DOMAIN B : Distinct(B[f])
    /\ \A m, n \in DOMAIN D : m # n => In(D[m]) \cap In(D[n]) = {}
    /\ \A f, g \in DOMAIN B : f # g => In(B[f]) \cap In(B[g]) = {}
    /\ \A n \in DOMAIN D, f \in DOMAIN B : In(D[n]) \cap In(B[f]) = {}

Has(D, B, e) ==
    (\E n \in DOMAIN D : e \in In(D[n])) \/ (\E f \in DOMAIN B : e \in In(B[f]))

Bufs(s) == [f \in DOMAIN s |-> s[f].buf]

Store ==
    /\ disk \in [Name -> Seq(Entry)]
    /\ Apart(disk, Bufs(files)) /\ \A e : Has(disk, Bufs(files), e) => e \in returned
    /\ \A f \in DOMAIN files : ~files[f].alive => files[f].buf = <<>>
    /\ \A f \in DOMAIN files : Len(files[f].buf) <= LogFileCache

(* An entry is not returned before it is written, and it is younger than   *)
(* all that its thread has logged.                                         *)
Fresh ==
    /\ returned \subseteq Thread \X (1 .. calls)
    /\ \A t \in Thread : pc[t] \in {"load", "write"} =>
          /\ entry[t][1] = t /\ entry[t][2] \in 1 .. calls
          /\ \A e \in returned : e[1] = t => e[2] < entry[t][2]

(* Only late entries are in a buffer that nobody will flush.               *)
Accounted ==
    /\ \A e \in returned \ late : Has(disk, Bufs(files), e)
    /\ \A f \in DOMAIN files : f # file \/ lock # NoThread => In(files[f].buf) \subseteq late

Changing == {"lock", "move", "install"}
Lifetimes ==
    /\ ptr \in [Thread -> 0 .. Len(files)] /\ created \in [Thread -> 0 .. Len(files)]
    /\ \A f \in Live : f \in {file, backup_file} \cup {created[t] : t \in Thread}
    /\ \A t \in Thread : pc[t] \notin Changing => created[t] = NoFile
    /\ \A t \in Thread : pc[t] \in Changing =>
          /\ files[created[t]].buf = <<>>
          /\ \A u \in Thread : pc[u] \in {"write", "fflush"} => ptr[u] # created[t]

(* LogFatal's entry waits for the flush that precedes abort().             *)
FatalEntry(t) ==
    fatal[t] = "LogFatal" /\ moves[t] = 0 =>
        /\ pc[t] \in {"flush", "reload", "fflush"} =>
              file # NoFile /\ entry[t] \in In(disk[file_name]) \cup In(files[file].buf)
        /\ pc[t] = "aborted" => entry[t] \in In(disk[file_name])
FatalKept == file_name \in Name /\ \A t \in Thread : FatalEntry(t)

(* No file shows the entries of a thread out of order, its buffer counted. *)
Ordered(D, B, names) ==
    /\ \A n \in DOMAIN D : InOrder(D[n])
    /\ \A f \in DOMAIN B : InOrder(D[names[f]] \o B[f])
Names(s) == [f \in DOMAIN s |-> s[f].name]
Order ==
    ~twin => /\ Ordered(disk, Bufs(files), Names(files))
             /\ file # NoFile /\ backup_file # NoFile =>
                   files[file].name # files[backup_file].name

Entries == Store /\ Fresh /\ Accounted /\ Lifetimes /\ FatalKept /\ Order
-----------------------------------------------------------------------------
(* What is in a concatenation.                                             *)
LEMMA InConcat ==
    ASSUME NEW s \in Seq(Entry), NEW r \in Seq(Entry)
    PROVE  In(s \o r) = In(s) \cup In(r)
<1>1. In(s \o r) \subseteq In(s) \cup In(r)
  <2> SUFFICES ASSUME NEW k \in DOMAIN (s \o r) PROVE (s \o r)[k] \in In(s) \cup In(r)
    BY Zenon DEF In
  <2>1. CASE k <= Len(s)
    BY <2>1 DEF In
  <2>2. CASE k > Len(s)
    <3>1. k - Len(s) \in DOMAIN r /\ (s \o r)[k] = r[k - Len(s)]
      BY <2>2
    <3>2. QED
      BY Zenon, <3>1 DEF In
  <2>3. QED
    BY <2>1, <2>2
<1>2. In(s) \subseteq In(s \o r)
  <2> SUFFICES ASSUME NEW k \in DOMAIN s PROVE s[k] \in In(s \o r)
    BY Zenon DEF In
  <2>1. k \in DOMAIN (s \o r) /\ (s \o r)[k] = s[k]
    OBVIOUS
  <2>2. QED
    BY Zenon, <2>1 DEF In
<1>3. In(r) \subseteq In(s \o r)
  <2> SUFFICES ASSUME NEW k \in DOMAIN r PROVE r[k] \in In(s \o r)
    BY Zenon DEF In
  <2>1. k + Len(s) \in DOMAIN (s \o r) /\ (s \o r)[k + Len(s)] = r[k]
    OBVIOUS
  <2>2. QED
    BY Zenon, <2>1 DEF In
<1>4. QED
  BY Zenon, <1>1, <1>2, <1>3

(* The same for one more element.                                          *)
LEMMA InAppend ==
    ASSUME NEW s \in Seq(Entry), NEW e \in Entry
    PROVE  In(Append(s, e)) = In(s) \cup {e} /\ In(<<e>>) = {e}
<1>1. /\ DOMAIN Append(s, e) = DOMAIN s \cup {Len(s) + 1}
      /\ \A k \in DOMAIN s : Append(s, e)[k] = s[k]
      /\ Append(s, e)[Len(s) + 1] = e
  OBVIOUS
<1>2. DOMAIN <<e>> = {1} /\ <<e>>[1] = e
  OBVIOUS
<1>3. QED
  BY <1>1, <1>2 DEF In

(* Nothing is in the empty sequence.                                       *)
LEMMA EmptySeq == In(<<>>) = {} /\ Distinct(<<>>)
<1>1. DOMAIN <<>> = {}
  OBVIOUS
<1>2. QED
  BY Zenon, <1>1 DEF In, Distinct

(* Two sequences without a common element, each without a repetition.      *)
LEMMA DistinctConcat ==
    ASSUME NEW s \in Seq(Entry), NEW r \in Seq(Entry),
           Distinct(s), Distinct(r), In(s) \cap In(r) = {}
    PROVE  Distinct(s \o r)
<1> SUFFICES ASSUME NEW j \in DOMAIN (s \o r), NEW k \in DOMAIN (s \o r), (s \o r)[j] = (s \o r)[k]
             PROVE  j = k
  BY Zenon DEF Distinct
<1>1. \A i \in DOMAIN (s \o r) :
         \/ i \in DOMAIN s /\ (s \o r)[i] = s[i]
         \/ i - Len(s) \in DOMAIN r /\ (s \o r)[i] = r[i - Len(s)]
  OBVIOUS
<1>2. j \in Int /\ k \in Int /\ Len(s) \in Int
  OBVIOUS
<1>3. \A a \in DOMAIN s, b \in DOMAIN r : s[a] # r[b]
  BY Zenon DEF In
<1>4. CASE j \in DOMAIN s /\ (s \o r)[j] = s[j]
  <2>1. k \in DOMAIN s /\ (s \o r)[k] = s[k]
    BY Zenon, <1>1, <1>3, <1>4
  <2>2. QED
    BY Zenon, <1>4, <2>1 DEF Distinct
<1>5. CASE j - Len(s) \in DOMAIN r /\ (s \o r)[j] = r[j - Len(s)]
  <2>1. k - Len(s) \in DOMAIN r /\ (s \o r)[k] = r[k - Len(s)]
    BY Zenon, <1>1, <1>3, <1>5
  <2>2. j - Len(s) = k - Len(s)
    BY Zenon, <1>5, <2>1 DEF Distinct
  <2>3. QED
    BY <1>2, <2>2
<1>6. QED
  BY Zenon, <1>1, <1>4, <1>5

(* And a new element.                                                      *)
LEMMA DistinctAppend ==
    ASSUME NEW s \in Seq(Entry), NEW e \in Entry, Distinct(s), e \notin In(s)
    PROVE  Distinct(Append(s, e))
<1>1. /\ DOMAIN Append(s, e) = DOMAIN s \cup {Len(s) + 1}
      /\ \A k \in DOMAIN s : Append(s, e)[k] = s[k]
      /\ Append(s, e)[Len(s) + 1] = e
  OBVIOUS
<1>2. \A k \in DOMAIN s : s[k] # e
  BY Zenon DEF In
<1>3. QED
  BY Zenon, <1>1, <1>2 DEF Distinct
-----------------------------------------------------------------------------
(* Moving a buffer to the end of a file on disk.                           *)
LEMMA FlushStore ==
    ASSUME NEW X, NEW D \in [Name -> Seq(Entry)], NEW B \in [X -> Seq(Entry)], Apart(D, B),
           NEW f \in X, NEW n \in Name
    PROVE  /\ [D EXCEPT ![n] = D[n] \o B[f]] \in [Name -> Seq(Entry)]
           /\ Apart([D EXCEPT ![n] = D[n] \o B[f]], [B EXCEPT ![f] = <<>>])
           /\ \A e : Has([D EXCEPT ![n] = D[n] \o B[f]], [B EXCEPT ![f] = <<>>], e) <=> Has(D, B, e)
<1> DEFINE d == D[n] \o B[f]
           D2 == [D EXCEPT ![n] = d]
           B2 == [B EXCEPT ![f] = <<>>]
<1>1. D[n] \in Seq(Entry) /\ B[f] \in Seq(Entry) /\ d \in Seq(Entry) /\ <<>> \in Seq(Entry)
  OBVIOUS
<1>2. In(d) = In(D[n]) \cup In(B[f]) /\ In(<<>>) = {} /\ Distinct(<<>>)
  <2>1. In(d) = In(D[n]) \cup In(B[f])
    BY Zenon, <1>1, InConcat
  <2>2. QED
    BY Zenon, <2>1, EmptySeq
<1>3. In(D[n]) \cap In(B[f]) = {} /\ Distinct(D[n]) /\ Distinct(B[f])
  BY Zenon DEF Apart
<1>4. Distinct(d)
  BY Zenon, <1>1, <1>3, DistinctConcat
<1> HIDE DEF d
<1>5. /\ D2 \in [Name -> Seq(Entry)] /\ B2 \in [X -> Seq(Entry)]
      /\ DOMAIN D2 = Name /\ DOMAIN D = Name /\ DOMAIN B = X /\ DOMAIN B2 = X
      /\ D2[n] = d /\ B2[f] = <<>>
      /\ \A m \in Name : m # n => D2[m] = D[m]
      /\ \A g \in X : g # f => B2[g] = B[g]
  BY Zenon, <1>1
<1> HIDE DEF D2, B2
<1>6. \A m \in Name : Distinct(D2[m])
  BY Zenon, <1>4, <1>5 DEF Apart
<1>7. \A g \in X : Distinct(B2[g])
  BY Zenon, <1>2, <1>5 DEF Apart
<1>8. \A m, k \in Name : m # k => In(D2[m]) \cap In(D2[k]) = {}
  <2> SUFFICES ASSUME NEW m \in Name, NEW k \in Name, m # k PROVE In(D2[m]) \cap In(D2[k]) = {}
    BY Zenon
  <2>1. /\ In(D[m]) \cap In(D[k]) = {} /\ In(D[m]) \cap In(B[f]) = {} /\ In(D[k]) \cap In(B[f]) = {}
    BY Zenon, <1>5 DEF Apart
  <2>2. QED
    BY Zenon, <1>2, <1>5, <2>1
<1>9. \A g, h \in X : g # h => In(B2[g]) \cap In(B2[h]) = {}
  <2> SUFFICES ASSUME NEW g \in X, NEW h \in X, g # h PROVE In(B2[g]) \cap In(B2[h]) = {}
    BY Zenon
  <2>1. In(B[g]) \cap In(B[h]) = {}
    BY Zenon, <1>5 DEF Apart
  <2>2. QED
    BY Zenon, <1>2, <1>5, <2>1
<1>10. \A m \in Name, g \in X : In(D2[m]) \cap In(B2[g]) = {}
  <2> SUFFICES ASSUME NEW m \in Name, NEW g \in X PROVE In(D2[m]) \cap In(B2[g]) = {}
    BY Zenon
  <2>1. In(D[m]) \cap In(B[g]) = {} /\ (g # f => In(B[f]) \cap In(B[g]) = {})
    BY Zenon, <1>5 DEF Apart
  <2>2. QED
    BY Zenon, <1>2, <1>5, <2>1
<1>11. Apart(D2, B2)
  BY Zenon, <1>5, <1>6, <1>7, <1>8, <1>9, <1>10 DEF Apart
<1>12. \A e : Has(D2, B2, e) <=> Has(D, B, e)
  <2> SUFFICES ASSUME NEW e
               PROVE  (\/ \E m \in Name : e \in In(D2[m])
                       \/ \E g \in X : e \in In(B2[g]))
                      <=> (\/ \E m \in Name : e \in In(D[m])
                           \/ \E g \in X : e \in In(B[g]))
    BY Zenon, <1>5 DEF Has
  <2>1. QED
    BY Zenon, <1>2, <1>5
<1>13. QED
  BY Zenon, <1>5, <1>11, <1>12 DEF D2, B2, d

(* A new entry at the end of a buffer.                                     *)
LEMMA AddStore ==
    ASSUME NEW X, NEW D \in [Name -> Seq(Entry)], NEW B \in [X -> Seq(Entry)], Apart(D, B),
           NEW f \in X, NEW e \in Entry, ~Has(D, B, e)
    PROVE  /\ Apart(D, [B EXCEPT ![f] = Append(B[f], e)])
           /\ \A x : Has(D, [B EXCEPT ![f] = Append(B[f], e)], x) <=> Has(D, B, x) \/ x = e
<1> DEFINE b == Append(B[f], e)
           B2 == [B EXCEPT ![f] = b]
<1>1. B[f] \in Seq(Entry) /\ b \in Seq(Entry) /\ In(b) = In(B[f]) \cup {e}
  <2>1. B[f] \in Seq(Entry)
    BY Zenon
  <2>2. PICK s \in Seq(Entry) : s = B[f]
    BY Zenon, <2>1
  <2>3. Append(s, e) \in Seq(Entry)
    OBVIOUS
  <2>4. In(Append(s, e)) = In(s) \cup {e}
    BY Zenon, InAppend
  <2>5. QED
    BY Zenon, <2>2, <2>3, <2>4
<1>2. /\ DOMAIN D = Name /\ DOMAIN B = X
      /\ \A m \in Name : e \notin In(D[m])
      /\ \A g \in X : e \notin In(B[g])
  BY Zenon DEF Has
<1>3. Distinct(B[f])
  BY Zenon, <1>2 DEF Apart
<1>4. Distinct(b)
  BY Zenon, <1>1, <1>2, <1>3, DistinctAppend
<1> HIDE DEF b
<1>5. /\ B2 \in [X -> Seq(Entry)] /\ DOMAIN B2 = X /\ B2[f] = b
      /\ \A g \in X : g # f => B2[g] = B[g]
  BY Zenon, <1>1
<1> HIDE DEF B2
<1>6. \A g \in X : Distinct(B2[g])
  BY Zenon, <1>2, <1>4, <1>5 DEF Apart
<1>7. \A g, h \in X : g # h => In(B2[g]) \cap In(B2[h]) = {}
  <2> SUFFICES ASSUME NEW g \in X, NEW h \in X, g # h PROVE In(B2[g]) \cap In(B2[h]) = {}
    BY Zenon
  <2>1. In(B[g]) \cap In(B[h]) = {}
    BY Zenon, <1>2 DEF Apart
  <2>2. QED
    BY Zenon, <1>1, <1>2, <1>5, <2>1
<1>8. \A m \in Name, g \in X : In(D[m]) \cap In(B2[g]) = {}
  <2> SUFFICES ASSUME NEW m \in Name, NEW g \in X PROVE In(D[m]) \cap In(B2[g]) = {}
    BY Zenon
  <2>1. In(D[m]) \cap In(B[g]) = {}
    BY Zenon, <1>2 DEF Apart
  <2>2. QED
    BY Zenon, <1>1, <1>2, <1>5, <2>1
<1>9. Apart(D, B2)
  <2>1. /\ \A m \in Name : Distinct(D[m])
        /\ \A m, k \in Name : m # k => In(D[m]) \cap In(D[k]) = {}
    BY Zenon, <1>2 DEF Apart
  <2>2. QED
    BY Zenon, <1>2, <1>5, <1>6, <1>7, <1>8, <2>1 DEF Apart
<1>10. \A x : Has(D, B2, x) <=> Has(D, B, x) \/ x = e
  <2> SUFFICES ASSUME NEW x
               PROVE  (\/ \E m \in Name : x \in In(D[m])
                       \/ \E g \in X : x \in In(B2[g]))
                      <=> (\/ \E m \in Name : x \in In(D[m])
                           \/ \E g \in X : x \in In(B[g])
                           \/ x = e)
    BY Zenon, <1>2, <1>5 DEF Has
  <2>1. QED
    BY Zenon, <1>1, <1>5
<1>11. QED
  BY Zenon, <1>5, <1>9, <1>10 DEF B2, b

(* A buffer whose entries are lost, or that had none.                      *)
LEMMA DropStore ==
    ASSUME NEW X, NEW D \in [Name -> Seq(Entry)], NEW B \in [X -> Seq(Entry)], Apart(D, B),
           NEW f \in X
    PROVE  /\ Apart(D, [B EXCEPT ![f] = <<>>])
           /\ \A e : Has(D, [B EXCEPT ![f] = <<>>], e) => Has(D, B, e)
           /\ \A e : Has(D, B, e) /\ e \notin In(B[f]) => Has(D, [B EXCEPT ![f] = <<>>], e)
<1> DEFINE B2 == [B EXCEPT ![f] = <<>>]
<1>1. /\ B2 \in [X -> Seq(Entry)] /\ DOMAIN B2 = X /\ DOMAIN B = X /\ DOMAIN D = Name
      /\ B2[f] = <<>> /\ \A g \in X : g # f => B2[g] = B[g]
  OBVIOUS
<1>2. In(<<>>) = {} /\ Distinct(<<>>)
  BY Zenon, EmptySeq
<1> HIDE DEF B2
<1>3. Apart(D, B2)
  BY Zenon, <1>1, <1>2 DEF Apart
<1>4. \A e : Has(D, B2, e) => Has(D, B, e)
  BY Zenon, <1>1, <1>2 DEF Has
<1>5. \A e : Has(D, B, e) /\ e \notin In(B[f]) => Has(D, B2, e)
  BY Zenon, <1>1, <1>2 DEF Has
<1>6. QED
  BY Zenon, <1>1, <1>3, <1>4, <1>5 DEF B2
-----------------------------------------------------------------------------
(* The latest entry of a thread at the end keeps the order.                *)
LEMMA OrderAppend ==
    ASSUME NEW s \in Seq(Entry), NEW e \in Entry, InOrder(s),
           \A x \in In(s) : x[1] = e[1] => x[2] < e[2]
    PROVE  InOrder(Append(s, e))
<1> DEFINE r == Append(s, e)
           n == Len(s) + 1
<1>1. /\ DOMAIN r = DOMAIN s \cup {n} /\ n \in Nat
      /\ \A k \in DOMAIN s : r[k] = s[k] /\ k < n /\ k \in Nat
      /\ r[n] = e
  OBVIOUS
<1> HIDE DEF r, n
<1>2. \A k \in DOMAIN s : s[k][1] = e[1] => s[k][2] < e[2]
  BY Zenon DEF In
<1>3. InOrder(r)
  <2> SUFFICES ASSUME NEW j \in DOMAIN r, NEW k \in DOMAIN r, j < k, r[j][1] = r[k][1]
               PROVE  r[j][2] < r[k][2]
    BY Zenon DEF InOrder
  <2>1. j \in DOMAIN s
    BY <1>1
  <2>2. CASE k = n
    BY Zenon, <1>1, <1>2, <2>1, <2>2
  <2>3. CASE k \in DOMAIN s
    BY Zenon, <1>1, <2>1, <2>3 DEF InOrder
  <2>4. QED
    BY Zenon, <1>1, <2>2, <2>3
<1>4. QED
  BY Zenon, <1>3 DEF r

(* A prefix and nothing: the same sequence.                                *)
LEMMA ConcatFacts ==
    ASSUME NEW s \in Seq(Entry), NEW r \in Seq(Entry), NEW e \in Entry
    PROVE  /\ s \o <<>> = s /\ s \o Append(r, e) = Append(s \o r, e)
           /\ s \o r \in Seq(Entry) /\ Append(<<>>, e) = <<e>>
OBVIOUS

(* Moving a buffer to its file keeps the order, if no other buffer of that *)
(* file holds anything.                                                    *)
LEMMA FlushOrder ==
    ASSUME NEW X, NEW D \in [Name -> Seq(Entry)], NEW B \in [X -> Seq(Entry)],
           NEW N \in [X -> Name], Ordered(D, B, N), NEW f \in X,
           \A g \in X : g # f /\ N[g] = N[f] => B[g] = <<>>
    PROVE  Ordered([D EXCEPT ![N[f]] = D[N[f]] \o B[f]], [B EXCEPT ![f] = <<>>], N)
<1> DEFINE n == N[f]
           d == D[n] \o B[f]
           D2 == [D EXCEPT ![n] = d]
           B2 == [B EXCEPT ![f] = <<>>]
<1>1. n \in Name /\ D[n] \in Seq(Entry) /\ B[f] \in Seq(Entry) /\ DOMAIN B = X /\ DOMAIN D = Name
  BY Zenon
<1>2. InOrder(d) /\ d \in Seq(Entry)
  BY <1>1, ConcatFacts DEF Ordered
<1>3. \A g \in X : g # f /\ N[g] = n => B[g] = <<>>
  BY Zenon
<1> HIDE DEF d, n
<1>4. /\ DOMAIN D2 = Name /\ DOMAIN B2 = X /\ D2[n] = d /\ B2[f] = <<>>
      /\ \A m \in Name : m # n => D2[m] = D[m]
      /\ \A g \in X : g # f => B2[g] = B[g]
  BY Zenon, <1>1
<1> HIDE DEF D2, B2
<1>5. \A m \in Name : InOrder(D2[m])
  BY Zenon, <1>1, <1>2, <1>4 DEF Ordered
<1>6. ASSUME NEW g \in X PROVE InOrder(D2[N[g]] \o B2[g])
  <2>1. CASE N[g] = n
    <3>1. B2[g] = <<>>
      BY Zenon, <1>3, <1>4, <2>1
    <3>2. d \o <<>> = d
      BY <1>2
    <3>3. QED
      BY Zenon, <1>2, <1>4, <2>1, <3>1, <3>2
  <2>2. CASE N[g] # n
    <3>1. D2[N[g]] = D[N[g]] /\ g # f
      BY Zenon, <1>4, <2>2 DEF n
    <3>2. QED
      BY Zenon, <1>1, <1>4, <3>1 DEF Ordered
  <2>3. QED
    BY Zenon, <2>1, <2>2
<1>7. QED
  BY Zenon, <1>4, <1>5, <1>6 DEF Ordered, D2, B2, d, n

(* A thread's latest entry at the end of a buffer.                         *)
LEMMA AddOrder ==
    ASSUME NEW X, NEW D \in [Name -> Seq(Entry)], NEW B \in [X -> Seq(Entry)],
           NEW N \in [X -> Name], Ordered(D, B, N), NEW f \in X, NEW e \in Entry,
           \A x : Has(D, B, x) /\ x[1] = e[1] => x[2] < e[2]
    PROVE  Ordered(D, [B EXCEPT ![f] = Append(B[f], e)], N)
<1> DEFINE b == Append(B[f], e)
           B2 == [B EXCEPT ![f] = b]
           d == D[N[f]]
           c == B[f]
<1>1. d \in Seq(Entry) /\ c \in Seq(Entry) /\ DOMAIN B = X /\ DOMAIN D = Name /\ N[f] \in Name
  BY Zenon
<1>2. \A x \in In(d) \cup In(c) : Has(D, B, x)
  BY Zenon, <1>1 DEF Has
<1>3. InOrder(d \o c)
  BY Zenon, <1>1 DEF Ordered
<1>4. DOMAIN B2 = X /\ B2[f] = b /\ \A g \in X : g # f => B2[g] = B[g]
  BY Zenon
<1>5. b = Append(c, e)
  BY Zenon
<1> HIDE DEF b, B2, c, d
<1>6. d \o c \in Seq(Entry) /\ d \o b = Append(d \o c, e) /\ In(d \o c) = In(d) \cup In(c)
  BY SMTT(20), <1>1, <1>5, ConcatFacts, InConcat
<1>7. InOrder(d \o b)
  BY Zenon, <1>2, <1>3, <1>6, OrderAppend
<1>8. ASSUME NEW g \in X PROVE InOrder(D[N[g]] \o B2[g])
  <2>1. CASE g = f
    BY Zenon, <1>4, <1>7, <2>1 DEF d
  <2>2. CASE g # f
    BY Zenon, <1>1, <1>4, <2>2 DEF Ordered
  <2>3. QED
    BY Zenon, <2>1, <2>2
<1>9. Ordered(D, B2, N)
  BY Zenon, <1>4, <1>8 DEF Ordered
<1>10. QED
  BY Zenon, <1>9 DEF B2, b

(* A buffer that loses its entries.                                        *)
LEMMA DropOrder ==
    ASSUME NEW X, NEW D \in [Name -> Seq(Entry)], NEW B \in [X -> Seq(Entry)],
           NEW N \in [X -> Name], Ordered(D, B, N), NEW f \in X
    PROVE  Ordered(D, [B EXCEPT ![f] = <<>>], N)
<1> DEFINE B2 == [B EXCEPT ![f] = <<>>]
           d == D[N[f]]
<1>1. d \in Seq(Entry) /\ DOMAIN B = X /\ DOMAIN D = Name /\ N[f] \in Name
  BY Zenon
<1>2. DOMAIN B2 = X /\ B2[f] = <<>> /\ \A g \in X : g # f => B2[g] = B[g]
  BY Zenon
<1>3. InOrder(d)
  BY Zenon, <1>1 DEF Ordered
<1> HIDE DEF B2, d
<1>4. d \o <<>> = d
  BY <1>1
<1>5. ASSUME NEW g \in X PROVE InOrder(D[N[g]] \o B2[g])
  <2>1. CASE g = f
    BY Zenon, <1>2, <1>3, <1>4, <2>1 DEF d
  <2>2. CASE g # f
    BY Zenon, <1>1, <1>2, <2>2 DEF Ordered
  <2>3. QED
    BY Zenon, <2>1, <2>2
<1>6. QED
  BY Zenon, <1>2, <1>5 DEF Ordered, B2
-----------------------------------------------------------------------------
(* r is s with b for the buffer of f, which may have been destroyed.       *)
SetBuf(s, r, f, b) ==
    /\ r \in Seq(LogFile) /\ Len(r) = Len(s)
    /\ r[f].buf = b /\ r[f].name = s[f].name
    /\ \A g \in 1 .. Len(s) : g # f => r[g] = s[g]

(* Write and Flush set the buffer of a LogFile; its destructor empties it. *)
LEMMA BufferSet ==
    ASSUME NEW s \in Seq(LogFile), NEW f \in 1 .. Len(s), NEW b \in Seq(Entry)
    PROVE  SetBuf(s, [s EXCEPT ![f].buf = b], f, b)
           /\ [s EXCEPT ![f].buf = b][f].alive = s[f].alive
<1> DEFINE x == [s[f] EXCEPT !.buf = b]
<1>1. s[f] \in LogFile
  OBVIOUS
<1>2. x \in LogFile /\ x.buf = b /\ x.name = s[f].name /\ x.alive = s[f].alive
  BY Zenon, <1>1 DEF LogFile
<1>3. [s EXCEPT ![f].buf = b] = [s EXCEPT ![f] = x]
  BY Zenon
<1> HIDE DEF x
<1>4. SetBuf(s, [s EXCEPT ![f] = x], f, b) /\ [s EXCEPT ![f] = x][f] = x
  BY <1>2 DEF SetBuf
<1>5. QED
  BY Zenon, <1>2, <1>3, <1>4

LEMMA BufferClosed ==
    ASSUME NEW s \in Seq(LogFile), NEW f \in 1 .. Len(s), NEW b \in Seq(Entry)
    PROVE  SetBuf(s, [s EXCEPT ![f].buf = b, ![f].alive = FALSE], f, b)
           /\ ~[s EXCEPT ![f].buf = b, ![f].alive = FALSE][f].alive
<1> DEFINE x == [s[f] EXCEPT !.buf = b]
           y == [x EXCEPT !.alive = FALSE]
<1>1. s[f] \in LogFile
  OBVIOUS
<1>2. y \in LogFile /\ y.buf = b /\ y.name = s[f].name /\ ~y.alive
  BY Zenon, <1>1 DEF LogFile
<1>3. [s EXCEPT ![f].buf = b, ![f].alive = FALSE] = [s EXCEPT ![f] = y]
  BY Zenon
<1> HIDE DEF x, y
<1>4. SetBuf(s, [s EXCEPT ![f] = y], f, b) /\ [s EXCEPT ![f] = y][f] = y
  BY <1>2 DEF SetBuf
<1>5. QED
  BY Zenon, <1>2, <1>3, <1>4

(* Seen as buffers and names.                                              *)
LEMMA BufsSet ==
    ASSUME NEW s \in Seq(LogFile), NEW r, NEW f \in 1 .. Len(s), NEW b \in Seq(Entry),
           SetBuf(s, r, f, b)
    PROVE  /\ Bufs(r) = [Bufs(s) EXCEPT ![f] = b] /\ Names(r) = Names(s)
           /\ DOMAIN r = 1 .. Len(s) /\ DOMAIN s = 1 .. Len(s)
<1>1. DOMAIN r = 1 .. Len(s) /\ DOMAIN s = 1 .. Len(s)
  BY DEF SetBuf
<1>2. \A g \in 1 .. Len(s) : r[g].buf = IF g = f THEN b ELSE s[g].buf
  BY Zenon DEF SetBuf
<1>3. \A g \in 1 .. Len(s) : r[g].name = s[g].name
  BY Zenon DEF SetBuf
<1>4. Bufs(r) = [Bufs(s) EXCEPT ![f] = b]
  BY Zenon, <1>1, <1>2 DEF Bufs
<1>5. Names(r) = Names(s)
  BY Zenon, <1>1, <1>3 DEF Names
<1>6. QED
  BY Zenon, <1>1, <1>4, <1>5

(* The buffers and the names are of their types.                           *)
LEMMA BufsType ==
    ASSUME NEW s \in Seq(LogFile)
    PROVE  /\ Bufs(s) \in [1 .. Len(s) -> Seq(Entry)] /\ Names(s) \in [1 .. Len(s) -> Name]
           /\ DOMAIN s = 1 .. Len(s)
           /\ \A f \in 1 .. Len(s) : /\ Bufs(s)[f] = s[f].buf /\ Names(s)[f] = s[f].name
                                     /\ s[f].buf \in Seq(Entry) /\ s[f].name \in Name
<1>1. DOMAIN s = 1 .. Len(s) /\ \A f \in 1 .. Len(s) : s[f] \in LogFile
  OBVIOUS
<1>2. \A f \in 1 .. Len(s) : s[f].buf \in Seq(Entry) /\ s[f].name \in Name
  BY Zenon, <1>1 DEF LogFile
<1>3. QED
  BY Zenon, <1>1, <1>2 DEF Bufs, Names

(* Only file_ and backup_file_ have something in their buffers, and while  *)
(* they have had different names no two buffers are for one file.          *)
LEMMA Alone ==
    ASSUME Held, Entries, ~twin, NEW f \in {file, backup_file}, f # NoFile,
           NEW g \in 1 .. Len(files), g # f, files[g].name = files[f].name
    PROVE  files[g].buf = <<>>
<1>1. DOMAIN files = 1 .. Len(files)
  BY Zenon, BufsType DEF Held, LoggerTypeOK
<1>2. CASE ~files[g].alive
  BY Zenon, <1>1, <1>2 DEF Entries, Store
<1>3. CASE g \in {file, backup_file}
  <2>1. g # NoFile
    BY DEF NoFile
  <2>2. QED
    BY Zenon, <1>3, <2>1 DEF Entries, Order
<1>4. CASE \E t \in Thread : g = created[t]
  <2>1. PICK t \in Thread : g = created[t]
    BY Zenon, <1>4
  <2>2. pc[t] \in Changing
    BY <2>1 DEF Entries, Lifetimes, NoFile
  <2>3. QED
    BY Zenon, <2>1, <2>2 DEF Entries, Lifetimes
<1>5. files[g].alive => g \in {file, backup_file} \cup {created[t] : t \in Thread}
  BY Zenon, <1>1 DEF Entries, Lifetimes, Live
<1>6. QED
  BY Zenon, <1>2, <1>3, <1>4, <1>5

(* An emptied buffer.                                                      *)
LEMMA BufsEmptied ==
    ASSUME NEW s \in Seq(LogFile), NEW r, NEW f \in 1 .. Len(s), SetBuf(s, r, f, <<>>)
    PROVE  Bufs(r) = [Bufs(s) EXCEPT ![f] = <<>>] /\ Names(r) = Names(s)
<1>1. <<>> \in Seq(Entry)
  OBVIOUS
<1>2. PICK b \in Seq(Entry) : b = <<>>
  BY Zenon, <1>1
<1>3. SetBuf(s, r, f, b)
  BY Zenon, <1>2
<1>4. Bufs(r) = [Bufs(s) EXCEPT ![f] = b] /\ Names(r) = Names(s)
  BY <1>3, BufsSet
<1>5. QED
  BY Zenon, <1>2, <1>4

(* FlushTo, for the LogFiles s.                                            *)
AfterFlush(D, s, f) == [D EXCEPT ![s[f].name] = D[s[f].name] \o s[f].buf]

(* A flush of the LogFile f of s.                                          *)
LEMMA FlushData ==
    ASSUME NEW s \in Seq(LogFile), NEW r, NEW f \in 1 .. Len(s), SetBuf(s, r, f, <<>>),
           NEW D \in [Name -> Seq(Entry)], Apart(D, Bufs(s)),
           NEW D2, D2 = AfterFlush(D, s, f)
    PROVE  /\ D2 \in [Name -> Seq(Entry)] /\ Apart(D2, Bufs(r))
           /\ \A e : Has(D2, Bufs(r), e) <=> Has(D, Bufs(s), e)
           /\ \A n \in Name : In(D[n]) \subseteq In(D2[n])
           /\ In(s[f].buf) \subseteq In(D2[s[f].name])
<1> DEFINE X == 1 .. Len(s)
           B == Bufs(s)
           n == s[f].name
<1>1. B \in [X -> Seq(Entry)] /\ n \in Name /\ B[f] = s[f].buf /\ B[f] \in Seq(Entry)
  BY Zenon, BufsType
<1>2. Bufs(r) = [B EXCEPT ![f] = <<>>]
  BY Zenon, BufsEmptied
<1>3. D2 = [D EXCEPT ![n] = D[n] \o B[f]]
  BY Zenon, <1>1 DEF AfterFlush
<1> HIDE DEF X, B, n
<1>4. f \in X
  BY Zenon DEF X
<1>5. Apart(D, B)
  BY Zenon DEF B
<1>6. /\ [D EXCEPT ![n] = D[n] \o B[f]] \in [Name -> Seq(Entry)]
      /\ Apart([D EXCEPT ![n] = D[n] \o B[f]], [B EXCEPT ![f] = <<>>])
      /\ \A e : Has([D EXCEPT ![n] = D[n] \o B[f]], [B EXCEPT ![f] = <<>>], e) <=> Has(D, B, e)
  BY Zenon, <1>1, <1>4, <1>5, FlushStore
<1>7. D[n] \in Seq(Entry) /\ D2[n] = D[n] \o B[f] /\ \A m \in Name : m # n => D2[m] = D[m]
  BY Zenon, <1>1, <1>3
<1>8. In(D2[n]) = In(D[n]) \cup In(B[f])
  BY Zenon, <1>1, <1>7, InConcat
<1>9. /\ D2 \in [Name -> Seq(Entry)] /\ Apart(D2, Bufs(r))
      /\ \A e : Has(D2, Bufs(r), e) <=> Has(D, B, e)
  BY Zenon, <1>2, <1>3, <1>6
<1>10. QED
  BY Zenon, <1>1, <1>7, <1>8, <1>9 DEF B, n

(* The same for the order.                                                 *)
LEMMA FlushDataOrder ==
    ASSUME NEW s \in Seq(LogFile), NEW r, NEW f \in 1 .. Len(s), SetBuf(s, r, f, <<>>),
           NEW D \in [Name -> Seq(Entry)], Ordered(D, Bufs(s), Names(s)),
           NEW D2, D2 = AfterFlush(D, s, f),
           \A g \in 1 .. Len(s) : g # f /\ s[g].name = s[f].name => s[g].buf = <<>>
    PROVE  Ordered(D2, Bufs(r), Names(r))
<1> DEFINE X == 1 .. Len(s)
           B == Bufs(s)
           N == Names(s)
<1>1. /\ B \in [X -> Seq(Entry)] /\ N \in [X -> Name]
      /\ \A g \in X : B[g] = s[g].buf /\ N[g] = s[g].name
  BY Zenon, BufsType
<1>2. Bufs(r) = [B EXCEPT ![f] = <<>>] /\ Names(r) = N
  BY Zenon, BufsEmptied
<1>3. D2 = [D EXCEPT ![N[f]] = D[N[f]] \o B[f]]
  BY Zenon, <1>1 DEF AfterFlush
<1>4. \A g \in X : g # f /\ N[g] = N[f] => B[g] = <<>>
  BY Zenon, <1>1
<1>5. f \in X /\ Ordered(D, B, N)
  BY Zenon
<1> HIDE DEF X, B, N
<1>6. Ordered([D EXCEPT ![N[f]] = D[N[f]] \o B[f]], [B EXCEPT ![f] = <<>>], N)
  BY Zenon, <1>1, <1>4, <1>5, FlushOrder
<1>7. QED
  BY Zenon, <1>2, <1>3, <1>6

(* A LogFile whose buffer is lost.                                         *)
LEMMA DropData ==
    ASSUME NEW s \in Seq(LogFile), NEW r, NEW f \in 1 .. Len(s), SetBuf(s, r, f, <<>>),
           NEW D \in [Name -> Seq(Entry)], Apart(D, Bufs(s))
    PROVE  /\ Apart(D, Bufs(r)) /\ \A e : Has(D, Bufs(r), e) => Has(D, Bufs(s), e)
           /\ \A e : Has(D, Bufs(s), e) /\ e \notin In(s[f].buf) => Has(D, Bufs(r), e)
           /\ Ordered(D, Bufs(s), Names(s)) => Ordered(D, Bufs(r), Names(r))
<1> DEFINE X == 1 .. Len(s)
           B == Bufs(s)
           N == Names(s)
<1>1. B \in [X -> Seq(Entry)] /\ N \in [X -> Name] /\ B[f] = s[f].buf
  BY Zenon, BufsType
<1>2. Bufs(r) = [B EXCEPT ![f] = <<>>] /\ Names(r) = N
  BY Zenon, BufsEmptied
<1>3. f \in X /\ Apart(D, B)
  BY Zenon
<1> HIDE DEF X, B, N
<1>4. /\ Apart(D, [B EXCEPT ![f] = <<>>])
      /\ \A e : Has(D, [B EXCEPT ![f] = <<>>], e) => Has(D, B, e)
      /\ \A e : Has(D, B, e) /\ e \notin In(B[f]) => Has(D, [B EXCEPT ![f] = <<>>], e)
  BY Zenon, <1>1, <1>3, DropStore
<1>5. Ordered(D, B, N) => Ordered(D, [B EXCEPT ![f] = <<>>], N)
  BY Zenon, <1>1, <1>3, DropOrder
<1>6. QED
  BY Zenon, <1>1, <1>2, <1>4, <1>5 DEF B, N

(* A new entry in the buffer of f.                                         *)
LEMMA AddData ==
    ASSUME NEW s \in Seq(LogFile), NEW r, NEW f \in 1 .. Len(s), NEW e \in Entry,
           SetBuf(s, r, f, Append(s[f].buf, e)),
           NEW D \in [Name -> Seq(Entry)], Apart(D, Bufs(s)), ~Has(D, Bufs(s), e)
    PROVE  /\ Apart(D, Bufs(r)) /\ \A x : Has(D, Bufs(r), x) <=> Has(D, Bufs(s), x) \/ x = e
           /\ Ordered(D, Bufs(s), Names(s))
              /\ (\A x : Has(D, Bufs(s), x) /\ x[1] = e[1] => x[2] < e[2])
                 => Ordered(D, Bufs(r), Names(r))
<1> DEFINE X == 1 .. Len(s)
           B == Bufs(s)
           N == Names(s)
<1>1. B \in [X -> Seq(Entry)] /\ N \in [X -> Name] /\ B[f] = s[f].buf /\ s[f].buf \in Seq(Entry)
  BY Zenon, BufsType
<1>2. Bufs(r) = [B EXCEPT ![f] = Append(B[f], e)] /\ Names(r) = N
  <2>0. Append(s[f].buf, e) \in Seq(Entry)
    BY <1>1
  <2>1. PICK b \in Seq(Entry) : b = Append(s[f].buf, e)
    BY Zenon, <2>0
  <2>2. SetBuf(s, r, f, b)
    BY Zenon, <2>1
  <2>3. Bufs(r) = [Bufs(s) EXCEPT ![f] = b] /\ Names(r) = Names(s)
    BY <2>2, BufsSet
  <2>4. QED
    BY Zenon, <1>1, <2>1, <2>3
<1>3. f \in X /\ Apart(D, B) /\ ~Has(D, B, e)
  BY Zenon
<1> HIDE DEF X, B, N
<1>4. /\ Apart(D, [B EXCEPT ![f] = Append(B[f], e)])
      /\ \A x : Has(D, [B EXCEPT ![f] = Append(B[f], e)], x) <=> Has(D, B, x) \/ x = e
  BY Zenon, <1>1, <1>3, AddStore
<1>5. Ordered(D, B, N) /\ (\A x : Has(D, B, x) /\ x[1] = e[1] => x[2] < e[2])
         => Ordered(D, [B EXCEPT ![f] = Append(B[f], e)], N)
  BY Zenon, <1>1, <1>3, AddOrder
<1>6. QED
  BY Zenon, <1>2, <1>4, <1>5 DEF B, N

(* The part of Store about the LogFiles, once a buffer is set.             *)
LEMMA BuffersBounded ==
    ASSUME Held, Store, NEW f \in 1 .. Len(files), NEW b, SetBuf(files, files', f, b),
           ~files'[f].alive => b = <<>>, Len(b) <= LogFileCache
    PROVE  /\ \A g \in DOMAIN files' : ~files'[g].alive => files'[g].buf = <<>>
           /\ \A g \in DOMAIN files' : Len(files'[g].buf) <= LogFileCache
<1>1. DOMAIN files' = 1 .. Len(files) /\ DOMAIN files = 1 .. Len(files)
  BY DEF Held, LoggerTypeOK, SetBuf
<1>2. ASSUME NEW g \in 1 .. Len(files)
      PROVE  (~files'[g].alive => files'[g].buf = <<>>) /\ Len(files'[g].buf) <= LogFileCache
  <2>1. CASE g = f
    BY Zenon, <2>1 DEF SetBuf
  <2>2. CASE g # f
    BY Zenon, <1>1, <2>2 DEF SetBuf, Store
  <2>3. QED
    BY Zenon, <2>1, <2>2
<1>3. QED
  BY Zenon, <1>1, <1>2

(* A flush of file_ or backup_file_, by whomever, loses nothing, doubles   *)
(* nothing and keeps the order.                                            *)
LEMMA Flushing ==
    ASSUME Held, Entries, NEW f \in {file, backup_file}, f # NoFile,
           disk' = FlushTo(disk, f), SetBuf(files, files', f, <<>>), UNCHANGED <<returned, twin>>
    PROVE  /\ Store' /\ \A e : Has(disk', Bufs(files'), e) <=> Has(disk, Bufs(files), e)
           /\ ~twin => Ordered(disk', Bufs(files'), Names(files'))
           /\ \A n \in Name : In(disk[n]) \subseteq In(disk'[n])
           /\ In(files[f].buf) \subseteq In(disk'[files[f].name])
<1>1. files \in Seq(LogFile) /\ f \in 1 .. Len(files)
  BY DEF Held, LoggerTypeOK, NoFile
<1>2. Store /\ (~twin => Ordered(disk, Bufs(files), Names(files)))
  BY Zenon DEF Entries, Order
<1>3. /\ disk \in [Name -> Seq(Entry)] /\ Apart(disk, Bufs(files))
      /\ \A e : Has(disk, Bufs(files), e) => e \in returned
  BY Zenon, <1>2 DEF Store
<1>4. disk' = AfterFlush(disk, files, f)
  BY Zenon DEF FlushTo, AfterFlush
<1>5. /\ disk' \in [Name -> Seq(Entry)] /\ Apart(disk', Bufs(files'))
      /\ \A e : Has(disk', Bufs(files'), e) <=> Has(disk, Bufs(files), e)
      /\ \A n \in Name : In(disk[n]) \subseteq In(disk'[n])
      /\ In(files[f].buf) \subseteq In(disk'[files[f].name])
  BY Zenon, <1>1, <1>3, <1>4, FlushData
<1>6. ~twin => Ordered(disk', Bufs(files'), Names(files'))
  <2> SUFFICES ASSUME ~twin PROVE Ordered(disk', Bufs(files'), Names(files'))
    BY Zenon
  <2>1. \A g \in 1 .. Len(files) : g # f /\ files[g].name = files[f].name => files[g].buf = <<>>
    BY Zenon, Alone
  <2>2. QED
    BY Zenon, <1>1, <1>2, <1>3, <1>4, <2>1, FlushDataOrder
<1>7. /\ \A g \in DOMAIN files' : ~files'[g].alive => files'[g].buf = <<>>
      /\ \A g \in DOMAIN files' : Len(files'[g].buf) <= LogFileCache
  <2>1. Len(<<>>) <= LogFileCache
    BY CacheAssumption
  <2>2. QED
    BY Zenon, <1>1, <1>2, <2>1, BuffersBounded
<1>8. Store'
  BY Zenon, <1>3, <1>5, <1>7 DEF Store
<1>9. QED
  BY Zenon, <1>5, <1>6, <1>8

(* The buffer of a LogFile that is destroyed before fclose is lost.        *)
LEMMA Dropping ==
    ASSUME Held, Entries, NEW f \in {file, backup_file}, f # NoFile,
           disk' = disk, SetBuf(files, files', f, <<>>), UNCHANGED <<returned, twin>>
    PROVE  /\ Store'
           /\ \A e : Has(disk, Bufs(files), e) /\ e \notin In(files[f].buf)
                        => Has(disk', Bufs(files'), e)
           /\ ~twin => Ordered(disk', Bufs(files'), Names(files'))
<1>1. files \in Seq(LogFile) /\ f \in 1 .. Len(files)
  BY DEF Held, LoggerTypeOK, NoFile
<1>2. Store /\ (~twin => Ordered(disk, Bufs(files), Names(files)))
  BY Zenon DEF Entries, Order
<1>3. /\ disk \in [Name -> Seq(Entry)] /\ Apart(disk, Bufs(files))
      /\ \A e : Has(disk, Bufs(files), e) => e \in returned
  BY Zenon, <1>2 DEF Store
<1>4. /\ Apart(disk, Bufs(files')) /\ \A e : Has(disk, Bufs(files'), e) => Has(disk, Bufs(files), e)
      /\ \A e : Has(disk, Bufs(files), e) /\ e \notin In(files[f].buf) => Has(disk, Bufs(files'), e)
      /\ Ordered(disk, Bufs(files), Names(files)) => Ordered(disk, Bufs(files'), Names(files'))
  BY Zenon, <1>1, <1>3, DropData
<1>5. /\ \A g \in DOMAIN files' : ~files'[g].alive => files'[g].buf = <<>>
      /\ \A g \in DOMAIN files' : Len(files'[g].buf) <= LogFileCache
  <2>1. Len(<<>>) <= LogFileCache
    BY CacheAssumption
  <2>2. QED
    BY Zenon, <1>1, <1>2, <2>1, BuffersBounded
<1>6. Store'
  BY Zenon, <1>3, <1>4, <1>5 DEF Store
<1>7. QED
  BY Zenon, <1>2, <1>4, <1>6

-----------------------------------------------------------------------------
(* What a step of t leaves alone.                                          *)
LEMMA SameData ==
    ASSUME Store, Accounted, Order,
           UNCHANGED <<files, disk, returned, late, file, backup_file, lock, twin>>
    PROVE  Store' /\ Accounted' /\ Order'
<1>1. Store'
  BY Zenon DEF Store
<1>2. Accounted'
  BY Zenon DEF Accounted
<1>3. Order'
  BY Zenon DEF Order
<1>4. QED
  BY Zenon, <1>1, <1>2, <1>3

LEMMA SameLifetimes ==
    ASSUME Held, Lifetimes, NEW t \in Thread, pc[t] \notin Changing,
           NEW l \in Labels \ Changing, Goto(t, l), UNCHANGED <<created, file, backup_file>>,
           \/ ptr' = ptr /\ l \notin {"write", "fflush"}
           \/ ptr' = [ptr EXCEPT ![t] = file] /\ file # NoFile,
           files' \in Seq(LogFile), Len(files') = Len(files),
           \A g \in 1 .. Len(files) : /\ files'[g].alive = files[g].alive
                                      /\ g \notin {file, backup_file} => files'[g] = files[g]
    PROVE  Lifetimes'
<1>1. pc \in [Thread -> Labels] /\ pc' = [pc EXCEPT ![t] = l]
  BY Zenon DEF Held, LoggerTypeOK, Goto
<1>2. pc'[t] = l /\ \A u \in Thread : u # t => pc'[u] = pc[u]
  BY Zenon, <1>1
<1>3. \A u \in Thread : pc'[u] \in Changing => u # t /\ pc[u] \in Changing
  BY Zenon, <1>2
<1>4. DOMAIN files' = 1 .. Len(files) /\ DOMAIN files = 1 .. Len(files)
  BY DEF Held, LoggerTypeOK
<1>5. Live' = Live
  BY Zenon, <1>4 DEF Live
<1>6. ptr' \in [Thread -> 0 .. Len(files)]
  BY Zenon DEF Lifetimes, Held, LoggerTypeOK
<1>7. ASSUME NEW u \in Thread, pc'[u] \in Changing
      PROVE  /\ files'[created[u]].buf = <<>>
             /\ \A w \in Thread : pc'[w] \in {"write", "fflush"} => ptr'[w] # created[u]
  <2>1. /\ files[created[u]].buf = <<>> /\ created[u] \in 1 .. Len(files)
        /\ created[u] \notin {file, backup_file}
    BY Zenon, <1>3, <1>7 DEF Lifetimes, Held, Owned, Changing
  <2>2. files'[created[u]].buf = <<>>
    BY Zenon, <2>1
  <2>3. ASSUME NEW w \in Thread, pc'[w] \in {"write", "fflush"} PROVE ptr'[w] # created[u]
    <3>1. CASE w # t
      <4>1. pc[w] \in {"write", "fflush"} /\ ptr'[w] = ptr[w]
        BY Zenon, <1>2, <2>3, <3>1 DEF Held, LoggerTypeOK
      <4>2. QED
        BY Zenon, <1>3, <1>7, <4>1 DEF Lifetimes
    <3>2. CASE w = t
      <4>1. ptr'[t] = file
        BY Zenon, <1>2, <2>3, <3>2 DEF Held, LoggerTypeOK
      <4>2. QED
        BY Zenon, <2>1, <3>2, <4>1
    <3>3. QED
      BY Zenon, <3>1, <3>2
  <2>4. QED
    BY Zenon, <2>2, <2>3
<1>8. \A u \in Thread : pc'[u] \notin Changing => created[u] = NoFile
  BY Zenon, <1>2 DEF Lifetimes
<1>9. QED
  BY <1>5, <1>6, <1>7, <1>8 DEF Lifetimes

LEMMA SameFresh ==
    ASSUME Held, Fresh, NEW t \in Thread, NEW l, Goto(t, l),
           l \notin {"load", "write"} \/ pc[t] \in {"load", "write"},
           UNCHANGED <<returned, entry, calls>>
    PROVE  Fresh'
<1>1. pc'[t] = l /\ \A u \in Thread : u # t => pc'[u] = pc[u]
  BY Zenon DEF Held, LoggerTypeOK, Goto
<1>2. \A u \in Thread : pc'[u] \in {"load", "write"} => pc[u] \in {"load", "write"}
  BY Zenon, <1>1
<1>3. QED
  BY Zenon, <1>2 DEF Fresh

LEMMA OthersFatal ==
    ASSUME FatalKept, NEW t \in Thread, UNCHANGED <<file, file_name>>,
           \A u \in Thread : u # t => /\ pc'[u] = pc[u] /\ fatal'[u] = fatal[u]
                                      /\ entry'[u] = entry[u] /\ moves'[u] = moves[u],
           In(disk[file_name]) \subseteq In(disk'[file_name]),
           file # NoFile => In(disk[file_name]) \cup In(files[file].buf)
                               \subseteq In(disk'[file_name]) \cup In(files'[file].buf),
           FatalEntry(t)'
    PROVE  FatalKept'
<1>1. ASSUME NEW u \in Thread, u # t PROVE FatalEntry(u)'
  <2>1. FatalEntry(u)
    BY Zenon DEF FatalKept
  <2>2. QED
    BY Zenon, <1>1, <2>1 DEF FatalEntry
<1>2. QED
  BY Zenon, <1>1 DEF FatalKept

(* A step that ends the process without touching anything.                 *)
LEMMA DiesKeeps ==
    ASSUME Entries, UNCHANGED <<locals, logger, files, disk, calls, history>>
    PROVE  Entries'
<1>1. UNCHANGED <<pc, ptr, entry, fatal, created, file, backup_file, file_name, lock, files,
                  disk, calls, returned, late, moves, twin>>
  BY Zenon DEF locals, logger, history
<1>2. Store' /\ Accounted' /\ Order'
  BY Zenon, <1>1, SameData DEF Entries
<1>3. Fresh' /\ FatalKept'
  BY Zenon, <1>1 DEF Entries, Fresh, FatalKept, FatalEntry
<1>4. Lifetimes'
  BY <1>1 DEF Entries, Lifetimes, Live
<1>5. QED
  BY Zenon, <1>2, <1>3, <1>4 DEF Entries

(* A step of t that only begins a call or reads file_.                     *)
LEMMA CalmStep ==
    ASSUME Held, Entries, NEW t \in Thread, pc[t] \notin Changing,
           NEW l \in Labels \ Changing, Goto(t, l),
           UNCHANGED <<created, logger, files, disk, returned, late, twin>>,
           \/ ptr' = ptr /\ l \notin {"write", "fflush"}
           \/ ptr' = [ptr EXCEPT ![t] = file] /\ file # NoFile,
           \A u \in Thread : u # t => /\ fatal'[u] = fatal[u] /\ entry'[u] = entry[u]
                                      /\ moves'[u] = moves[u],
           Fresh', FatalEntry(t)'
    PROVE  Entries'
<1>1. UNCHANGED <<file, backup_file, file_name, lock>>
  BY Zenon DEF logger
<1>2. Store' /\ Accounted' /\ Order'
  BY Zenon, <1>1, SameData DEF Entries
<1>3. files' \in Seq(LogFile) /\ files' = files
  BY Zenon DEF Held, LoggerTypeOK
<1>4. Lifetimes'
  BY Zenon, <1>1, <1>3, SameLifetimes DEF Entries
<1>5. \A u \in Thread : u # t => pc'[u] = pc[u]
  BY Zenon DEF Goto, Held, LoggerTypeOK
<1>6. FatalKept'
  BY Zenon, <1>1, <1>5, OthersFatal DEF Entries
<1>7. QED
  BY Zenon, <1>2, <1>4, <1>6 DEF Entries

LEMMA LogKeeps ==
    ASSUME Held, Held', Entries, NEW t \in Thread, NEW how, Log(t, how)
    PROVE  Entries'
<1>1. /\ pc[t] = "idle" /\ Goto(t, "load") /\ calls' = calls + 1 /\ calls \in Nat
      /\ entry' = [entry EXCEPT ![t] = <<t, calls + 1>>] /\ fatal' = [fatal EXCEPT ![t] = how]
      /\ UNCHANGED <<ptr, created, logger, files, disk, returned, late, moves, twin>>
  BY Zenon DEF Log, At, history, Held, LoggerTypeOK
<1>2. /\ entry'[t] = <<t, calls + 1>>
      /\ \A u \in Thread : u # t => entry'[u] = entry[u] /\ fatal'[u] = fatal[u]
  BY Zenon, <1>1 DEF Held, LoggerTypeOK
<1>3. pc'[t] = "load" /\ \A u \in Thread : u # t => pc'[u] = pc[u]
  BY Zenon, <1>1 DEF Goto, Held, LoggerTypeOK
<1>4. Fresh'
  <2>1. returned \subseteq Thread \X (1 .. calls + 1)
    BY <1>1 DEF Entries, Fresh
  <2>2. ASSUME NEW u \in Thread, pc'[u] \in {"load", "write"}
        PROVE  /\ entry'[u][1] = u /\ entry'[u][2] \in 1 .. calls + 1
               /\ \A e \in returned : e[1] = u => e[2] < entry'[u][2]
    <3>1. CASE u = t
      <4>1. entry'[t][1] = t /\ entry'[t][2] = calls + 1
        BY <1>2
      <4>2. \A e \in returned : e[2] \in 1 .. calls
        BY Zenon DEF Entries, Fresh
      <4>3. QED
        BY <1>1, <3>1, <4>1, <4>2
    <3>2. CASE u # t
      <4>1. /\ entry[u][1] = u /\ entry[u][2] \in 1 .. calls
            /\ \A e \in returned : e[1] = u => e[2] < entry[u][2]
        BY Zenon, <1>3, <2>2, <3>2 DEF Entries, Fresh
      <4>2. QED
        BY <1>1, <1>2, <3>2, <4>1
    <3>3. QED
      BY Zenon, <3>1, <3>2
  <2>3. QED
    BY Zenon, <1>1, <2>1, <2>2 DEF Fresh
<1>5. FatalEntry(t)'
  BY Zenon, <1>3 DEF FatalEntry
<1>6. "load" \in Labels \ Changing
  BY Zenon DEF Labels, Changing
<1>7. pc[t] \notin Changing
  BY Zenon, <1>1 DEF Changing
<1>8. QED
  BY Zenon, <1>1, <1>2, <1>4, <1>5, <1>6, <1>7, CalmStep

LEMMA LoadKeeps ==
    ASSUME Held, Entries, NEW t \in Thread, LoadFile(t) \/ ReloadFile(t)
    PROVE  Entries'
<1>1. CASE file = NoFile
  BY Zenon, <1>1, DiesKeeps DEF LoadFile, ReloadFile, Dies
<1>2. CASE file # NoFile
  <2>1. PICK l \in {"write", "fflush"} :
           /\ Goto(t, l) /\ ptr' = [ptr EXCEPT ![t] = file]
           /\ l = "write" => pc[t] = "load"
           /\ l = "fflush" => pc[t] = "reload" /\ moves' = moves
           /\ UNCHANGED <<entry, fatal, created, logger, files, disk, calls, returned, late, twin>>
    BY Zenon, <1>2 DEF LoadFile, ReloadFile, At, outside, history
  <2>2. \A u \in Thread : u # t => moves'[u] = moves[u]
    BY Zenon, <1>2 DEF LoadFile, ReloadFile, history, Held, LoggerTypeOK
  <2>3. pc'[t] = l
    BY Zenon, <2>1 DEF Goto, Held, LoggerTypeOK
  <2>4. Fresh'
    <3>1. l \notin {"load", "write"} \/ pc[t] \in {"load", "write"}
      BY Zenon, <2>1
    <3>2. QED
      BY Zenon, <2>1, <3>1, SameFresh DEF Entries
  <2>5. FatalEntry(t)'
    <3>1. FatalEntry(t)
      BY Zenon DEF Entries, FatalKept
    <3>2. UNCHANGED <<file, file_name>>
      BY Zenon, <2>1 DEF logger
    <3>3. QED
      BY Zenon, <2>1, <2>3, <3>1, <3>2 DEF FatalEntry
  <2>6. l \in Labels \ Changing /\ pc[t] \notin Changing
    BY Zenon, <2>1 DEF Labels, Changing
  <2>7. QED
    BY Zenon, <1>2, <2>1, <2>2, <2>4, <2>5, <2>6, CalmStep
<1>3. QED
  BY Zenon, <1>1, <1>2

LEMMA BeginFlushKeeps ==
    ASSUME Held, Entries, NEW t \in Thread, Flush(t)
    PROVE  Entries'
<1>1. /\ pc[t] = "idle" /\ Goto(t, "flush") /\ fatal' = [fatal EXCEPT ![t] = "no"]
      /\ moves' = [moves EXCEPT ![t] = 0]
      /\ UNCHANGED <<ptr, entry, created, logger, files, disk, calls, returned, late, twin>>
  BY Zenon DEF Flush, At, outside
<1>2. fatal'[t] = "no" /\ \A u \in Thread : u # t => fatal'[u] = fatal[u] /\ moves'[u] = moves[u]
  BY Zenon, <1>1 DEF Held, LoggerTypeOK
<1>3. FatalEntry(t)'
  BY Zenon, <1>2 DEF FatalEntry
<1>4. Fresh'
  BY Zenon, <1>1, SameFresh DEF Entries
<1>5. "flush" \in Labels \ Changing /\ pc[t] \notin Changing
  BY Zenon, <1>1 DEF Labels, Changing
<1>6. QED
  BY Zenon, <1>1, <1>2, <1>3, <1>4, <1>5, CalmStep

LEMMA TestKeeps ==
    ASSUME Held, Entries, NEW t \in Thread, TestFile(t)
    PROVE  Entries'
<1>1. PICK l \in {"idle", "reload", "aborted"} :
         /\ Goto(t, l)
         /\ l = "idle" => fatal[t] = "no"
         /\ l = "aborted" => file = NoFile
  BY Zenon DEF TestFile, FlushReturns
<1>2. /\ pc[t] = "flush"
      /\ UNCHANGED <<ptr, entry, fatal, created, logger, files, disk, calls,
                     returned, late, moves, twin>>
  BY Zenon DEF TestFile, At, history
<1>3. pc'[t] = l
  BY Zenon, <1>1 DEF Goto, Held, LoggerTypeOK
<1>4. FatalEntry(t)'
  <2>1. FatalEntry(t)
    BY Zenon DEF Entries, FatalKept
  <2>2. UNCHANGED <<file, file_name>>
    BY Zenon, <1>2 DEF logger
  <2>3. QED
    BY Zenon, <1>1, <1>2, <1>3, <2>1, <2>2 DEF FatalEntry
<1>5. Fresh'
  BY Zenon, <1>1, <1>2, SameFresh DEF Entries
<1>6. l \in Labels \ Changing /\ pc[t] \notin Changing
  BY Zenon, <1>2 DEF Labels, Changing
<1>7. QED
  BY Zenon, <1>1, <1>2, <1>4, <1>5, <1>6, CalmStep

-----------------------------------------------------------------------------
(* A LogFile that a thread writes or flushes, if alive, is in use.         *)
LEMMA WriterFile ==
    ASSUME Held, Entries, NEW t \in Thread, pc[t] \in {"write", "fflush"}, files[ptr[t]].alive
    PROVE  ptr[t] \in 1 .. Len(files) /\ ptr[t] \in {file, backup_file} /\ ptr[t] # NoFile
<1>1. ptr[t] \in 1 .. Len(files) /\ DOMAIN files = 1 .. Len(files)
  BY DEF Held, Pointers, LoggerTypeOK
<1>2. ptr[t] # NoFile
  BY <1>1 DEF NoFile
<1>3. ptr[t] \in {file, backup_file} \cup {created[u] : u \in Thread}
  BY Zenon, <1>1 DEF Entries, Lifetimes, Live
<1>4. ASSUME NEW u \in Thread, ptr[t] = created[u] PROVE FALSE
  BY Zenon, <1>2, <1>4 DEF Entries, Lifetimes
<1>5. QED
  BY Zenon, <1>1, <1>2, <1>3, <1>4

LEMMA EmptiedSet ==
    ASSUME files \in Seq(LogFile), NEW f \in 1 .. Len(files)
    PROVE  SetBuf(files, Emptied(f), f, <<>>) /\ Emptied(f)[f].alive = files[f].alive
<1>1. PICK s \in Seq(LogFile) : s = files
  BY Zenon
<1>2. <<>> \in Seq(Entry)
  OBVIOUS
<1>3. PICK b \in Seq(Entry) : b = <<>>
  BY Zenon, <1>2
<1>4. f \in 1 .. Len(s)
  BY Zenon, <1>1
<1>5. SetBuf(s, [s EXCEPT ![f].buf = b], f, b) /\ [s EXCEPT ![f].buf = b][f].alive = s[f].alive
  BY Zenon, <1>4, BufferSet
<1>6. Emptied(f) = [s EXCEPT ![f].buf = b]
  BY Zenon, <1>1, <1>3 DEF Emptied
<1>7. QED
  BY Zenon, <1>1, <1>3, <1>5, <1>6

(* After a flush or a loss, the late entries are as they were.             *)
LEMMA AccountedSet ==
    ASSUME Held, Accounted, NEW f \in 1 .. Len(files), SetBuf(files, files', f, <<>>),
           UNCHANGED <<returned, late>>,
           \A e \in returned \ late : Has(disk, Bufs(files), e) => Has(disk', Bufs(files'), e),
           \A g \in 1 .. Len(files) : g # file' \/ lock' # NoThread =>
               g = f \/ g # file \/ lock # NoThread
    PROVE  Accounted'
<1>1. DOMAIN files' = 1 .. Len(files) /\ DOMAIN files = 1 .. Len(files)
  BY DEF Held, LoggerTypeOK, SetBuf
<1>2. ASSUME NEW g \in 1 .. Len(files), g # file' \/ lock' # NoThread
      PROVE  In(files'[g].buf) \subseteq late
  <2>1. CASE g = f
    BY Zenon, <2>1, EmptySeq DEF SetBuf
  <2>2. CASE g # f
    BY Zenon, <1>1, <1>2, <2>2 DEF SetBuf, Accounted
  <2>3. QED
    BY Zenon, <2>1, <2>2
<1>3. QED
  BY Zenon, <1>1, <1>2 DEF Accounted

(* What LogFatal waits for is still there after a flush.                   *)
LEMMA FatalFlushed ==
    ASSUME Held, Entries, NEW f \in {file, backup_file}, f \in 1 .. Len(files),
           SetBuf(files, files', f, <<>>),
           \A n \in Name : In(disk[n]) \subseteq In(disk'[n]),
           In(files[f].buf) \subseteq In(disk'[files[f].name])
    PROVE  /\ In(disk[file_name]) \subseteq In(disk'[file_name])
           /\ file # NoFile => In(disk[file_name]) \cup In(files[file].buf)
                                  \subseteq In(disk'[file_name]) \cup In(files'[file].buf)
<1>1. In(disk[file_name]) \subseteq In(disk'[file_name])
  BY Zenon DEF Entries, FatalKept
<1>2. ASSUME file # NoFile
      PROVE  In(files[file].buf) \subseteq In(disk'[file_name]) \cup In(files'[file].buf)
  <2>1. files[file].name = file_name /\ file \in 1 .. Len(files)
    BY <1>2 DEF Held, Owned, LoggerTypeOK, NoFile
  <2>2. CASE f = file
    BY Zenon, <2>1, <2>2
  <2>3. CASE f # file
    BY Zenon, <2>1, <2>3 DEF SetBuf
  <2>4. QED
    BY Zenon, <2>2, <2>3
<1>3. QED
  BY Zenon, <1>1, <1>2

(* file_->Flush() on what the thread loaded.                               *)
LEMMA FlushFileKeeps ==
    ASSUME Held, Entries, NEW t \in Thread, FlushFile(t)
    PROVE  Entries'
<1>1. CASE ~files[ptr[t]].alive
  BY Zenon, <1>1, DiesKeeps DEF FlushFile, Dies
<1>2. CASE files[ptr[t]].alive
  <2>1. PICK f : f = ptr[t]
    BY Zenon
  <2>2. /\ pc[t] = "fflush" /\ disk' = FlushTo(disk, f) /\ files' = Emptied(f)
        /\ UNCHANGED <<ptr, entry, fatal, created, logger, calls, returned, late, moves, twin>>
    BY Zenon, <1>2, <2>1 DEF FlushFile, At, history
  <2>3. PICK l \in {"idle", "aborted"} : Goto(t, l) /\ (l = "idle" => fatal[t] = "no")
    BY Zenon, <1>2 DEF FlushFile, FlushReturns
  <2>4. f \in 1 .. Len(files) /\ f \in {file, backup_file} /\ f # NoFile
    BY Zenon, <1>2, <2>1, <2>2, WriterFile
  <2>5. UNCHANGED <<file, backup_file, file_name, lock>>
    BY Zenon, <2>2 DEF logger
  <2>6. files \in Seq(LogFile) /\ SetBuf(files, files', f, <<>>) /\ files'[f].alive = files[f].alive
    BY Zenon, <2>2, <2>4, EmptiedSet DEF Held, LoggerTypeOK
  <2>7. /\ Store' /\ \A e : Has(disk', Bufs(files'), e) <=> Has(disk, Bufs(files), e)
        /\ ~twin => Ordered(disk', Bufs(files'), Names(files'))
        /\ \A n \in Name : In(disk[n]) \subseteq In(disk'[n])
        /\ In(files[f].buf) \subseteq In(disk'[files[f].name])
    BY Zenon, <2>2, <2>4, <2>6, Flushing
  <2>8. Accounted'
    BY Zenon, <2>2, <2>4, <2>5, <2>6, <2>7, AccountedSet DEF Entries
  <2>9. Order'
    <3>1. \A g \in 1 .. Len(files) : files'[g].name = files[g].name
      BY Zenon, <2>6 DEF SetBuf
    <3>2. file \in 0 .. Len(files) /\ backup_file \in 0 .. Len(files)
      BY Zenon DEF Held, LoggerTypeOK
    <3>3. QED
      BY <2>2, <2>5, <2>7, <3>1, <3>2 DEF Entries, Order, NoFile
  <2>10. Fresh'
    BY Zenon, <2>2, <2>3, SameFresh DEF Entries
  <2>11. pc[t] \notin Changing /\ l \in Labels \ Changing
    BY Zenon, <2>2 DEF Changing, Labels
  <2>12. Lifetimes'
    <3>1. \A g \in 1 .. Len(files) : /\ files'[g].alive = files[g].alive
                                     /\ g \notin {file, backup_file} => files'[g] = files[g]
      BY Zenon, <2>4, <2>6 DEF SetBuf
    <3>2. files' \in Seq(LogFile) /\ Len(files') = Len(files)
      BY Zenon, <2>6 DEF SetBuf
    <3>3. QED
      BY Zenon, <2>2, <2>3, <2>5, <2>11, <3>1, <3>2, SameLifetimes DEF Entries
  <2>13. FatalKept'
    <3>1. /\ In(disk[file_name]) \subseteq In(disk'[file_name])
          /\ file # NoFile => In(disk[file_name]) \cup In(files[file].buf)
                                 \subseteq In(disk'[file_name]) \cup In(files'[file].buf)
      BY Zenon, <2>4, <2>6, <2>7, FatalFlushed
    <3>2. pc'[t] = l /\ \A u \in Thread : u # t => pc'[u] = pc[u]
      BY Zenon, <2>3 DEF Goto, Held, LoggerTypeOK
    <3>3. FatalEntry(t)'
      <4> SUFFICES ASSUME fatal[t] = "LogFatal", moves[t] = 0, l = "aborted"
                   PROVE  entry[t] \in In(disk'[file_name])
        BY Zenon, <2>2, <2>3, <2>5, <3>2 DEF FatalEntry
      <4>2. f = file /\ files[file].name = file_name
        BY Zenon, <2>1, <2>2, <2>4 DEF Held, Pointers, Owned
      <4>3. entry[t] \in In(disk[file_name]) \cup In(files[file].buf)
        BY Zenon, <2>2 DEF Entries, FatalKept, FatalEntry
      <4>4. QED
        BY Zenon, <2>7, <3>1, <4>2, <4>3
    <3>4. QED
      BY Zenon, <2>2, <2>5, <3>1, <3>2, <3>3, OthersFatal DEF Entries
  <2>14. QED
    BY Zenon, <2>7, <2>8, <2>9, <2>10, <2>12, <2>13 DEF Entries
<1>3. QED
  BY Zenon, <1>1, <1>2

(* LockAndFlush, ChangeLoggerFile's flush.                                 *)
LEMMA LockKeeps ==
    ASSUME Held, Entries, NEW t \in Thread, LockAndFlush(t)
    PROVE  Entries'
<1>1. /\ pc[t] = "lock" /\ Goto(t, "move") /\ lock = NoThread /\ lock' = t
      /\ disk' = FlushTo(disk, file) /\ files' = Emptied(file)
      /\ UNCHANGED <<ptr, entry, fatal, created, file, backup_file, file_name, calls,
                     returned, late, moves, twin>>
  BY Zenon DEF LockAndFlush, At, history
<1>2. file # NoFile
  BY Zenon, <1>1, ThreadAssumption DEF Held, Mutex, Rotating
<1>3. file \in 1 .. Len(files) /\ files \in Seq(LogFile)
  BY <1>2 DEF Held, LoggerTypeOK, NoFile
<1>4. SetBuf(files, files', file, <<>>) /\ files'[file].alive = files[file].alive
  BY Zenon, <1>1, <1>3, EmptiedSet
<1>5. PICK f \in {file, backup_file} : f = file
  BY Zenon
<1>6. /\ Store' /\ \A e : Has(disk', Bufs(files'), e) <=> Has(disk, Bufs(files), e)
      /\ ~twin => Ordered(disk', Bufs(files'), Names(files'))
      /\ \A n \in Name : In(disk[n]) \subseteq In(disk'[n])
      /\ In(files[f].buf) \subseteq In(disk'[files[f].name])
  BY Zenon, <1>1, <1>2, <1>4, <1>5, Flushing
<1>7. Accounted'
  BY Zenon, <1>1, <1>3, <1>4, <1>5, <1>6, AccountedSet DEF Entries
<1>8. Order'
  <2>1. \A g \in 1 .. Len(files) : files'[g].name = files[g].name
    BY Zenon, <1>4 DEF SetBuf
  <2>2. file \in 0 .. Len(files) /\ backup_file \in 0 .. Len(files)
    BY Zenon DEF Held, LoggerTypeOK
  <2>3. QED
    BY <1>1, <1>6, <2>1, <2>2 DEF Entries, Order, NoFile
<1>9. Fresh'
  BY Zenon, <1>1, SameFresh DEF Entries
<1>10. pc'[t] = "move" /\ \A u \in Thread : u # t => pc'[u] = pc[u]
  BY Zenon, <1>1 DEF Goto, Held, LoggerTypeOK
<1>11. Lifetimes'
  <2>1. \A u \in Thread : /\ pc'[u] \in Changing <=> pc[u] \in Changing
                          /\ pc'[u] \in {"write", "fflush"} <=> pc[u] \in {"write", "fflush"}
    BY Zenon, <1>1, <1>10 DEF Changing
  <2>2. DOMAIN files' = 1 .. Len(files) /\ DOMAIN files = 1 .. Len(files) /\ Len(files') = Len(files)
    BY <1>3, <1>4 DEF SetBuf
  <2>3. \A g \in 1 .. Len(files) : files'[g].alive = files[g].alive
    BY Zenon, <1>4 DEF SetBuf
  <2>4. Live' = Live
    BY Zenon, <2>2, <2>3 DEF Live
  <2>5. \A u \in Thread : pc[u] \in Changing => files'[created[u]].buf = <<>>
    <3>1. \A u \in Thread : pc[u] \in Changing =>
             /\ files[created[u]].buf = <<>> /\ created[u] \in 1 .. Len(files) /\ created[u] # file
      BY Zenon DEF Entries, Lifetimes, Held, Owned, Changing
    <3>2. QED
      BY Zenon, <1>4, <3>1 DEF SetBuf
  <2>6. QED
    BY Zenon, <1>1, <2>1, <2>2, <2>4, <2>5 DEF Entries, Lifetimes
<1>12. FatalKept'
  <2>1. /\ In(disk[file_name]) \subseteq In(disk'[file_name])
        /\ file # NoFile => In(disk[file_name]) \cup In(files[file].buf)
                               \subseteq In(disk'[file_name]) \cup In(files'[file].buf)
    BY Zenon, <1>3, <1>4, <1>5, <1>6, FatalFlushed
  <2>2. FatalEntry(t)'
    BY Zenon, <1>10 DEF FatalEntry
  <2>3. QED
    BY Zenon, <1>1, <1>10, <2>1, <2>2, OthersFatal DEF Entries
<1>13. QED
  BY Zenon, <1>6, <1>7, <1>8, <1>9, <1>11, <1>12 DEF Entries

(* The steps on the data, as relations between before and after.           *)
Stored(D, s) == s \in Seq(LogFile) /\ D \in [Name -> Seq(Entry)] /\ Apart(D, Bufs(s))
Flushes(D, s, f, D2, r) ==
    f \in 1 .. Len(s) /\ SetBuf(s, r, f, <<>>) /\ D2 = AfterFlush(D, s, f)
Adds(s, f, e, r) == f \in 1 .. Len(s) /\ e \in Entry /\ SetBuf(s, r, f, Append(s[f].buf, e))
OnlyOne(s, f) ==
    \A g \in 1 .. Len(s) : g # f /\ s[g].name = s[f].name => s[g].buf = <<>>
Youngest(D, s, e) ==
    ~Has(D, Bufs(s), e) /\ \A x : Has(D, Bufs(s), x) /\ x[1] = e[1] => x[2] < e[2]
InOrderAll(D, s) == Ordered(D, Bufs(s), Names(s))
SameEntries(D, s, D2, r) == \A x : Has(D2, Bufs(r), x) <=> Has(D, Bufs(s), x)
OneMore(D, s, e, D2, r) == \A x : Has(D2, Bufs(r), x) <=> Has(D, Bufs(s), x) \/ x = e

LEMMA FlushRel ==
    ASSUME NEW D, NEW s, NEW f, NEW D2, NEW r, Stored(D, s), Flushes(D, s, f, D2, r)
    PROVE  /\ Stored(D2, r) /\ SameEntries(D, s, D2, r)
           /\ OnlyOne(s, f) /\ InOrderAll(D, s) => InOrderAll(D2, r)
<1>1. Apart(D2, Bufs(r)) /\ D2 \in [Name -> Seq(Entry)] /\ SameEntries(D, s, D2, r)
  BY Zenon, FlushData DEF Stored, Flushes, SameEntries
<1>2. ASSUME OnlyOne(s, f), InOrderAll(D, s) PROVE InOrderAll(D2, r)
  BY Zenon, <1>2, FlushDataOrder DEF Stored, Flushes, OnlyOne, InOrderAll
<1>3. r \in Seq(LogFile)
  BY Zenon DEF Flushes, SetBuf
<1>4. QED
  BY Zenon, <1>1, <1>2, <1>3 DEF Stored

LEMMA AddRel ==
    ASSUME NEW D, NEW s, NEW f, NEW e, NEW r, Stored(D, s), Adds(s, f, e, r), Youngest(D, s, e)
    PROVE  /\ Stored(D, r) /\ OneMore(D, s, e, D, r)
           /\ InOrderAll(D, s) => InOrderAll(D, r)
<1>1. /\ Apart(D, Bufs(r)) /\ OneMore(D, s, e, D, r)
      /\ InOrderAll(D, s) => InOrderAll(D, r)
  BY Zenon, AddData DEF Stored, Adds, Youngest, InOrderAll, OneMore
<1>2. r \in Seq(LogFile)
  BY Zenon DEF Adds, SetBuf
<1>3. QED
  BY Zenon, <1>1, <1>2 DEF Stored

(* The first entry after a full buffer f of s went to disk.                *)
LEMMA FullRel ==
    ASSUME NEW D, NEW s, NEW f, NEW e, NEW D2, NEW m, NEW r, Stored(D, s),
           Flushes(D, s, f, D2, m), Adds(m, f, e, r), Youngest(D, s, e)
    PROVE  /\ Stored(D2, r) /\ OneMore(D, s, e, D2, r)
           /\ OnlyOne(s, f) /\ InOrderAll(D, s) => InOrderAll(D2, r)
<1>1. /\ Stored(D2, m) /\ SameEntries(D, s, D2, m)
      /\ OnlyOne(s, f) /\ InOrderAll(D, s) => InOrderAll(D2, m)
  BY Zenon, FlushRel
<1>2. Youngest(D2, m, e)
  BY Zenon, <1>1 DEF Youngest, SameEntries
<1>3. Stored(D2, r) /\ OneMore(D2, m, e, D2, r) /\ (InOrderAll(D2, m) => InOrderAll(D2, r))
  BY Zenon, <1>1, <1>2, AddRel
<1>4. OneMore(D, s, e, D2, r)
  BY Zenon, <1>1, <1>3 DEF OneMore, SameEntries
<1>5. QED
  BY Zenon, <1>1, <1>3, <1>4

(* fwrite, into a buffer with room or after emptying a full one.           *)
LEMMA Writing ==
    ASSUME Held, Entries, NEW f \in {file, backup_file}, f \in 1 .. Len(files), f # NoFile,
           NEW e \in Entry, Youngest(disk, files, e), Write(f, e)
    PROVE  /\ SetBuf(files, files', f, files'[f].buf) /\ files'[f].alive = files[f].alive
           /\ Stored(disk', files') /\ OneMore(disk, files, e, disk', files')
           /\ ~twin => InOrderAll(disk', files')
           /\ \A n \in Name : In(disk[n]) \subseteq In(disk'[n])
           /\ In(files[f].buf) \subseteq In(disk'[files[f].name]) \cup In(files'[f].buf)
           /\ In(files'[f].buf) \subseteq In(files[f].buf) \cup {e} /\ e \in In(files'[f].buf)
           /\ Len(files'[f].buf) <= LogFileCache
<1>1. files \in Seq(LogFile) /\ files[f].buf \in Seq(Entry)
  BY Zenon, BufsType DEF Held, LoggerTypeOK
<1>2. Stored(disk, files) /\ Len(files[f].buf) <= LogFileCache
  BY SMTT(20), <1>1 DEF Entries, Store, Stored
<1>3. ~twin => InOrderAll(disk, files) /\ OnlyOne(files, f)
  <2>1. ~twin => InOrderAll(disk, files)
    BY Zenon DEF Entries, Order, InOrderAll
  <2>2. ~twin => OnlyOne(files, f)
    BY Zenon, Alone DEF OnlyOne
  <2>3. QED
    BY Zenon, <2>1, <2>2
<1>4. CASE Len(files[f].buf) # LogFileCache
  <2>1. disk' = disk /\ files' = [files EXCEPT ![f].buf = Append(files[f].buf, e)]
    BY Zenon, <1>1, <1>4 DEF Write
  <2>2. Append(files[f].buf, e) \in Seq(Entry)
    BY <1>1
  <2>3. PICK b \in Seq(Entry) : b = Append(files[f].buf, e)
    BY Zenon, <2>2
  <2>4. files' = [files EXCEPT ![f].buf = b]
    BY Zenon, <2>1, <2>3
  <2>5. SetBuf(files, files', f, b) /\ files'[f].alive = files[f].alive
    BY Zenon, <1>1, <2>4, BufferSet
  <2>6. files'[f].buf = b
    BY Zenon, <2>5 DEF SetBuf
  <2>7. Adds(files, f, e, files')
    BY Zenon, <2>3, <2>5 DEF Adds
  <2>8. /\ Stored(disk, files') /\ OneMore(disk, files, e, disk, files')
        /\ InOrderAll(disk, files) => InOrderAll(disk, files')
    BY Zenon, <1>2, <2>7, AddRel
  <2>9. In(b) = In(files[f].buf) \cup {e}
    BY Zenon, <1>1, <2>3, InAppend
  <2>10. Len(b) <= LogFileCache
    BY <1>1, <1>2, <1>4, <2>3, CacheAssumption
  <2>11. QED
    BY Zenon, <1>3, <2>1, <2>5, <2>6, <2>8, <2>9, <2>10
<1>5. CASE Len(files[f].buf) = LogFileCache
  <2>1. PICK m : m = Emptied(f)
    BY Zenon
  <2>2. SetBuf(files, m, f, <<>>)
    BY Zenon, <1>1, <2>1, EmptiedSet
  <2>3. disk' = AfterFlush(disk, files, f)
    BY Zenon, <1>5 DEF Write, FlushTo, AfterFlush
  <2>4. Flushes(disk, files, f, disk', m)
    BY Zenon, <2>2, <2>3 DEF Flushes
  <2>5. <<e>> \in Seq(Entry) /\ Len(<<e>>) = 1
    OBVIOUS
  <2>6. PICK b \in Seq(Entry) : b = <<e>>
    BY Zenon, <2>5
  <2>7. files' = [files EXCEPT ![f].buf = b]
    BY Zenon, <1>5, <2>6 DEF Write
  <2>8. SetBuf(files, files', f, b) /\ files'[f].alive = files[f].alive
    BY Zenon, <1>1, <2>7, BufferSet
  <2>9. files'[f].buf = b
    BY Zenon, <2>8 DEF SetBuf
  <2>10. Adds(m, f, e, files')
    <3>1. m[f].buf = <<>> /\ Len(m) = Len(files) /\ SetBuf(m, files', f, b)
      BY Zenon, <2>2, <2>8 DEF SetBuf
    <3>2. b = Append(m[f].buf, e)
      BY <2>6, <3>1
    <3>3. QED
      BY Zenon, <3>1, <3>2 DEF Adds
  <2>11. /\ Stored(disk', files') /\ OneMore(disk, files, e, disk', files')
         /\ OnlyOne(files, f) /\ InOrderAll(disk, files) => InOrderAll(disk', files')
    BY Zenon, <1>2, <2>4, <2>10, FullRel
  <2>12. /\ \A n \in Name : In(disk[n]) \subseteq In(disk'[n])
         /\ In(files[f].buf) \subseteq In(disk'[files[f].name])
    BY Zenon, <1>2, <2>2, <2>3, FlushData DEF Stored
  <2>13. In(b) = {e} /\ Len(b) <= LogFileCache
    BY <1>1, <2>5, <2>6, InAppend, CacheAssumption
  <2>14. QED
    BY Zenon, <1>3, <2>8, <2>9, <2>11, <2>12, <2>13
<1>6. QED
  BY Zenon, <1>4, <1>5

(* A thread's entry is younger than all that it has logged.                *)
LEMMA EntryYoungest ==
    ASSUME Held, Entries, NEW t \in Thread, pc[t] = "write"
    PROVE  /\ entry[t] \in Entry /\ Youngest(disk, files, entry[t])
           /\ entry[t][1] = t /\ entry[t] \in Thread \X (1 .. calls)
<1>1. entry[t] \in Entry /\ calls \in Nat
  BY Zenon DEF Held, LoggerTypeOK
<1>2. /\ entry[t][1] = t /\ entry[t][2] \in 1 .. calls
      /\ \A e \in returned : e[1] = t => e[2] < entry[t][2]
  BY Zenon DEF Entries, Fresh
<1>3. \A x : Has(disk, Bufs(files), x) /\ x[1] = entry[t][1] => x[2] < entry[t][2]
  BY Zenon, <1>2 DEF Entries, Store
<1>4. ~Has(disk, Bufs(files), entry[t])
  BY <1>2, <1>3
<1>5. entry[t] \in Thread \X (1 .. calls)
  BY Zenon, <1>1, <1>2 DEF Entry
<1>6. QED
  BY Zenon, <1>1, <1>2, <1>3, <1>4, <1>5 DEF Youngest

LEMMA WriteKeeps ==
    ASSUME Held, Entries, NEW t \in Thread, WriteEntry(t)
    PROVE  Entries'
<1>1. CASE ~files[ptr[t]].alive \/ ~files[ptr[t]].open
  BY Zenon, <1>1, DiesKeeps DEF WriteEntry, Dies
<1>2. CASE files[ptr[t]].alive /\ files[ptr[t]].open
  <2>1. PICK f, e : f = ptr[t] /\ e = entry[t]
    BY Zenon
  <2>2. /\ pc[t] = "write" /\ Write(f, e) /\ Kept(t) /\ Written(t)
        /\ UNCHANGED <<ptr, entry, fatal, created, logger, calls, moves, twin>>
    BY Zenon, <1>2, <2>1 DEF WriteEntry, At
  <2>3. fatal[t] \in {"no", "LogFatal", "VFatal"}
    BY Zenon DEF Held, LoggerTypeOK
  <2>4. PICK l \in {"idle", "flush", "aborted"} : Goto(t, l) /\ (fatal[t] = "LogFatal" => l = "flush")
    BY Zenon, <2>2, <2>3 DEF Written
  <2>5. UNCHANGED <<file, backup_file, file_name, lock>>
    BY Zenon, <2>2 DEF logger
  <2>6. f \in 1 .. Len(files) /\ f \in {file, backup_file} /\ f # NoFile
    BY Zenon, <1>2, <2>1, <2>2, WriterFile
  <2>7. /\ e \in Entry /\ Youngest(disk, files, e) /\ e[1] = t /\ e \in Thread \X (1 .. calls)
    BY Zenon, <2>1, <2>2, EntryYoungest
  <2>8. /\ SetBuf(files, files', f, files'[f].buf) /\ files'[f].alive = files[f].alive
        /\ Stored(disk', files') /\ OneMore(disk, files, e, disk', files')
        /\ ~twin => InOrderAll(disk', files')
        /\ \A n \in Name : In(disk[n]) \subseteq In(disk'[n])
        /\ In(files[f].buf) \subseteq In(disk'[files[f].name]) \cup In(files'[f].buf)
        /\ In(files'[f].buf) \subseteq In(files[f].buf) \cup {e} /\ e \in In(files'[f].buf)
        /\ Len(files'[f].buf) <= LogFileCache
    BY Zenon, <2>2, <2>6, <2>7, Writing
  <2>9. /\ returned' = returned \cup {e} /\ late \subseteq late' /\ late' \subseteq late \cup {e}
        /\ lock # NoThread \/ f # file => e \in late'
    BY Zenon, <2>1, <2>2 DEF Kept
  <2>10. pc'[t] = l /\ \A u \in Thread : u # t => pc'[u] = pc[u]
    BY Zenon, <2>4 DEF Goto, Held, LoggerTypeOK
  <2>11. /\ files' \in Seq(LogFile) /\ Len(files') = Len(files)
         /\ DOMAIN files' = 1 .. Len(files) /\ DOMAIN files = 1 .. Len(files)
    BY SMTT(20), <2>8 DEF SetBuf, Held, LoggerTypeOK
  <2>12. Store'
    <3>1. \A x : Has(disk', Bufs(files'), x) => x \in returned'
      BY Zenon, <2>8, <2>9 DEF Entries, Store, OneMore
    <3>2. files'[f].alive
      BY Zenon, <1>2, <2>1, <2>8
    <3>3. /\ \A g \in DOMAIN files' : ~files'[g].alive => files'[g].buf = <<>>
          /\ \A g \in DOMAIN files' : Len(files'[g].buf) <= LogFileCache
      BY Zenon, <2>6, <2>8, <3>2, BuffersBounded DEF Entries
    <3>4. QED
      BY Zenon, <2>8, <3>1, <3>3 DEF Store, Stored
  <2>13. Fresh'
    <3>1. returned' \subseteq Thread \X (1 .. calls)
      BY Zenon, <2>7, <2>9 DEF Entries, Fresh
    <3>2. ASSUME NEW u \in Thread, pc'[u] \in {"load", "write"}
          PROVE  /\ entry[u][1] = u /\ entry[u][2] \in 1 .. calls
                 /\ \A x \in returned' : x[1] = u => x[2] < entry[u][2]
      <4>1. u # t /\ pc[u] \in {"load", "write"}
        BY Zenon, <2>10, <3>2
      <4>2. QED
        BY Zenon, <2>7, <2>9, <4>1 DEF Entries, Fresh
    <3>3. QED
      BY Zenon, <2>2, <3>1, <3>2 DEF Fresh
  <2>14. Accounted'
    <3>1. \A x \in returned' \ late' : Has(disk', Bufs(files'), x)
      BY Zenon, <2>8, <2>9 DEF Entries, Accounted, OneMore
    <3>2. ASSUME NEW g \in 1 .. Len(files), g # file \/ lock # NoThread
          PROVE  In(files'[g].buf) \subseteq late'
      <4>1. In(files[g].buf) \subseteq late
        BY Zenon, <2>11, <3>2 DEF Entries, Accounted
      <4>2. CASE g # f
        BY Zenon, <2>8, <2>9, <4>1, <4>2 DEF SetBuf
      <4>3. CASE g = f
        BY Zenon, <2>8, <2>9, <3>2, <4>1, <4>3
      <4>4. QED
        BY Zenon, <4>2, <4>3
    <3>3. QED
      BY Zenon, <2>5, <2>11, <3>1, <3>2 DEF Accounted
  <2>15. pc[t] \notin Changing /\ l \in Labels \ Changing
    BY Zenon, <2>2 DEF Changing, Labels
  <2>16. Lifetimes'
    <3>1. \A g \in 1 .. Len(files) : /\ files'[g].alive = files[g].alive
                                     /\ g \notin {file, backup_file} => files'[g] = files[g]
      BY Zenon, <2>6, <2>8 DEF SetBuf
    <3>2. QED
      BY Zenon, <2>2, <2>4, <2>5, <2>11, <2>15, <3>1, SameLifetimes DEF Entries
  <2>17. Order'
    <3>1. \A g \in 1 .. Len(files) : files'[g].name = files[g].name
      BY Zenon, <2>8 DEF SetBuf
    <3>2. file \in 0 .. Len(files) /\ backup_file \in 0 .. Len(files)
      BY Zenon DEF Held, LoggerTypeOK
    <3>3. QED
      BY SMTT(20), <2>2, <2>5, <2>8, <3>1, <3>2 DEF Entries, Order, NoFile, InOrderAll
  <2>18. FatalKept'
    <3>1. In(disk[file_name]) \subseteq In(disk'[file_name])
      BY Zenon, <2>8 DEF Entries, FatalKept
    <3>2. ASSUME file # NoFile
          PROVE  In(files[file].buf) \subseteq In(disk'[file_name]) \cup In(files'[file].buf)
      <4>1. files[file].name = file_name /\ file \in 1 .. Len(files)
        BY <3>2 DEF Held, Owned, LoggerTypeOK, NoFile
      <4>2. CASE f = file
        BY Zenon, <2>8, <4>1, <4>2
      <4>3. CASE f # file
        BY Zenon, <2>8, <4>1, <4>3 DEF SetBuf
      <4>4. QED
        BY Zenon, <4>2, <4>3
    <3>3. FatalEntry(t)'
      <4> SUFFICES ASSUME fatal[t] = "LogFatal", moves[t] = 0
                   PROVE  file # NoFile /\ entry[t] \in In(files'[file].buf)
        BY Zenon, <2>2, <2>4, <2>5, <2>10 DEF FatalEntry
      <4>1. f = file
        BY Zenon, <2>1, <2>2 DEF Held, Pointers
      <4>2. QED
        BY Zenon, <2>1, <2>6, <2>8, <4>1
    <3>4. QED
      BY Zenon, <2>2, <2>5, <2>10, <3>1, <3>2, <3>3, OthersFatal DEF Entries
  <2>19. QED
    BY Zenon, <2>12, <2>13, <2>14, <2>16, <2>17, <2>18 DEF Entries
<1>3. QED
  BY Zenon, <1>1, <1>2

-----------------------------------------------------------------------------
(* A LogFile more, with an empty buffer.                                   *)
LEMMA GrowData ==
    ASSUME NEW D, NEW s, NEW x \in LogFile, x.buf = <<>>, Stored(D, s), NEW r, r = Append(s, x)
    PROVE  /\ Stored(D, r) /\ SameEntries(D, s, D, r)
           /\ InOrderAll(D, s) => InOrderAll(D, r)
<1> DEFINE X == 1 .. Len(s)
           n == Len(s) + 1
           B == Bufs(s)
           C == Bufs(r)
<1>1. s \in Seq(LogFile) /\ D \in [Name -> Seq(Entry)] /\ Apart(D, B)
  BY Zenon DEF Stored
<1>2. r \in Seq(LogFile) /\ Len(r) = n /\ (\A g \in X : r[g] = s[g]) /\ r[n] = x
  BY SMTT(20), <1>1
<1>3. DOMAIN r = X \cup {n} /\ n \notin X
  BY <1>1, <1>2
<1>4. DOMAIN C = X \cup {n} /\ C[n] = <<>> /\ (\A g \in X : C[g] = B[g]) /\ DOMAIN B = X
  BY <1>1, <1>2, <1>3 DEF Bufs
<1> HIDE DEF X, n, B, C
<1>5. In(C[n]) = {} /\ Distinct(C[n])
  BY Zenon, <1>4, EmptySeq
<1>6. Apart(D, C)
  BY Zenon, <1>1, <1>4, <1>5 DEF Apart
<1>7. \A e : Has(D, C, e) <=> Has(D, B, e)
  BY Zenon, <1>4, <1>5 DEF Has
<1>8. ASSUME Ordered(D, B, Names(s)) PROVE Ordered(D, C, Names(r))
  <2>1. /\ \A g \in X : Names(r)[g] = Names(s)[g]
        /\ Names(r)[n] = x.name /\ x.name \in Name
    BY Zenon, <1>1, <1>2, <1>3, BufsType DEF Names, LogFile, X
  <2>2. D[x.name] \o <<>> = D[x.name]
    <3>1. D[x.name] \in Seq(Entry)
      BY Zenon, <1>1, <2>1
    <3>2. QED
      BY <3>1
  <2>3. ASSUME NEW g \in DOMAIN C PROVE InOrder(D[Names(r)[g]] \o C[g])
    <3>1. CASE g \in X
      BY Zenon, <1>4, <1>8, <2>1, <3>1 DEF Ordered
    <3>2. CASE g = n
      BY <1>1, <1>4, <1>8, <2>1, <2>2, <3>2 DEF Ordered
    <3>3. QED
      BY Zenon, <1>4, <3>1, <3>2
  <2>4. QED
    BY Zenon, <1>8, <2>3 DEF Ordered
<1>9. QED
  BY Zenon, <1>1, <1>2, <1>6, <1>7, <1>8 DEF Stored, SameEntries, InOrderAll, B, C

(* ChangeLoggerFile opens the new file.                                    *)
LEMMA ChangeKeeps ==
    ASSUME Held, Entries, NEW t \in Thread, NEW name \in Name, NEW open \in BOOLEAN,
           ChangeLoggerFile(t, name, open)
    PROVE  Entries'
<1>1. PICK x : x = NewLogFile(name, open)
  BY Zenon
<1>2. x \in LogFile /\ x.buf = <<>> /\ Len(x.buf) = 0
  <2>1. <<>> \in Seq(Entry)
    OBVIOUS
  <2>2. QED
    BY Zenon, <1>1, <2>1 DEF NewLogFile, LogFile
<1>3. /\ pc[t] = "idle" /\ Goto(t, "lock") /\ files' = Append(files, x)
      /\ created' = [created EXCEPT ![t] = Len(files) + 1]
      /\ UNCHANGED <<ptr, entry, fatal, logger, disk, calls, returned, late, moves, twin>>
  BY Zenon, <1>1 DEF ChangeLoggerFile, At, history
<1>4. UNCHANGED <<file, backup_file, file_name, lock>>
  BY Zenon, <1>3 DEF logger
<1>5. files \in Seq(LogFile) /\ Len(files) \in Nat /\ DOMAIN files = 1 .. Len(files)
  BY DEF Held, LoggerTypeOK
<1>6. /\ Len(files') = Len(files) + 1 /\ DOMAIN files' = 1 .. Len(files) + 1
      /\ files'[Len(files) + 1] = x /\ \A g \in 1 .. Len(files) : files'[g] = files[g]
  BY <1>2, <1>3, <1>5
<1>7. /\ Stored(disk, files') /\ SameEntries(disk, files, disk, files')
      /\ InOrderAll(disk, files) => InOrderAll(disk, files')
  <2>1. Stored(disk, files)
    BY Zenon, <1>5 DEF Entries, Store, Stored
  <2>2. QED
    BY Zenon, <1>2, <1>3, <2>1, GrowData
<1>8. \A g \in 1 .. Len(files) + 1 : g \in 1 .. Len(files) \/ g = Len(files) + 1
  BY <1>5
<1>9. Store'
  <2>1. \A g \in DOMAIN files' : ~files'[g].alive => files'[g].buf = <<>>
    BY Zenon, <1>2, <1>5, <1>6, <1>8 DEF Entries, Store
  <2>2. \A g \in DOMAIN files' : Len(files'[g].buf) <= LogFileCache
    BY SMTT(20), <1>2, <1>5, <1>6, <1>8, CacheAssumption DEF Entries, Store
  <2>3. QED
    BY Zenon, <1>3, <1>7, <2>1, <2>2 DEF Entries, Store, Stored, SameEntries
<1>10. Fresh'
  BY Zenon, <1>3, SameFresh DEF Entries
<1>11. Accounted'
  <2>1. \A g \in DOMAIN files' : g # file \/ lock # NoThread => In(files'[g].buf) \subseteq late
    BY Zenon, <1>2, <1>5, <1>6, <1>8, EmptySeq DEF Entries, Accounted
  <2>2. QED
    BY Zenon, <1>3, <1>4, <1>7, <2>1 DEF Entries, Accounted, SameEntries
<1>12. pc'[t] = "lock" /\ \A u \in Thread : u # t => pc'[u] = pc[u]
  BY Zenon, <1>3 DEF Goto, Held, LoggerTypeOK
<1>13. created'[t] = Len(files) + 1 /\ \A u \in Thread : u # t => created'[u] = created[u]
  BY Zenon, <1>3 DEF Held, LoggerTypeOK
<1>14. file \in 0 .. Len(files) /\ backup_file \in 0 .. Len(files)
  BY Zenon DEF Held, LoggerTypeOK
<1>15. Lifetimes'
  <2>1. ptr' \in [Thread -> 0 .. Len(files')] /\ created' \in [Thread -> 0 .. Len(files')]
    <3>1. 0 .. Len(files) \subseteq 0 .. Len(files') /\ Len(files) + 1 \in 0 .. Len(files')
      BY <1>5, <1>6
    <3>2. ptr \in [Thread -> 0 .. Len(files)] /\ created \in [Thread -> 0 .. Len(files)]
      BY Zenon DEF Entries, Lifetimes
    <3>3. QED
      BY Zenon, <1>3, <3>1, <3>2
  <2>2. ASSUME NEW g \in Live' PROVE g \in {file, backup_file} \cup {created'[u] : u \in Thread}
    <3>1. g \in 1 .. Len(files) + 1 /\ files'[g].alive
      BY Zenon, <1>6, <2>2 DEF Live
    <3>2. CASE g = Len(files) + 1
      BY Zenon, <1>13, <3>2
    <3>3. CASE g \in 1 .. Len(files)
      <4>0. g \in Live
        BY Zenon, <1>5, <1>6, <3>1, <3>3 DEF Live
      <4>1. g \in {file, backup_file} \cup {created[u] : u \in Thread}
        BY Zenon, <4>0 DEF Entries, Lifetimes
      <4>2. created[t] = NoFile /\ g # NoFile
        <5>1. g # NoFile
          BY <3>3 DEF NoFile
        <5>2. pc[t] \notin Changing
          BY Zenon, <1>3 DEF Changing
        <5>3. QED
          BY Zenon, <5>1, <5>2 DEF Entries, Lifetimes
      <4>3. \A u \in Thread : g = created[u] => g = created'[u]
        BY Zenon, <1>13, <4>2
      <4>4. QED
        BY Zenon, <4>1, <4>3
    <3>4. QED
      BY Zenon, <1>8, <3>1, <3>2, <3>3
  <2>3. \A u \in Thread : pc'[u] \notin Changing => created'[u] = NoFile
    BY Zenon, <1>12, <1>13 DEF Entries, Lifetimes, Changing
  <2>4. ASSUME NEW u \in Thread, pc'[u] \in Changing
        PROVE  /\ files'[created'[u]].buf = <<>>
               /\ \A w \in Thread : pc'[w] \in {"write", "fflush"} => ptr'[w] # created'[u]
    <3>1. \A w \in Thread : pc'[w] \in {"write", "fflush"} =>
             pc[w] \in {"write", "fflush"} /\ ptr[w] \in 1 .. Len(files)
      BY Zenon, <1>12 DEF Held, Pointers
    <3>2. CASE u = t
      BY SMTT(20), <1>2, <1>3, <1>5, <1>6, <1>13, <3>1, <3>2
    <3>3. CASE u # t
      <4>1. pc[u] \in Changing /\ created[u] \in 1 .. Len(files)
        BY Zenon, <1>12, <2>4, <3>3 DEF Held, Owned, Changing
      <4>2. QED
        BY Zenon, <1>3, <1>6, <1>13, <3>1, <3>3, <4>1 DEF Entries, Lifetimes
    <3>4. QED
      BY Zenon, <3>2, <3>3
  <2>5. QED
    BY Zenon, <1>4, <2>1, <2>2, <2>3, <2>4 DEF Lifetimes
<1>16. Order'
  BY <1>3, <1>4, <1>6, <1>7, <1>14 DEF Entries, Order, NoFile, InOrderAll
<1>17. FatalKept'
  <2>1. FatalEntry(t)'
    BY Zenon, <1>12 DEF FatalEntry
  <2>2. file # NoFile => files'[file].buf = files[file].buf
    BY <1>6, <1>14 DEF NoFile
  <2>3. QED
    BY Zenon, <1>3, <1>4, <1>12, <2>1, <2>2, OthersFatal DEF Entries
<1>18. QED
  BY Zenon, <1>9, <1>10, <1>11, <1>15, <1>16, <1>17 DEF Entries

(* The old backup_file_ is destroyed: its buffer is lost or, if free() has *)
(* left it alone, written.                                                 *)
LEMMA ClosedCases ==
    ASSUME Held, backup_file # NoFile, NEW d, NEW c \in Closed(backup_file, d)
    PROVE  /\ SetBuf(files, c[1], backup_file, <<>>) /\ ~c[1][backup_file].alive
           /\ c[2] = d \/ c[2] = FlushTo(d, backup_file)
<1>1. files \in Seq(LogFile) /\ backup_file \in 1 .. Len(files)
  BY DEF Held, LoggerTypeOK, NoFile
<1>2. /\ c[1] = [files EXCEPT ![backup_file].buf = <<>>, ![backup_file].alive = FALSE]
      /\ c[2] = d \/ c[2] = FlushTo(d, backup_file)
  BY Zenon DEF Closed
<1>3. PICK s \in Seq(LogFile), f \in 1 .. Len(files) : s = files /\ f = backup_file
  BY Zenon, <1>1
<1>4. <<>> \in Seq(Entry)
  OBVIOUS
<1>5. PICK b \in Seq(Entry) : b = <<>>
  BY Zenon, <1>4
<1>6. /\ SetBuf(s, [s EXCEPT ![f].buf = b, ![f].alive = FALSE], f, b)
      /\ ~[s EXCEPT ![f].buf = b, ![f].alive = FALSE][f].alive
  BY Zenon, <1>3, BufferClosed
<1>7. c[1] = [s EXCEPT ![f].buf = b, ![f].alive = FALSE]
  BY Zenon, <1>2, <1>3, <1>5
<1>8. SetBuf(s, c[1], f, b) /\ ~c[1][f].alive
  BY Zenon, <1>6, <1>7
<1>9. QED
  BY Zenon, <1>2, <1>3, <1>5, <1>8

(* Its entries are late.                                                   *)
LEMMA BackupData ==
    ASSUME Held, Entries, lock # NoThread, UNCHANGED <<returned, late, twin>>, lock' # NoThread,
           \E c \in Closed(backup_file, disk) : files' = c[1] /\ disk' = c[2]
    PROVE  /\ Store' /\ Accounted' /\ (~twin => Ordered(disk', Bufs(files'), Names(files')))
           /\ files' \in Seq(LogFile) /\ Len(files') = Len(files)
           /\ \A g \in 1 .. Len(files) : g # backup_file => files'[g] = files[g]
           /\ backup_file # NoFile => ~files'[backup_file].alive
<1>1. files \in Seq(LogFile) /\ DOMAIN files = 1 .. Len(files)
  BY DEF Held, LoggerTypeOK
<1>2. CASE backup_file = NoFile
  <2>1. files' = files /\ disk' = disk
    BY <1>2 DEF Closed
  <2>2. Store'
    BY Zenon, <2>1 DEF Entries, Store
  <2>3. Accounted'
    BY Zenon, <2>1 DEF Entries, Accounted
  <2>4. ~twin => Ordered(disk', Bufs(files'), Names(files'))
    BY Zenon, <2>1 DEF Entries, Order
  <2>5. QED
    BY Zenon, <1>1, <1>2, <2>1, <2>2, <2>3, <2>4
<1>3. CASE backup_file # NoFile
  <2>1. PICK f \in {file, backup_file} : f = backup_file
    BY Zenon
  <2>2. f \in 1 .. Len(files) /\ f # NoFile
    BY <1>3, <2>1 DEF Held, LoggerTypeOK, NoFile
  <2>3. /\ SetBuf(files, files', f, <<>>) /\ ~files'[f].alive
        /\ disk' = disk \/ disk' = FlushTo(disk, f)
    BY Zenon, <1>3, <2>1, ClosedCases
  <2>4. In(files[f].buf) \subseteq late
    BY Zenon, <1>1, <2>2 DEF Entries, Accounted
  <2>5. /\ Store' /\ \A e : Has(disk, Bufs(files), e) /\ e \notin late => Has(disk', Bufs(files'), e)
        /\ ~twin => Ordered(disk', Bufs(files'), Names(files'))
    <3>1. CASE disk' = disk
      <4>1. /\ Store'
            /\ \A e : Has(disk, Bufs(files), e) /\ e \notin In(files[f].buf)
                         => Has(disk', Bufs(files'), e)
            /\ ~twin => Ordered(disk', Bufs(files'), Names(files'))
        BY Zenon, <2>2, <2>3, <3>1, Dropping
      <4>2. QED
        BY Zenon, <2>4, <4>1
    <3>2. CASE disk' = FlushTo(disk, f)
      BY Zenon, <2>2, <2>3, <3>2, Flushing
    <3>3. QED
      BY Zenon, <2>3, <3>1, <3>2
  <2>6. Accounted'
    BY Zenon, <2>2, <2>3, <2>5, AccountedSet DEF Entries
  <2>7. /\ files' \in Seq(LogFile) /\ Len(files') = Len(files)
        /\ \A g \in 1 .. Len(files) : g # backup_file => files'[g] = files[g]
    BY Zenon, <2>1, <2>3 DEF SetBuf
  <2>8. QED
    BY Zenon, <2>1, <2>3, <2>5, <2>6, <2>7
<1>4. QED
  BY Zenon, <1>2, <1>3

LEMMA MoveKeeps ==
    ASSUME Held, Entries, NEW t \in Thread, MoveToBackup(t)
    PROVE  Entries'
<1>1. /\ pc[t] = "move" /\ Goto(t, "install") /\ backup_file' = file /\ file' = NoFile
      /\ moves' = [u \in Thread |-> IF moves[u] = 2 THEN 2 ELSE moves[u] + 1]
      /\ UNCHANGED <<ptr, entry, fatal, created, file_name, lock, calls, returned, late, twin>>
  BY Zenon DEF MoveToBackup, At
<1>2. lock # NoThread /\ lock' # NoThread
  BY Zenon, <1>1, ThreadAssumption DEF Held, Mutex, Rotating
<1>3. \E c \in Closed(backup_file, disk) : files' = c[1] /\ disk' = c[2]
  BY Zenon DEF MoveToBackup
<1>4. /\ Store' /\ Accounted' /\ (~twin => Ordered(disk', Bufs(files'), Names(files')))
      /\ files' \in Seq(LogFile) /\ Len(files') = Len(files)
      /\ \A g \in 1 .. Len(files) : g # backup_file => files'[g] = files[g]
      /\ backup_file # NoFile => ~files'[backup_file].alive
  BY Zenon, <1>1, <1>2, <1>3, BackupData
<1>5. pc'[t] = "install" /\ \A u \in Thread : u # t => pc'[u] = pc[u]
  BY Zenon, <1>1 DEF Goto, Held, LoggerTypeOK
<1>6. Order'
  BY Zenon, <1>1, <1>4 DEF Order
<1>7. Fresh'
  BY Zenon, <1>1, SameFresh DEF Entries
<1>8. FatalKept'
  <2>0. \A u \in Thread : moves[u] \in {0, 1, 2}
    BY Zenon DEF Held, LoggerTypeOK
  <2>1. \A u \in Thread : moves'[u] # 0
    BY <1>1, <2>0
  <2>2. file_name' \in Name
    BY Zenon, <1>1 DEF Entries, FatalKept
  <2>3. QED
    BY Zenon, <2>1, <2>2 DEF FatalKept, FatalEntry
<1>9. Lifetimes'
  <2>1. \A u \in Thread : /\ pc'[u] \in Changing <=> pc[u] \in Changing
                          /\ pc'[u] \in {"write", "fflush"} <=> pc[u] \in {"write", "fflush"}
    BY Zenon, <1>1, <1>5 DEF Changing
  <2>2. DOMAIN files' = 1 .. Len(files) /\ DOMAIN files = 1 .. Len(files)
    BY SMTT(20), <1>4 DEF Held, LoggerTypeOK
  <2>3. ASSUME NEW g \in Live' PROVE g \in {NoFile, file} \cup {created[u] : u \in Thread}
    <3>1. g \in 1 .. Len(files) /\ files'[g].alive /\ g # NoFile
      BY <2>2, <2>3 DEF Live, NoFile
    <3>2. g # backup_file
      BY Zenon, <1>4, <3>1
    <3>3. g \in Live
      BY Zenon, <1>4, <2>2, <3>1, <3>2 DEF Live
    <3>4. QED
      BY Zenon, <3>2, <3>3 DEF Entries, Lifetimes
  <2>4. \A u \in Thread : pc[u] \in Changing => files'[created[u]].buf = <<>>
    <3>1. \A u \in Thread : pc[u] \in Changing =>
             /\ files[created[u]].buf = <<>> /\ created[u] \in 1 .. Len(files)
             /\ created[u] # backup_file
      BY Zenon DEF Entries, Lifetimes, Held, Owned, Changing
    <3>2. QED
      BY Zenon, <1>4, <3>1
  <2>5. QED
    BY SMTT(20), <1>1, <1>4, <2>1, <2>3, <2>4 DEF Entries, Lifetimes
<1>10. QED
  BY Zenon, <1>4, <1>6, <1>7, <1>8, <1>9 DEF Entries

(* No thread is past abort() while the process runs.                       *)
LEMMA InstallKeeps ==
    ASSUME Held, Entries, NEW t \in Thread, Install(t), \A u \in Thread : pc[u] # "aborted"
    PROVE  Entries'
<1>1. /\ pc[t] = "install" /\ Goto(t, "idle") /\ file' = created[t] /\ lock' = NoThread
      /\ file_name' = files[created[t]].name
      /\ twin' = (twin \/ files[created[t]].name = files[backup_file].name)
      /\ created' = [created EXCEPT ![t] = NoFile]
      /\ UNCHANGED <<ptr, entry, fatal, backup_file, files, disk, calls, returned, late, moves>>
  BY Zenon DEF Install, At, outside
<1>2. lock # NoThread /\ file = NoFile
  BY Zenon, <1>1, ThreadAssumption DEF Held, Mutex, Rotating
<1>3. pc'[t] = "idle" /\ \A u \in Thread : u # t => pc'[u] = pc[u]
  BY Zenon, <1>1 DEF Goto, Held, LoggerTypeOK
<1>4. created'[t] = NoFile /\ \A u \in Thread : u # t => created'[u] = created[u]
  BY Zenon, <1>1 DEF Held, LoggerTypeOK
<1>5. created[t] \in 1 .. Len(files) /\ files \in Seq(LogFile) /\ DOMAIN files = 1 .. Len(files)
  BY <1>1 DEF Held, Owned, LoggerTypeOK
<1>6. Store'
  BY Zenon, <1>1 DEF Entries, Store
<1>7. Accounted'
  BY Zenon, <1>1, <1>2 DEF Entries, Accounted
<1>8. Fresh'
  BY Zenon, <1>1, SameFresh DEF Entries
<1>9. Order'
  BY Zenon, <1>1 DEF Entries, Order
<1>10. FatalKept'
  <2>1. file_name' \in Name
    BY Zenon, <1>1, <1>5, BufsType
  <2>2. ASSUME NEW u \in Thread PROVE FatalEntry(u)'
    <3>1. FatalEntry(u) /\ pc[u] # "aborted"
      BY Zenon DEF Entries, FatalKept
    <3>2. QED
      BY Zenon, <1>1, <1>2, <1>3, <3>1 DEF FatalEntry
  <2>3. QED
    BY Zenon, <2>1, <2>2 DEF FatalKept
<1>11. Lifetimes'
  <2>1. \A u \in Thread : pc'[u] \in Changing => u # t /\ pc[u] \in Changing
    BY Zenon, <1>3 DEF Changing
  <2>2. created' \in [Thread -> 0 .. Len(files)] /\ ptr \in [Thread -> 0 .. Len(files)]
    BY <1>1, <1>5 DEF Entries, Lifetimes, NoFile
  <2>3. ASSUME NEW g \in Live' PROVE g \in {created[t], backup_file} \cup {created'[u] : u \in Thread}
    <3>1. g \in Live /\ g # NoFile
      BY <1>1, <1>5, <2>3 DEF Live, NoFile
    <3>2. g \in {file, backup_file} \cup {created[u] : u \in Thread}
      BY Zenon, <3>1 DEF Entries, Lifetimes
    <3>3. \A u \in Thread : g = created[u] => g = created[t] \/ g = created'[u]
      BY Zenon, <1>4
    <3>4. QED
      BY Zenon, <1>2, <3>1, <3>2, <3>3
  <2>4. \A u \in Thread : pc'[u] \notin Changing => created'[u] = NoFile
    BY Zenon, <1>3, <1>4 DEF Entries, Lifetimes
  <2>5. \A u \in Thread : pc'[u] \in Changing =>
           /\ files[created'[u]].buf = <<>>
           /\ \A w \in Thread : pc'[w] \in {"write", "fflush"} => ptr[w] # created'[u]
    BY SMTT(20), <1>3, <1>4, <2>1 DEF Entries, Lifetimes
  <2>6. QED
    BY Zenon, <1>1, <2>2, <2>3, <2>4, <2>5 DEF Lifetimes
<1>12. QED
  BY Zenon, <1>6, <1>7, <1>8, <1>9, <1>10, <1>11 DEF Entries

-----------------------------------------------------------------------------
(* What the properties say of the entries, also after the end.             *)
Safe ==
    /\ files \in Seq(LogFile) /\ Store
    /\ \A e \in returned \ late : Has(disk, Bufs(files), e)
    /\ ~twin => Ordered(disk, Bufs(files), Names(files))

(* An entry that is somewhere is in one place.                             *)
LEMMA OnePlace ==
    ASSUME Safe, NEW e
    PROVE  /\ Has(disk, Bufs(files), e) => \E p \in Places(e) : Places(e) = {p}
           /\ ~Has(disk, Bufs(files), e) => Places(e) = {}
<1> DEFINE On(n, k) == k \in DOMAIN disk[n] /\ disk[n][k] = e
           Inside(f, k) == k \in DOMAIN files[f].buf /\ files[f].buf[k] = e
<1>1. \A p : p \in Places(e) <=> \/ \E n \in Name : \E k : On(n, k) /\ p = <<n, k>>
                                 \/ \E f \in Live : \E k : Inside(f, k) /\ p = <<f, k>>
  <2> DEFINE A(n) == {<<n, k>> : k \in {k \in DOMAIN disk[n] : disk[n][k] = e}}
             C(f) == {<<f, k>> : k \in {k \in DOMAIN files[f].buf : files[f].buf[k] = e}}
  <2>1. Places(e) = (UNION {A(n) : n \in Name}) \cup (UNION {C(f) : f \in Live})
    BY Zenon DEF Places
  <2>2. \A n, p : p \in A(n) <=> \E k : On(n, k) /\ p = <<n, k>>
    BY Zenon
  <2>3. \A f, p : p \in C(f) <=> \E k : Inside(f, k) /\ p = <<f, k>>
    BY Zenon
  <2> HIDE DEF On, Inside, A, C
  <2>4. \A p : p \in Places(e) <=> (\E n \in Name : p \in A(n)) \/ (\E f \in Live : p \in C(f))
    BY Zenon, <2>1
  <2>5. QED
    BY <2>2, <2>3, <2>4
<1>2. /\ disk \in [Name -> Seq(Entry)] /\ DOMAIN disk = Name
      /\ DOMAIN Bufs(files) = DOMAIN files /\ \A f \in DOMAIN files : Bufs(files)[f] = files[f].buf
  BY Zenon DEF Safe, Store, Bufs
<1>3. /\ \A n \in Name : Distinct(disk[n])
      /\ \A f \in DOMAIN files : Distinct(files[f].buf)
      /\ \A m, n \in Name : m # n => In(disk[m]) \cap In(disk[n]) = {}
      /\ \A f, g \in DOMAIN files : f # g => In(files[f].buf) \cap In(files[g].buf) = {}
      /\ \A n \in Name, f \in DOMAIN files : In(disk[n]) \cap In(files[f].buf) = {}
  BY Zenon, <1>2 DEF Safe, Store, Apart
<1>4. /\ \A n \in Name : e \in In(disk[n]) <=> \E k : On(n, k)
      /\ \A f \in DOMAIN files : e \in In(files[f].buf) <=> \E k : Inside(f, k)
  BY Zenon DEF In
<1>5. \A f \in DOMAIN files : (\E k : Inside(f, k)) => f \in Live
  <2> SUFFICES ASSUME NEW f \in DOMAIN files, NEW k, Inside(f, k), ~files[f].alive PROVE FALSE
    BY Zenon DEF Live
  <2>1. files[f].buf = <<>>
    BY Zenon DEF Safe, Store
  <2>2. QED
    BY <2>1
<1>6. /\ \A n \in Name : \A j, k : On(n, j) /\ On(n, k) => j = k
      /\ \A f \in DOMAIN files : \A j, k : Inside(f, j) /\ Inside(f, k) => j = k
  BY Zenon, <1>3 DEF Distinct
<1>7. Has(disk, Bufs(files), e) <=> \/ \E n \in Name : \E k : On(n, k)
                                    \/ \E f \in Live : \E k : Inside(f, k)
  BY Zenon, <1>2, <1>4, <1>5 DEF Has, Live
<1>8. Live \subseteq DOMAIN files
  BY Zenon DEF Live
<1> HIDE DEF On, Inside
<1>9. ASSUME Has(disk, Bufs(files), e) PROVE \E p \in Places(e) : Places(e) = {p}
  <2>1. CASE \E n \in Name : \E k : On(n, k)
    <3>0. PICK n \in Name : \E k : On(n, k)
      BY Zenon, <2>1
    <3>1. PICK k : On(n, k)
      BY Zenon, <3>0
    <3>2. \A m \in Name : \A j : On(m, j) => m = n /\ j = k
      BY SMTT(20), <1>3, <1>4, <1>6, <3>1
    <3>3. \A f \in Live : \A j : ~Inside(f, j)
      BY Zenon, <1>3, <1>4, <1>8, <3>1
    <3>4. \A p : p \in Places(e) <=> p = <<n, k>>
      BY <1>1, <3>1, <3>2, <3>3
    <3>5. Places(e) = {<<n, k>>}
      BY Zenon, <3>4
    <3>6. QED
      BY Zenon, <3>5
  <2>2. CASE \E f \in Live : \E k : Inside(f, k)
    <3>0. PICK f \in Live : \E k : Inside(f, k)
      BY Zenon, <2>2
    <3>1. PICK k : Inside(f, k)
      BY Zenon, <3>0
    <3>2. \A g \in Live : \A j : Inside(g, j) => g = f /\ j = k
      BY SMTT(20), <1>3, <1>4, <1>6, <1>8, <3>1
    <3>3. \A n \in Name : \A j : ~On(n, j)
      BY Zenon, <1>3, <1>4, <1>8, <3>1
    <3>4. \A p : p \in Places(e) <=> p = <<f, k>>
      BY <1>1, <3>1, <3>2, <3>3
    <3>5. Places(e) = {<<f, k>>}
      BY Zenon, <3>4
    <3>6. QED
      BY Zenon, <3>5
  <2>3. QED
    BY Zenon, <1>7, <1>9, <2>1, <2>2
<1>10. ASSUME ~Has(disk, Bufs(files), e) PROVE Places(e) = {}
  BY Zenon, <1>1, <1>7, <1>10
<1>11. QED
  BY Zenon, <1>9, <1>10

(* Kept once, or late and lost; and each thread's entries in order.        *)
LEMMA SafeMeans ==
    ASSUME Safe
    PROVE  /\ \A e \in returned : \/ \E p \in Places(e) : Places(e) = {p}
                                  \/ e \in late /\ Places(e) = {}
           /\ ThreadsInOrder
<1>1. ASSUME NEW e \in returned
      PROVE  (\E p \in Places(e) : Places(e) = {p}) \/ (e \in late /\ Places(e) = {})
  <2>1. /\ Has(disk, Bufs(files), e) => \E p \in Places(e) : Places(e) = {p}
        /\ ~Has(disk, Bufs(files), e) => Places(e) = {}
    BY Zenon, OnePlace
  <2>2. ~Has(disk, Bufs(files), e) => e \in late
    BY Zenon DEF Safe
  <2>3. QED
    BY Zenon, <2>1, <2>2
<1>2. ThreadsInOrder
  <2> SUFFICES ASSUME ~twin, NEW name \in Name
               PROVE  /\ InOrder(disk[name])
                      /\ \A f \in Live : files[f].name = name => InOrder(disk[name] \o files[f].buf)
    BY Zenon DEF ThreadsInOrder
  <2>1. Ordered(disk, Bufs(files), Names(files)) /\ DOMAIN disk = Name
    BY Zenon DEF Safe, Store
  <2>2. /\ DOMAIN Bufs(files) = DOMAIN files
        /\ \A f \in DOMAIN files : Bufs(files)[f] = files[f].buf /\ Names(files)[f] = files[f].name
    BY Zenon DEF Bufs, Names
  <2>3. Live \subseteq DOMAIN files
    BY Zenon DEF Live
  <2>4. QED
    BY Zenon, <2>1, <2>2, <2>3 DEF Ordered
<1>3. QED
  BY Zenon, <1>1, <1>2

-----------------------------------------------------------------------------
(* A LogFile as Destroy leaves it.                                         *)
Gone(x) == [x EXCEPT !.buf = <<>>, !.alive = FALSE]

LEMMA GoneLogFile ==
    ASSUME NEW x \in LogFile
    PROVE  Gone(x) \in LogFile /\ Gone(x).buf = <<>> /\ ~Gone(x).alive /\ Gone(x).name = x.name
<1>1. <<>> \in Seq(Entry)
  OBVIOUS
<1>2. PICK b \in Seq(Entry) : b = <<>>
  BY Zenon, <1>1
<1>3. PICK y : y = [x EXCEPT !.buf = b, !.alive = FALSE]
  BY Zenon
<1>4. y \in LogFile /\ y.buf = b /\ ~y.alive /\ y.name = x.name
  BY Zenon, <1>3 DEF LogFile
<1>5. Gone(x) = y
  BY Zenon, <1>2, <1>3 DEF Gone
<1>6. QED
  BY Zenon, <1>2, <1>4, <1>5

LEMMA AllGone ==
    ASSUME NEW s \in Seq(LogFile), NEW r, r = [f \in DOMAIN s |-> Gone(s[f])]
    PROVE  /\ r \in Seq(LogFile) /\ Len(r) = Len(s)
           /\ \A f \in 1 .. Len(s) : r[f].buf = <<>> /\ ~r[f].alive /\ r[f].name = s[f].name
<1>1. DOMAIN s = 1 .. Len(s) /\ Len(s) \in Nat /\ \A f \in 1 .. Len(s) : s[f] \in LogFile
  OBVIOUS
<1>2. r \in [1 .. Len(s) -> LogFile] /\ \A f \in 1 .. Len(s) : r[f] = Gone(s[f])
  BY Zenon, <1>1, GoneLogFile
<1>3. r \in Seq(LogFile) /\ Len(r) = Len(s)
  BY <1>1, <1>2
<1>4. QED
  BY Zenon, <1>1, <1>2, <1>3, GoneLogFile

(* LogFiles that differ in neither buffer nor name.                        *)
LEMMA SameBufs ==
    ASSUME NEW q \in Seq(LogFile), NEW r \in Seq(LogFile), Len(r) = Len(q),
           \A h \in 1 .. Len(q) : r[h].buf = q[h].buf /\ r[h].name = q[h].name
    PROVE  Bufs(r) = Bufs(q) /\ Names(r) = Names(q)
<1>1. DOMAIN r = 1 .. Len(q) /\ DOMAIN q = 1 .. Len(q)
  OBVIOUS
<1>2. QED
  BY Zenon, <1>1 DEF Bufs, Names

(* ~LogFile, on the data.                                                  *)
Drops(s, f, r) == f \in 1 .. Len(s) /\ SetBuf(s, r, f, <<>>)
Lost(D, s, f, D2, r) ==
    /\ \A e : Has(D2, Bufs(r), e) => Has(D, Bufs(s), e)
    /\ \A e : Has(D, Bufs(s), e) /\ e \notin In(s[f].buf) => Has(D2, Bufs(r), e)

LEMMA CloseRel ==
    ASSUME NEW D, NEW s, NEW f, NEW D2, NEW r, Stored(D, s),
           Flushes(D, s, f, D2, r) \/ (Drops(s, f, r) /\ D2 = D)
    PROVE  /\ Stored(D2, r) /\ Lost(D, s, f, D2, r)
           /\ OnlyOne(s, f) /\ InOrderAll(D, s) => InOrderAll(D2, r)
<1>1. CASE Flushes(D, s, f, D2, r)
  <2>1. /\ Stored(D2, r) /\ SameEntries(D, s, D2, r)
        /\ OnlyOne(s, f) /\ InOrderAll(D, s) => InOrderAll(D2, r)
    BY Zenon, <1>1, FlushRel
  <2>2. QED
    BY Zenon, <2>1 DEF SameEntries, Lost
<1>2. CASE Drops(s, f, r) /\ D2 = D
  <2>1. /\ Apart(D, Bufs(r)) /\ Lost(D, s, f, D, r) /\ (InOrderAll(D, s) => InOrderAll(D, r))
    BY Zenon, <1>2, DropData DEF Stored, Drops, Lost, InOrderAll
  <2>2. r \in Seq(LogFile)
    BY Zenon, <1>2 DEF Drops, SetBuf
  <2>3. QED
    BY Zenon, <1>2, <2>1, <2>2 DEF Stored
<1>3. QED
  BY Zenon, <1>1, <1>2

(* Destroy: file_ is flushed, then backup_file_ is closed.                 *)
LEMMA EndRel ==
    ASSUME NEW D, NEW s, NEW f, NEW D1, NEW m, NEW g, NEW D2, NEW q, Stored(D, s),
           Flushes(D, s, f, D1, m), Flushes(D1, m, g, D2, q) \/ (Drops(m, g, q) /\ D2 = D1),
           g # f, g \in 1 .. Len(s)
    PROVE  /\ Stored(D2, q) /\ Lost(D, s, g, D2, q)
           /\ OnlyOne(s, f) /\ OnlyOne(s, g) /\ InOrderAll(D, s) => InOrderAll(D2, q)
<1>1. /\ Stored(D1, m) /\ SameEntries(D, s, D1, m)
      /\ OnlyOne(s, f) /\ InOrderAll(D, s) => InOrderAll(D1, m)
  BY Zenon, FlushRel
<1>2. /\ Stored(D2, q) /\ Lost(D1, m, g, D2, q)
      /\ OnlyOne(m, g) /\ InOrderAll(D1, m) => InOrderAll(D2, q)
  BY Zenon, <1>1, CloseRel
<1>3. /\ Len(m) = Len(s) /\ f \in 1 .. Len(s) /\ m[f].buf = <<>> /\ m[f].name = s[f].name
      /\ \A h \in 1 .. Len(s) : h # f => m[h] = s[h]
  BY Zenon DEF Flushes, SetBuf
<1>4. m[g] = s[g]
  BY Zenon, <1>3
<1>5. OnlyOne(s, g) => OnlyOne(m, g)
  <2> SUFFICES ASSUME OnlyOne(s, g), NEW h \in 1 .. Len(s), h # g, m[h].name = m[g].name
               PROVE  m[h].buf = <<>>
    BY Zenon, <1>3 DEF OnlyOne
  <2>1. CASE h = f
    BY Zenon, <1>3, <2>1
  <2>2. CASE h # f
    BY Zenon, <1>3, <1>4, <2>2 DEF OnlyOne
  <2>3. QED
    BY Zenon, <2>1, <2>2
<1>6. Lost(D, s, g, D2, q)
  BY Zenon, <1>1, <1>2, <1>4 DEF Lost, SameEntries
<1>7. QED
  BY Zenon, <1>1, <1>2, <1>5, <1>6

(* At the end all but the late entries are on disk.                        *)
LEMMA DestroyKeeps ==
    ASSUME Held, Entries, Destroy
    PROVE  Safe' /\ TypeOK' /\ Live' = {}
<1>1. /\ \A t \in Thread : pc[t] = "idle"
      /\ files' = [f \in DOMAIN files |-> Gone(files[f])] /\ status' = "destroyed"
      /\ UNCHANGED <<pc, ptr, created, file, backup_file, lock, calls, returned, late, twin>>
  BY Zenon DEF Destroy, At, Gone, locals, logger, history
<1>2. PICK D1 : D1 = FlushTo(disk, file)
  BY Zenon
<1>3. \E c \in Closed(backup_file, D1) : disk' = c[2]
  BY Zenon, <1>2 DEF Destroy
<1>4. lock = NoThread /\ file # NoFile
  BY Zenon, <1>1 DEF Held, Mutex, Rotating
<1>5. /\ files \in Seq(LogFile) /\ DOMAIN files = 1 .. Len(files) /\ file \in 1 .. Len(files)
      /\ backup_file # NoFile => backup_file \in 1 .. Len(files) /\ backup_file # file
  BY <1>4 DEF Held, LoggerTypeOK, Owned, NoFile
<1>6. /\ files' \in Seq(LogFile) /\ Len(files') = Len(files)
      /\ \A f \in 1 .. Len(files) :
            files'[f].buf = <<>> /\ ~files'[f].alive /\ files'[f].name = files[f].name
  BY Zenon, <1>1, <1>5, AllGone
<1>7. DOMAIN files' = 1 .. Len(files)
  BY <1>6
<1>8. \A f \in 1 .. Len(files) : f \notin {file, backup_file} => files[f].buf = <<>>
  <2> SUFFICES ASSUME NEW f \in 1 .. Len(files), f \notin {file, backup_file}, files[f].alive
               PROVE  FALSE
    BY Zenon, <1>5 DEF Entries, Store
  <2>1. f \in {file, backup_file} \cup {created[t] : t \in Thread}
    BY Zenon, <1>5 DEF Entries, Lifetimes, Live
  <2>2. \A t \in Thread : created[t] = NoFile
    BY Zenon, <1>1 DEF Entries, Lifetimes, Changing
  <2>3. QED
    BY <2>1, <2>2 DEF NoFile
<1>9. PICK m : m = Emptied(file)
  BY Zenon
<1>10. SetBuf(files, m, file, <<>>)
  BY Zenon, <1>5, <1>9, EmptiedSet
<1>11. /\ m \in Seq(LogFile) /\ Len(m) = Len(files) /\ m[file].buf = <<>>
       /\ m[file].name = files[file].name
       /\ \A f \in 1 .. Len(files) : f # file => m[f] = files[f]
  BY Zenon, <1>10 DEF SetBuf
<1>12. Flushes(disk, files, file, D1, m)
  BY Zenon, <1>2, <1>5, <1>10 DEF Flushes, FlushTo, AfterFlush
<1>13. Stored(disk, files)
  BY Zenon, <1>5 DEF Entries, Store, Stored
<1>14. ~twin => /\ InOrderAll(disk, files) /\ OnlyOne(files, file)
                /\ backup_file # NoFile => OnlyOne(files, backup_file)
  <2>1. ~twin => InOrderAll(disk, files)
    BY Zenon DEF Entries, Order, InOrderAll
  <2>2. ASSUME ~twin, NEW f \in {file, backup_file}, f # NoFile PROVE OnlyOne(files, f)
    BY Zenon, <2>2, Alone DEF OnlyOne
  <2>3. QED
    BY Zenon, <1>4, <2>1, <2>2
<1>15. backup_file # NoFile => In(files[backup_file].buf) \subseteq late
  BY Zenon, <1>5 DEF Entries, Accounted
<1>16. /\ Stored(disk', files') /\ \A e : Has(disk', Bufs(files'), e) => Has(disk, Bufs(files), e)
       /\ \A e : Has(disk, Bufs(files), e) /\ e \notin late => Has(disk', Bufs(files'), e)
       /\ ~twin => InOrderAll(disk', files')
  <2>1. CASE backup_file = NoFile
    <3>1. disk' = D1
      BY <1>3, <2>1 DEF Closed
    <3>2. \A f \in 1 .. Len(m) : files'[f].buf = m[f].buf /\ files'[f].name = m[f].name
      BY <1>6, <1>8, <1>11, <2>1 DEF NoFile
    <3>3. Bufs(files') = Bufs(m) /\ Names(files') = Names(m)
      BY Zenon, <1>6, <1>11, <3>2, SameBufs
    <3>4. /\ Stored(D1, m) /\ SameEntries(disk, files, D1, m)
          /\ OnlyOne(files, file) /\ InOrderAll(disk, files) => InOrderAll(D1, m)
      BY Zenon, <1>12, <1>13, FlushRel
    <3>5. QED
      BY Zenon, <1>6, <1>14, <3>1, <3>3, <3>4 DEF Stored, SameEntries, InOrderAll
  <2>2. CASE backup_file # NoFile
    <3>1. PICK g \in 1 .. Len(files) : g = backup_file /\ g # file
      BY Zenon, <1>5, <2>2
    <3>2. disk' = D1 \/ disk' = [D1 EXCEPT ![files[g].name] = D1[files[g].name] \o files[g].buf]
      BY Zenon, <1>3, <2>2, <3>1 DEF Closed, FlushTo
    <3>3. m[g] = files[g] /\ g \in 1 .. Len(m)
      BY Zenon, <1>11, <3>1
    <3>4. PICK b \in Seq(Entry) : b = <<>>
      <4>1. <<>> \in Seq(Entry)
        OBVIOUS
      <4>2. QED
        BY Zenon, <4>1
    <3>5. PICK q : q = [m EXCEPT ![g].buf = b]
      BY Zenon
    <3>6. SetBuf(m, q, g, b)
      BY Zenon, <1>11, <3>3, <3>5, BufferSet
    <3>7. SetBuf(m, q, g, <<>>)
      BY Zenon, <3>4, <3>6
    <3>8. Flushes(D1, m, g, disk', q) \/ (Drops(m, g, q) /\ disk' = D1)
      <4>1. CASE disk' = D1
        BY Zenon, <3>3, <3>7, <4>1 DEF Drops
      <4>2. CASE disk' = [D1 EXCEPT ![files[g].name] = D1[files[g].name] \o files[g].buf]
        BY Zenon, <3>3, <3>7, <4>2 DEF Flushes, AfterFlush
      <4>3. QED
        BY Zenon, <3>2, <4>1, <4>2
    <3>9. /\ Stored(disk', q) /\ Lost(disk, files, g, disk', q)
          /\ OnlyOne(files, file) /\ OnlyOne(files, g) /\ InOrderAll(disk, files)
                => InOrderAll(disk', q)
      BY Zenon, <1>12, <1>13, <3>1, <3>8, EndRel
    <3>10. /\ q \in Seq(LogFile) /\ Len(q) = Len(files) /\ q[g].buf = <<>>
           /\ q[g].name = files[g].name /\ \A f \in 1 .. Len(files) : f # g => q[f] = m[f]
      BY Zenon, <1>11, <3>3, <3>7 DEF SetBuf
    <3>11. \A f \in 1 .. Len(q) : files'[f].buf = q[f].buf /\ files'[f].name = q[f].name
      BY SMTT(20), <1>6, <1>8, <1>11, <3>1, <3>10
    <3>12. Bufs(files') = Bufs(q) /\ Names(files') = Names(q)
      BY Zenon, <1>6, <3>10, <3>11, SameBufs
    <3>13. QED
      BY Zenon, <1>6, <1>14, <1>15, <2>2, <3>1, <3>9, <3>12 DEF Stored, Lost, InOrderAll
  <2>3. QED
    BY Zenon, <2>1, <2>2
<1>17. \A f \in 1 .. Len(files) : Len(files'[f].buf) <= LogFileCache
  BY <1>6, CacheAssumption
<1>18. Store'
  BY Zenon, <1>1, <1>6, <1>7, <1>16, <1>17 DEF Entries, Store, Stored
<1>19. Safe'
  BY Zenon, <1>1, <1>6, <1>16, <1>18 DEF Entries, Accounted, Safe, InOrderAll
<1>20. TypeOK'
  BY Zenon, <1>1, <1>6, <1>7, <1>17
     DEF Held, LoggerTypeOK, Mutex, Entries, Lifetimes, Fresh, TypeOK, Statuses
<1>21. Live' = {}
  BY Zenon, <1>6, <1>7 DEF Live
<1>22. QED
  BY Zenon, <1>19, <1>20, <1>21

-----------------------------------------------------------------------------
EntriesInv ==
    /\ status \in Statuses
    /\ status # "destroyed" => Entries
    /\ status = "destroyed" => Safe /\ TypeOK /\ Live = {}
    /\ \A t \in Thread : pc[t] = "aborted" => status = "abort"

(* A new Logger holds no entry.                                            *)
LEMMA EntriesInit == Init => EntriesInv
<1> SUFFICES ASSUME Init PROVE EntriesInv
  BY Zenon
<1>1. PICK name \in Name, open \in BOOLEAN :
         files = <<NewLogFile(name, open)>> /\ file_name = name
  BY Zenon DEF Init
<1>2. PICK x : x = NewLogFile(name, open)
  BY Zenon
<1>3. files = <<x>> /\ x.alive /\ x.buf = <<>> /\ x.name = name
  BY Zenon, <1>1, <1>2 DEF NewLogFile
<1>4. DOMAIN files = {1} /\ Len(files) = 1 /\ files[1] = x
  BY <1>3
<1>5. /\ disk = [n \in Name |-> <<>>] /\ <<>> \in Seq(Entry) /\ <<>> \o <<>> = <<>>
      /\ Len(<<>>) = 0 /\ DOMAIN <<>> = {}
  BY DEF Init
<1>6. /\ DOMAIN Bufs(files) = {1} /\ Bufs(files)[1] = <<>> /\ Names(files)[1] = name
      /\ DOMAIN disk = Name /\ \A n \in Name : disk[n] = <<>>
  BY Zenon, <1>3, <1>4, <1>5 DEF Bufs, Names
<1>7. Apart(disk, Bufs(files)) /\ \A e : ~Has(disk, Bufs(files), e)
  BY Zenon, <1>6, EmptySeq DEF Apart, Has
<1>8. disk \in [Name -> Seq(Entry)]
  BY Zenon, <1>5
<1>9. Store
  BY <1>3, <1>4, <1>5, <1>7, <1>8, CacheAssumption DEF Store
<1>10. Fresh /\ Accounted
  BY Zenon, <1>3, <1>4, EmptySeq DEF Init, Fresh, Accounted
<1>11. Lifetimes
  BY <1>3, <1>4 DEF Init, Lifetimes, Live, NoFile, Changing
<1>12. FatalKept
  BY Zenon, <1>1 DEF Init, FatalKept, FatalEntry
<1>13. InOrder(<<>>)
  BY Zenon, <1>5 DEF InOrder
<1>14. Order
  <2>1. backup_file = NoFile
    BY Zenon DEF Init
  <2>2. Ordered(disk, Bufs(files), Names(files))
    BY Zenon, <1>5, <1>6, <1>13 DEF Ordered
  <2>3. QED
    BY Zenon, <2>1, <2>2 DEF Order
<1>15. QED
  BY Zenon, <1>9, <1>10, <1>11, <1>12, <1>14 DEF Entries, EntriesInv, Init, Statuses

(* abort() is the end of the process.                                      *)
LEMMA StepStatus ==
    ASSUME Held, NEW t \in Thread, Step(t), \A u \in Thread : pc[u] # "aborted"
    PROVE  /\ status' \in {"running", "segv", "undefined", "assert", "abort"}
           /\ \A u \in Thread : pc'[u] = "aborted" => status' = "abort"
<1>1. status = "running"
  BY Zenon DEF Step, Log, LoadFile, WriteEntry, Flush, TestFile, ReloadFile, FlushFile,
         ChangeLoggerFile, LockAndFlush, MoveToBackup, Install, At
<1>2. fatal[t] \in {"no", "LogFatal", "VFatal"} /\ pc \in [Thread -> Labels]
  BY Zenon DEF Held, LoggerTypeOK
<1>3. \/ pc' = pc /\ status' \in {"segv", "undefined", "assert"}
      \/ \E l \in {"idle", "load", "write", "flush", "reload", "fflush", "lock", "move",
                   "install"} : Goto(t, l) /\ status' = "running"
      \/ Goto(t, "aborted") /\ status' = "abort"
  <2>1. CASE (\E how \in {"no", "LogFatal", "VFatal"} : Log(t, how)) \/ Flush(t)
             \/ (\E name \in Name, open \in BOOLEAN : ChangeLoggerFile(t, name, open))
             \/ LockAndFlush(t) \/ MoveToBackup(t) \/ Install(t)
    BY Zenon, <1>1, <2>1
       DEF Log, Flush, ChangeLoggerFile, LockAndFlush, MoveToBackup, Install, outside
  <2>2. CASE LoadFile(t) \/ ReloadFile(t)
    BY Zenon, <1>1, <2>2 DEF LoadFile, ReloadFile, Dies, locals, outside
  <2>3. CASE WriteEntry(t)
    BY Zenon, <1>1, <1>2, <2>3 DEF WriteEntry, Written, Dies, locals
  <2>4. CASE TestFile(t) \/ FlushFile(t)
    BY Zenon, <1>1, <2>4 DEF TestFile, FlushFile, FlushReturns, Dies, locals
  <2>5. QED
    BY Zenon, <2>1, <2>2, <2>3, <2>4 DEF Step
<1>4. \A l : Goto(t, l) => pc'[t] = l /\ \A u \in Thread : u # t => pc'[u] = pc[u]
  BY Zenon, <1>2 DEF Goto
<1>5. QED
  BY Zenon, <1>3, <1>4

LEMMA EntriesNext ==
    ASSUME LoggerInv, LoggerInv', EntriesInv, [Next]_vars
    PROVE  EntriesInv'
<1>1. CASE UNCHANGED vars
  <2>1. UNCHANGED <<locals, logger, files, disk, status, calls, history>>
    BY Zenon, <1>1 DEF vars, outside
  <2>2. UNCHANGED <<pc, ptr, created, file, backup_file, lock, returned, late, twin>>
    BY Zenon, <2>1 DEF locals, logger, history
  <2>3. Entries => Entries'
    BY Zenon, <2>1, DiesKeeps
  <2>4. Safe => Safe'
    BY Zenon, <2>1, <2>2 DEF Safe, Store
  <2>5. (TypeOK => TypeOK') /\ Live' = Live
    BY Zenon, <2>1, <2>2 DEF TypeOK, Live
  <2>6. QED
    BY Zenon, <2>1, <2>2, <2>3, <2>4, <2>5 DEF EntriesInv
<1>2. ASSUME NEW t \in Thread, Step(t) PROVE EntriesInv'
  <2>1. status = "running"
    BY Zenon, <1>2 DEF Step, Log, LoadFile, WriteEntry, Flush, TestFile, ReloadFile, FlushFile,
                ChangeLoggerFile, LockAndFlush, MoveToBackup, Install, At
  <2>2. Held /\ Entries /\ \A u \in Thread : pc[u] # "aborted"
    BY Zenon, <2>1 DEF LoggerInv, EntriesInv
  <2>3. /\ status' \in {"running", "segv", "undefined", "assert", "abort"}
        /\ \A u \in Thread : pc'[u] = "aborted" => status' = "abort"
    BY Zenon, <1>2, <2>2, StepStatus
  <2>4. Entries'
    <3>1. CASE \E how \in {"no", "LogFatal", "VFatal"} : Log(t, how)
      BY Zenon, <2>2, <2>3, <3>1, LogKeeps DEF LoggerInv
    <3>2. CASE LoadFile(t) \/ ReloadFile(t)
      BY Zenon, <2>2, <3>2, LoadKeeps
    <3>3. CASE WriteEntry(t)
      BY Zenon, <2>2, <3>3, WriteKeeps
    <3>4. CASE Flush(t)
      BY Zenon, <2>2, <3>4, BeginFlushKeeps
    <3>5. CASE TestFile(t)
      BY Zenon, <2>2, <3>5, TestKeeps
    <3>6. CASE FlushFile(t)
      BY Zenon, <2>2, <3>6, FlushFileKeeps
    <3>7. CASE \E name \in Name, open \in BOOLEAN : ChangeLoggerFile(t, name, open)
      BY Zenon, <2>2, <3>7, ChangeKeeps
    <3>8. CASE LockAndFlush(t)
      BY Zenon, <2>2, <3>8, LockKeeps
    <3>9. CASE MoveToBackup(t)
      BY Zenon, <2>2, <3>9, MoveKeeps
    <3>10. CASE Install(t)
      BY Zenon, <2>2, <3>10, InstallKeeps
    <3>11. QED
      BY Zenon, <1>2, <3>1, <3>2, <3>3, <3>4, <3>5, <3>6, <3>7, <3>8, <3>9, <3>10 DEF Step
  <2>5. QED
    BY Zenon, <2>3, <2>4 DEF EntriesInv, Statuses
<1>3. CASE Destroy
  <2>1. status = "running" /\ \A t \in Thread : pc[t] = "idle"
    BY Zenon, <1>3, ThreadAssumption DEF Destroy, At
  <2>2. Held /\ Entries
    BY Zenon, <2>1 DEF LoggerInv, EntriesInv
  <2>3. Safe' /\ TypeOK' /\ Live' = {}
    BY Zenon, <1>3, <2>2, DestroyKeeps
  <2>4. status' = "destroyed" /\ pc' = pc
    BY Zenon, <1>3 DEF Destroy, locals
  <2>5. QED
    BY Zenon, <2>1, <2>3, <2>4 DEF EntriesInv, Statuses
<1>4. QED
  BY Zenon, <1>1, <1>2, <1>3 DEF Next

(* What the two invariants say of a state.                                 *)
LEMMA EntriesMean ==
    ASSUME LoggerInv, EntriesInv
    PROVE  NothingLost /\ ThreadsInOrder
<1>1. Safe
  <2>1. CASE status = "destroyed"
    BY Zenon, <2>1 DEF EntriesInv
  <2>2. CASE status # "destroyed"
    BY Zenon, <2>2 DEF EntriesInv, LoggerInv, Held, LoggerTypeOK, Entries, Accounted, Order, Safe
  <2>3. QED
    BY Zenon, <2>1, <2>2
<1>2. /\ \A e \in returned : \/ \E p \in Places(e) : Places(e) = {p}
                             \/ e \in late /\ Places(e) = {}
      /\ ThreadsInOrder
  BY Zenon, <1>1, SafeMeans
<1>3. TypeOK
  <2>1. CASE status = "destroyed"
    BY Zenon, <2>1 DEF EntriesInv
  <2>2. CASE status # "destroyed"
    BY Zenon, <2>2 DEF EntriesInv, LoggerInv, Held, LoggerTypeOK, Mutex, Entries, Store, Lifetimes,
                Fresh, TypeOK
  <2>3. QED
    BY Zenon, <2>1, <2>2
<1>4. \A f \in Live : f \in {file, backup_file} \cup {created[t] : t \in Thread}
  BY Zenon DEF EntriesInv, Entries, Lifetimes
<1>5. ASSUME NEW t \in Thread, pc[t] = "aborted", fatal[t] = "LogFatal", moves[t] = 0
      PROVE  entry[t] \in {disk[file_name][k] : k \in DOMAIN disk[file_name]}
  <2>1. status # "destroyed"
    BY Zenon, <1>5 DEF LoggerInv
  <2>2. FatalEntry(t)
    BY Zenon, <2>1 DEF EntriesInv, Entries, FatalKept
  <2>3. QED
    BY Zenon, <1>5, <2>2 DEF FatalEntry, In
<1>6. NothingLost
  BY Zenon, <1>2, <1>3, <1>4, <1>5 DEF NothingLost
<1>7. QED
  BY Zenon, <1>2, <1>6

(* For any number of threads, LogFiles, entries and rotations: an entry    *)
(* whose LogMessage has returned is in exactly one place, unless it was    *)
(* written after ChangeLoggerFile's flush and lost with that LogFile; and  *)
(* LogFatal's entry is on disk before abort().                             *)
THEOREM NothingIsLost == Spec => []NothingLost
<1>1. LoggerInv /\ EntriesInv => NothingLost
  BY Zenon, EntriesMean
<1>2. EntriesInv /\ LoggerInv /\ LoggerInv' /\ [Next]_vars => EntriesInv'
  BY Zenon, EntriesNext
<1>3. QED
  BY <1>1, <1>2, LoggerInit, LoggerNext, EntriesInit, PTL DEF Spec

(* Likewise: no file shows two entries of one thread in the wrong order,   *)
(* as long as file_ and backup_file_ never had one name.                   *)
THEOREM ThreadsStayInOrder == Spec => []ThreadsInOrder
<1>1. LoggerInv /\ EntriesInv => ThreadsInOrder
  BY Zenon, EntriesMean
<1>2. EntriesInv /\ LoggerInv /\ LoggerInv' /\ [Next]_vars => EntriesInv'
  BY Zenon, EntriesNext
<1>3. QED
  BY <1>1, <1>2, LoggerInit, LoggerNext, EntriesInit, PTL DEF Spec
=============================================================================
