------------------------------- MODULE Logger -------------------------------
(***************************************************************************)
(* green_turtle/logger.* and log_file.*: threads write entries through one *)
(* Logger without a lock, while ChangeLoggerFile swaps the LogFile under   *)
(* their feet.  A LogFile collects entries in its stdio buffer; fflush,    *)
(* fclose and a full buffer move them to the file on disk.  What abort()   *)
(* finds in a buffer is lost.                                              *)
(*                                                                         *)
(* Entries are numbered in the order their calls begin.  How an entry is   *)
(* formatted is in the modules LogHeader and Format; size_, which only     *)
(* GetWrittenSize reads, is left out.                                      *)
(***************************************************************************)
EXTENDS Integers, Sequences

CONSTANTS
    Thread, NoThread,
    Name,            \* file names
    LogFileCache,    \* kLogFileCache, in entries
    MaxEntries,      \* bound: entries logged
    MaxFiles         \* bound: LogFiles created

ASSUME ThreadAssumption == NoThread \notin Thread /\ Thread # {}
ASSUME CacheAssumption == LogFileCache \in Nat \ {0}

VARIABLES
    pc, ptr, entry, fatal, created,   \* the threads' locals
    file, backup_file, file_name, lock,
    files,           \* every LogFile created: [name, open, alive, buf]
    disk,            \* what each file holds on disk
    status,          \* of the process, or "destroyed" for the Logger's end
    calls,           \* entries begun
    returned,        \* history: entries whose LogMessage has returned
    late,            \* history: those of them written after ChangeLoggerFile's flush
    moves,           \* history: rotations since the thread's call read file_
    twin             \* history: file_ and backup_file_ once had one name

locals == <<pc, ptr, entry, fatal, created>>
logger == <<file, backup_file, file_name, lock>>
outside == <<files, disk, status, calls>>
history == <<returned, late, moves, twin>>
vars == <<locals, logger, outside, history>>

NoFile == 0

NewLogFile(name, open) == [name |-> name, open |-> open, alive |-> TRUE, buf |-> <<>>]

Init ==
    /\ pc = [t \in Thread |-> "idle"]
    /\ ptr = [t \in Thread |-> NoFile]
    /\ entry = [t \in Thread |-> <<t, 0>>]
    /\ fatal = [t \in Thread |-> "no"]
    /\ created = [t \in Thread |-> NoFile]
    /\ \E name \in Name, open \in BOOLEAN :
          files = <<NewLogFile(name, open)>> /\ file_name = name
    /\ file = 1 /\ backup_file = NoFile /\ lock = NoThread
    /\ disk = [name \in Name |-> <<>>]
    /\ status = "running" /\ calls = 0
    /\ returned = {} /\ late = {} /\ moves = [t \in Thread |-> 0] /\ twin = FALSE

At(t, label) == status = "running" /\ pc[t] = label
Goto(t, label) == pc' = [pc EXCEPT ![t] = label]
Dies(how) == status' = how /\ UNCHANGED <<locals, logger, files, disk, calls, history>>
-----------------------------------------------------------------------------
(* LogFile::Flush.  A LogFile whose fopen failed has an empty buffer.      *)
FlushTo(d, f) == [d EXCEPT ![files[f].name] = @ \o files[f].buf]
Emptied(f) == [files EXCEPT ![f].buf = <<>>]

(* ~LogFile: file_ is declared before buffer_, so fclose comes after the   *)
(* stdio buffer is freed, and what was still in it may be anything by then *)
(* (modelled as nothing).  The outcomes: the LogFiles and the disk.        *)
Bug_LeakedBackup(f, d) == {<<files, d>>}
Closed(f, d) ==
    IF f = NoFile THEN {<<files, d>>}
    ELSE {[files EXCEPT ![f].buf = <<>>, ![f].alive = FALSE]} \X {d, FlushTo(d, f)}

(* LogFile::Write: fwrite, which first empties a full buffer.              *)
Write(f, e) ==
    IF Len(files[f].buf) = LogFileCache
      THEN /\ files' = [files EXCEPT ![f].buf = <<e>>]
           /\ disk' = FlushTo(disk, f)
      ELSE /\ files' = [files EXCEPT ![f].buf = Append(@, e)]
           /\ UNCHANGED disk
-----------------------------------------------------------------------------
(* The beginning of Log (how = "no"), LogFatal and VFatal, for an entry    *)
(* that passes the level test of the macros or of FormatMessage.           *)
Log(t, how) ==
    /\ At(t, "idle") /\ calls < MaxEntries
    /\ calls' = calls + 1
    /\ entry' = [entry EXCEPT ![t] = <<t, calls + 1>>]
    /\ fatal' = [fatal EXCEPT ![t] = how]
    /\ Goto(t, "load")
    /\ UNCHANGED <<ptr, created, logger, files, disk, status, history>>

(* LogMessage: file_->Write(str, len + 1) loads file_ ...                  *)
LoadFile(t) ==
    /\ At(t, "load")
    /\ IF file = NoFile THEN Dies("segv")
       ELSE /\ ptr' = [ptr EXCEPT ![t] = file]
            /\ moves' = [moves EXCEPT ![t] = 0]
            /\ Goto(t, "write")
            /\ UNCHANGED <<entry, fatal, created, logger, outside, returned, late, twin>>

(* LogMessage has returned: LogFatal goes on to Flush and abort, VFatal    *)
(* calls abort() before its Flush.                                         *)
Bug_AbortFirst(t) ==
    IF fatal[t] = "no" THEN Goto(t, "idle") /\ UNCHANGED status
    ELSE status' = "abort" /\ Goto(t, "aborted")
Written(t) ==
    CASE fatal[t] = "no" -> Goto(t, "idle") /\ UNCHANGED status
      [] fatal[t] = "LogFatal" -> Goto(t, "flush") /\ UNCHANGED status
      [] fatal[t] = "VFatal" -> status' = "abort" /\ Goto(t, "aborted")

(* History: between the flush of ChangeLoggerFile and the next LoadFile    *)
(* that finds the new file, a write is late.                               *)
Kept(t) ==
    /\ returned' = returned \cup {entry[t]}
    /\ late' = IF lock # NoThread \/ ptr[t] # file THEN late \cup {entry[t]} ELSE late

(* ... and writes to what it loaded.  A LogFile that is not open writes    *)
(* nothing, which assert(write_size == int(len) + 1) answers.              *)
WriteEntry(t) ==
    /\ At(t, "write")
    /\ CASE ~files[ptr[t]].alive -> Dies("undefined")
         [] files[ptr[t]].alive /\ ~files[ptr[t]].open -> Dies("assert")
         [] OTHER -> /\ Write(ptr[t], entry[t])
                     /\ Kept(t)
                     /\ Written(t)
                     /\ UNCHANGED <<ptr, entry, fatal, created, logger, calls, moves, twin>>
-----------------------------------------------------------------------------
(* Flush: if (file_) file_->Flush() loads file_ twice.                     *)
Flush(t) ==
    /\ At(t, "idle")
    /\ Goto(t, "flush")
    /\ fatal' = [fatal EXCEPT ![t] = "no"]
    /\ moves' = [moves EXCEPT ![t] = 0]
    /\ UNCHANGED <<ptr, entry, created, logger, outside, returned, late, twin>>

FlushReturns(t) ==
    IF fatal[t] = "no" THEN Goto(t, "idle") /\ UNCHANGED status
    ELSE status' = "abort" /\ Goto(t, "aborted")

TestFile(t) ==
    /\ At(t, "flush")
    /\ IF file = NoFile THEN FlushReturns(t) ELSE Goto(t, "reload") /\ UNCHANGED status
    /\ UNCHANGED <<ptr, entry, fatal, created, logger, files, disk, calls, history>>

ReloadFile(t) ==
    /\ At(t, "reload")
    /\ IF file = NoFile THEN Dies("segv")
       ELSE /\ ptr' = [ptr EXCEPT ![t] = file]
            /\ Goto(t, "fflush")
            /\ UNCHANGED <<entry, fatal, created, logger, outside, history>>

FlushFile(t) ==
    /\ At(t, "fflush")
    /\ IF ~files[ptr[t]].alive THEN Dies("undefined")
       ELSE /\ disk' = FlushTo(disk, ptr[t]) /\ files' = Emptied(ptr[t])
            /\ FlushReturns(t)
            /\ UNCHANGED <<ptr, entry, fatal, created, logger, calls, history>>
-----------------------------------------------------------------------------
(* ChangeLoggerFile compares the names and opens the new file outside the  *)
(* lock.  if (file) tests the pointer, so a failed fopen goes on too.      *)
ChangeLoggerFile(t, name, open) ==
    /\ At(t, "idle") /\ Len(files) < MaxFiles
    /\ file_name # name
    /\ files' = Append(files, NewLogFile(name, open))
    /\ created' = [created EXCEPT ![t] = Len(files) + 1]
    /\ Goto(t, "lock")
    /\ UNCHANGED <<ptr, entry, fatal, logger, disk, status, calls, history>>

(* The lock, and this->file_->Flush().                                     *)
Bug_NoLock(t) ==
    /\ At(t, "lock")
    /\ disk' = FlushTo(disk, file) /\ files' = Emptied(file)
    /\ Goto(t, "move")
    /\ UNCHANGED <<ptr, entry, fatal, created, logger, status, calls, history>>
LockAndFlush(t) ==
    /\ At(t, "lock") /\ lock = NoThread
    /\ lock' = t
    /\ disk' = FlushTo(disk, file) /\ files' = Emptied(file)
    /\ Goto(t, "move")
    /\ UNCHANGED <<ptr, entry, fatal, created, file, backup_file, file_name,
                   status, calls, history>>

(* backup_file_ = std::move(file_): file_ is null, the old backup deleted. *)
Bug_NoBackup(t) ==
    /\ At(t, "move")
    /\ \E c \in Closed(file, disk) : files' = c[1] /\ disk' = c[2]
    /\ backup_file' = file
    /\ file' = NoFile
    /\ moves' = [u \in Thread |-> IF moves[u] = 2 THEN 2 ELSE moves[u] + 1]
    /\ Goto(t, "install")
    /\ UNCHANGED <<ptr, entry, fatal, created, file_name, lock,
                    status, calls, returned, late, twin>>
MoveToBackup(t) ==
    /\ At(t, "move")
    /\ \E c \in Closed(backup_file, disk) : files' = c[1] /\ disk' = c[2]
    /\ backup_file' = file
    /\ file' = NoFile
    /\ moves' = [u \in Thread |-> IF moves[u] = 2 THEN 2 ELSE moves[u] + 1]
    /\ Goto(t, "install")
    /\ UNCHANGED <<ptr, entry, fatal, created, file_name, lock,
                   status, calls, returned, late, twin>>

(* file_ = std::move(file), the name, and CreateLink under the lock.       *)
Install(t) ==
    /\ At(t, "install")
    /\ file' = created[t]
    /\ file_name' = files[created[t]].name
    /\ lock' = NoThread
    /\ twin' = (twin \/ files[created[t]].name = files[backup_file].name)
    /\ created' = [created EXCEPT ![t] = NoFile]
    /\ Goto(t, "idle")
    /\ UNCHANGED <<ptr, entry, fatal, backup_file, outside, returned, late, moves>>

(* ~Logger flushes file_; then the members are destroyed, backup_file_     *)
(* first.  Its owner sees to it that no thread is using the Logger.        *)
Destroy ==
    /\ \A t \in Thread : At(t, "idle")
    /\ LET flushed == FlushTo(disk, file)
       IN  /\ \E c \in Closed(backup_file, flushed) : disk' = c[2]
           /\ files' = [f \in DOMAIN files |->
                           [files[f] EXCEPT !.buf = <<>>, !.alive = FALSE]]
    /\ status' = "destroyed"
    /\ UNCHANGED <<locals, logger, calls, history>>

Step(t) ==
    \/ \E how \in {"no", "LogFatal", "VFatal"} : Log(t, how)
    \/ LoadFile(t) \/ WriteEntry(t)
    \/ Flush(t) \/ TestFile(t) \/ ReloadFile(t) \/ FlushFile(t)
    \/ \E name \in Name, open \in BOOLEAN : ChangeLoggerFile(t, name, open)
    \/ LockAndFlush(t) \/ MoveToBackup(t) \/ Install(t)

Next ==
    \/ \E t \in Thread : Step(t)
    \/ Destroy

Spec == Init /\ [][Next]_vars
-----------------------------------------------------------------------------
Labels == {"idle", "load", "write", "flush", "reload", "fflush", "lock", "move",
           "install", "aborted"}
Statuses == {"running", "segv", "undefined", "assert", "abort", "destroyed"}
Live == {f \in DOMAIN files : files[f].alive}

(* Program counters and pointers are of their types, and no buffer holds   *)
(* more than kLogFileCache.                                                *)
TypeOK ==
    /\ pc \in [Thread -> Labels]
    /\ ptr \in [Thread -> 0 .. Len(files)] /\ created \in [Thread -> 0 .. Len(files)]
    /\ file \in 0 .. Len(files) /\ backup_file \in 0 .. Len(files)
    /\ status \in Statuses /\ lock \in Thread \cup {NoThread}
    /\ \A f \in DOMAIN files : Len(files[f].buf) <= LogFileCache
    /\ returned \subseteq Thread \X (1 .. calls)

(* Where an entry is: once for every place on disk or in a live buffer.    *)
Places(e) ==
    (UNION {{<<name, k>> : k \in {k \in DOMAIN disk[name] : disk[name][k] = e}} : name \in Name})
    \cup
    (UNION {{<<f, k>> : k \in {k \in DOMAIN files[f].buf : files[f].buf[k] = e}} : f \in Live})

(* An entry whose LogMessage has returned is kept exactly once, on disk or *)
(* in the buffer of a LogFile that somebody will still close, through any  *)
(* number of rotations; once the Logger is destroyed, all are on disk.     *)
(* Only an entry written to a LogFile after ChangeLoggerFile flushed it    *)
(* may be lost when that LogFile is destroyed; none is ever there twice.   *)
(* LogFatal flushes before it aborts: unless a rotation came between its   *)
(* write and its flush, the fatal entry is on disk.                        *)
NothingLost ==
    /\ TypeOK
    /\ status \in {"running", "destroyed"} =>
          /\ \A e \in returned : \/ \E p \in Places(e) : Places(e) = {p}
                                 \/ e \in late /\ Places(e) = {}
          /\ \A f \in Live : f \in {file, backup_file} \cup {created[t] : t \in Thread}
    /\ \A t \in Thread :
          pc[t] = "aborted" /\ fatal[t] = "LogFatal" /\ moves[t] = 0 =>
              entry[t] \in {disk[file_name][k] : k \in DOMAIN disk[file_name]}

(* What backup_file_ is for: a writer that loaded file_ before a rotation  *)
(* still finds that LogFile alive.  Only a second rotation during the same *)
(* call takes it away.                                                     *)
BackupOutlivesOneRotation ==
    \A t \in Thread :
        pc[t] \in {"write", "fflush"} /\ moves[t] < 2 => files[ptr[t]].alive

(* A file shows the entries of one thread in the order it logged them,     *)
(* also when the Logger comes back to a file it had left, whose entries    *)
(* may still be in the buffer of backup_file_.  Two ChangeLoggerFile calls *)
(* that both pass the test on file_name_ put two LogFiles on one name;     *)
(* after that nothing is promised.                                         *)
InOrder(s) ==
    \A j, k \in DOMAIN s : j < k /\ s[j][1] = s[k][1] => s[j][2] < s[k][2]
ThreadsInOrder ==
    ~twin => \A name \in Name :
        /\ InOrder(disk[name])
        /\ \A f \in Live : files[f].name = name => InOrder(disk[name] \o files[f].buf)

(* file_ is null only inside ChangeLoggerFile's critical section, and the  *)
(* name it is compared with is the name of the file in use: a thread that  *)
(* logs while nobody rotates does not crash.                               *)
CrashOnlyDuringRotation ==
    /\ status = "segv" => lock # NoThread
    /\ status = "running" /\ lock = NoThread =>
          file # NoFile /\ files[file].alive /\ files[file].name = file_name
=============================================================================
