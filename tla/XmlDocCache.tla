----------------------------- MODULE XmlDocCache -----------------------------
(***************************************************************************)
(* green_turtle/xml_doc_cache.h: parsed files with the time stat(2) gave   *)
(* for them.  Others write the files meanwhile; reading a file and asking  *)
(* for its time are separate steps, LoadFile does them in this order and   *)
(* ReloadFile in the other.  A document is the version of the file it was  *)
(* parsed from.                                                            *)
(***************************************************************************)
EXTENDS Integers

CONSTANTS
    File,
    MaxVersion,   \* bound: versions of all files
    MaxTime,      \* bound: seconds
    NoDoc, NoFile

VARIABLES
    disk,         \* per file: version, mtime in seconds, whether it parses
    now,          \* the clock, in seconds
    docs,         \* container_: per file its XmlDocInfo, or NoFile; history: what
                  \* parse_file answered, and whether ReloadFile called it
    task,         \* the call under way
    visited       \* history: files the last ReloadFile has visited and that
                  \* nobody wrote since it began

xml_vars == <<disk, now, docs, task, visited>>

DocInfo == [doc : Nat \cup {NoDoc}, modify_time : Nat, accepted : BOOLEAN, reloaded : BOOLEAN]

Idle == [op |-> "idle"]
Cached == {f \in File : docs[f] # NoFile}

Init ==
    /\ disk = [f \in File |-> [version |-> 1, mtime |-> 2, ok |-> TRUE]]
    /\ now = 2
    /\ docs = [f \in File |-> NoFile]
    /\ task = Idle
    /\ visited = {}
-----------------------------------------------------------------------------
(* The world: time passes; a file is written, or replaced by one with an   *)
(* older time, or removed (stat fails, so its time is 0).                  *)
Tick == now < MaxTime /\ now' = now + 1 /\ UNCHANGED <<disk, docs, task, visited>>

WriteFile(f, mtime, ok) ==
    /\ disk[f].version < MaxVersion
    /\ mtime = 0 => ~ok
    /\ disk' = [disk EXCEPT ![f] = [version |-> @.version + 1, mtime |-> mtime, ok |-> ok]]
    /\ visited' = visited \ {f}
    /\ task' = IF task.op = "reload" THEN [task EXCEPT !.written = @ \cup {f}] ELSE task
    /\ UNCHANGED <<now, docs>>
-----------------------------------------------------------------------------
(* LoadFile: a cached file and one that does not parse change nothing.     *)
LoadFile(f) ==
    /\ task = Idle
    /\ f \notin Cached /\ disk[f].ok
    /\ task' = [op |-> "load", file |-> f, doc |-> disk[f].version]
    /\ UNCHANGED <<disk, now, docs, visited>>

(* GetFileModifyTime, then parse_file, whose answer the caller chooses.    *)
Loaded(accept) == [doc |-> task.doc, modify_time |-> disk[task.file].mtime,
                   accepted |-> accept, reloaded |-> FALSE]
ParseLoaded(accept) ==
    /\ task.op = "load"
    /\ docs' = [docs EXCEPT ![task.file] = IF accept THEN Loaded(accept) ELSE NoFile]
    /\ task' = Idle
    /\ visited' = visited \ {task.file}
    /\ UNCHANGED <<disk, now>>

(* ReloadFile visits the cached files in the order of the hash map.        *)
ReloadFile(need_abort) ==
    /\ task = Idle
    /\ task' = [op |-> "reload", todo |-> Cached, stat |-> NoFile,
                abort |-> need_abort, written |-> {}]
    /\ visited' = {}
    /\ UNCHANGED <<disk, now, docs>>

Visited(f) == /\ task' = [task EXCEPT !.todo = @ \ {f}, !.stat = NoFile]
              /\ visited' = visited \cup ({f} \ task.written)

(* The test of the times; modify_time is what LoadFile stored.             *)
Bug_OnlyNewer(f) == disk[f].mtime > docs[f].modify_time
Modified(f) == disk[f].mtime # docs[f].modify_time

StatFile(f) ==
    /\ task.op = "reload" /\ task.stat = NoFile /\ f \in task.todo
    /\ IF Modified(f) THEN task' = [task EXCEPT !.stat = f] /\ UNCHANGED visited
                      ELSE Visited(f)
    /\ UNCHANGED <<disk, now, docs>>

(* A file that does not parse keeps its old document; a document that      *)
(* parse_file rejects stays, and ends the loop if need_abort.              *)
ParseReloaded(accept) ==
    LET f == task.stat
    IN  /\ task.op = "reload" /\ f # NoFile
        /\ docs' = IF disk[f].ok
                   THEN [docs EXCEPT ![f].doc = disk[f].version,
                                     ![f].accepted = accept, ![f].reloaded = TRUE]
                   ELSE docs
        /\ IF disk[f].ok /\ ~accept /\ task.abort
           THEN task' = Idle /\ visited' = visited \cup ({f} \ task.written)
           ELSE Visited(f)
        /\ UNCHANGED <<disk, now>>

ReloadReturns ==
    /\ task.op = "reload" /\ task.todo = {}
    /\ task' = Idle
    /\ UNCHANGED <<disk, now, docs, visited>>

(* Clear of a set of files: Clear() of all, Clear(file_name) of one.       *)
Clear(files) ==
    /\ task = Idle
    /\ docs' = [f \in File |-> IF f \in files THEN NoFile ELSE docs[f]]
    /\ visited' = visited \ files
    /\ UNCHANGED <<disk, now, task>>

(* LoadComplete drops every document and keeps the entries; a visit before *)
(* it says nothing any more.                                               *)
LoadComplete ==
    /\ task = Idle
    /\ docs' = [f \in File |-> IF f \in Cached THEN [docs[f] EXCEPT !.doc = NoDoc] ELSE NoFile]
    /\ visited' = {}
    /\ UNCHANGED <<disk, now, task>>

Next ==
    \/ Tick
    \/ \E f \in File : \/ \E mtime \in 0 .. now, ok \in BOOLEAN : WriteFile(f, mtime, ok)
                       \/ LoadFile(f) \/ StatFile(f) \/ Clear({f})
    \/ \E b \in BOOLEAN : ParseLoaded(b) \/ ReloadFile(b) \/ ParseReloaded(b)
    \/ ReloadReturns \/ Clear(File) \/ LoadComplete

Spec == Init /\ [][Next]_xml_vars
-----------------------------------------------------------------------------
(* ForEach and First look at the cached document: NoFile gives false, and  *)
(* NoDoc, after LoadComplete, is a null pointer that they dereference.     *)
Queried(f) == IF f \in Cached THEN docs[f].doc ELSE NoFile

(* A ReloadFile that visited a file leaves the document of the file as it  *)
(* is on disk, if nobody wrote it since the call began, it parses, and its *)
(* time differs from the one LoadFile stored.  So a change is missed only  *)
(* where the times are equal: a second write within the second, or one     *)
(* between LoadFile's reading and its stat(2), or a restored time.         *)
ReloadMissesOnlyEqualTimes ==
    \A f \in visited :
        \/ Queried(f) = disk[f].version
        \/ ~disk[f].ok
        \/ disk[f].mtime = docs[f].modify_time

(* What parse_file rejected is never served after LoadFile, which erases   *)
(* it; after ReloadFile it is.                                             *)
RejectedServedOnlyByReload ==
    \A f \in Cached : ~docs[f].accepted => docs[f].reloaded

(* How far the cache follows the files it was loaded from.                 *)
CacheFollowsFiles == ReloadMissesOnlyEqualTimes /\ RejectedServedOnlyByReload
=============================================================================
