------------------------------- MODULE Remote -------------------------------
(***************************************************************************)
(* The reload machine shared by the file, rules and script objects of the  *)
(* VMOD: check_remote() and its helpers in src/src/remote.c, as run by the *)
(* worker threads of Varnish on one object, together with the backup file  *)
(* on disk and the life cycle of the object (vmod_*__init, vmod_*__fini).  *)
(*                                                                         *)
(* A document (what the location serves, what a buffer or the backup file  *)
(* holds) is only known by its version.  A buffer is a heap cell, so that  *)
(* a leak, a double free or a use after free is a fact about the heap.     *)
(* Each section the code runs under remote->state.mutex is one action;     *)
(* everything the code does outside of the mutex is split at each point    *)
(* where another thread can tell.                                          *)
(***************************************************************************)
EXTENDS Naturals, FiniteSets

CONSTANTS
    Threads,            \* the worker threads that call methods of the object
    Reloaders,          \* the threads whose VCL calls .reload()
    Bufs,               \* heap addresses malloc() may return for contents
    Null, Freed,        \* the NULL pointer; the state of a cell not allocated
    MaxVersion,         \* BOUND: documents the location ever serves
    Broken,             \* versions whose document the callback cannot parse
    Absent, Torn,       \* backup file not created yet; partial/mixed document
    Period,             \* remote->period; 0 disables periodical reloads
    HasBackup,          \* remote->backup != NULL
    AutomatedBackups,   \* remote->automated_backups
    IgnoreLoadFailures, \* __init keeps an object whose first load failed
    DiskFaults,         \* may operations on the backup file fail?
    Crashes             \* may the Varnish child process be killed?

Versions == 1 .. MaxVersion
Empty == 0
Docs == {Empty, Torn} \cup Versions

ASSUME RemoteAssumption ==
    /\ Reloaders \subseteq Threads
    /\ Null \notin Bufs
    /\ MaxVersion \in Nat \ {0}
    /\ Broken \subseteq Versions
    /\ Torn \notin Nat /\ Absent \notin Nat /\ Freed \notin Nat
    /\ Torn # Freed /\ Absent # Torn /\ Absent # Freed
    /\ Period \in Nat
    /\ HasBackup \in BOOLEAN /\ AutomatedBackups \in BOOLEAN
    /\ IgnoreLoadFailures \in BOOLEAN
    /\ DiskFaults \in BOOLEAN /\ Crashes \in BOOLEAN

VARIABLES
    phase,       \* life of the object: "none", "loading" (in __init), "live"
    age,         \* time(NULL) - state.tst, capped where it stops mattering
    reloading,   \* state.reloading
    contents,    \* state.contents
    heap,        \* what each buffer holds
    origin,      \* version the location serves now
    backup,      \* the backup file; survives the process
    pc,          \* where each thread is in check_remote()
    forceLoad,   \* its argument force_load
    forceBackup, \* its argument force_backup
    winner,      \* its local winner
    buf,         \* its local contents
    result       \* its local result

vars == <<phase, age, reloading, contents, heap, origin, backup,
          pc, forceLoad, forceBackup, winner, buf, result>>

----------------------------------------------------------------------------
(* Vocabulary *)

\* Definitions whose name starts with Bug are plausible mistakes in the code
\* next to which they stand: no action uses them, and each one breaks a property.

\* Never loaded: state.tst = 0, or loaded longer ago than the period.
Stale == Period + 1

Labels == {"idle", "win", "read", "callback", "publish", "open", "write",
           "stat", "readbackup", "callbackbackup", "publishbackup",
           "finish", "done"}

\* Labels inside the branch of check_remote() that (re)loads the document.
LoadLabels == Labels \ {"idle", "win", "done"}

Quiet == \A t \in Threads : pc[t] \notin LoadLabels

\* The condition of the first if of check_remote(), on unlocked reads.  The
\* clock is read first: a clock read before another load ends gives a
\* difference below the period, as the new state.tst does.
Due == ~reloading /\ Period > 0 /\ age > Period

\* Bug: automated_backups is not looked at.
BugWantsBackup(t) == HasBackup /\ forceBackup[t]

WantsBackup(t) == HasBackup /\ (AutomatedBackups \/ forceBackup[t])

\* May the callback accept, or refuse, the document?  A torn document may or
\* may not parse.
Parses(doc) == doc \in Versions \ Broken \/ doc = Torn
Unparsable(doc) == doc \in Broken \cup {Empty, Torn}

Goto(t, label) == pc' = [pc EXCEPT ![t] = label]

\* malloc() of a buffer of t that is filled with doc
Alloc(t, b, doc) ==
    /\ heap[b] = Freed
    /\ heap' = [heap EXCEPT ![b] = doc]
    /\ buf' = [buf EXCEPT ![t] = b]

Free(b) == heap' = [heap EXCEPT ![b] = Freed]
FreeUnlessNull(b) == IF b = Null THEN UNCHANGED heap ELSE Free(b)
Forget(t) == buf' = [buf EXCEPT ![t] = Null]

object == <<phase, age, reloading, contents>>
outside == <<origin, backup>>
args == <<forceLoad, forceBackup, winner>>

----------------------------------------------------------------------------
(* The world: time, the document at the location *)

Tick ==
    /\ phase = "live" /\ age < Stale
    /\ age' = age + 1
    /\ UNCHANGED <<phase, reloading, contents, heap, outside, pc, args, buf,
                   result>>

\* The operator replaces the document at the location.
NewVersion ==
    /\ origin < MaxVersion
    /\ origin' = origin + 1
    /\ UNCHANGED <<object, heap, backup, pc, args, buf, result>>

----------------------------------------------------------------------------
(* Entering check_remote() *)

\* vmod_*__init: new_remote() and the forced load, in the CLI thread.  The
\* state of the object is that of a zeroed allocation.
Create(t) ==
    /\ phase = "none"
    /\ phase' = "loading"
    /\ age' = Stale /\ reloading' = FALSE /\ contents' = Null
    /\ forceLoad' = [forceLoad EXCEPT ![t] = TRUE]
    /\ Goto(t, "read")
    /\ UNCHANGED <<heap, outside, forceBackup, winner, buf, result>>

\* .reload(force_backup): check_remote() with force_load.
Reload(t, force) ==
    /\ phase = "live" /\ pc[t] = "idle" /\ t \in Reloaders
    /\ forceLoad' = [forceLoad EXCEPT ![t] = TRUE]
    /\ forceBackup' = [forceBackup EXCEPT ![t] = force]
    /\ Goto(t, "read")
    /\ UNCHANGED <<object, heap, outside, winner, buf, result>>

\* Any other method, when the unlocked test finds nothing to reload.
CheckFresh(t) ==
    /\ phase = "live" /\ pc[t] = "idle" /\ ~Due
    /\ result' = [result EXCEPT ![t] = TRUE]
    /\ Goto(t, "done")
    /\ UNCHANGED <<object, heap, outside, args, buf>>

CheckStale(t) ==
    /\ phase = "live" /\ pc[t] = "idle" /\ Due
    /\ Goto(t, "win")
    /\ UNCHANGED <<object, heap, outside, args, buf, result>>

\* Bug: the flag is not tested again under the mutex.
BugWin(t) ==
    /\ pc[t] = "win"
    /\ reloading' = TRUE
    /\ winner' = [winner EXCEPT ![t] = TRUE]
    /\ Goto(t, "read")
    /\ UNCHANGED <<phase, age, contents, heap, outside, forceLoad,
                   forceBackup, buf, result>>

\* The section under the mutex: only state.reloading is tested again.
Win(t) ==
    /\ pc[t] = "win" /\ ~reloading
    /\ reloading' = TRUE
    /\ winner' = [winner EXCEPT ![t] = TRUE]
    /\ Goto(t, "read")
    /\ UNCHANGED <<phase, age, contents, heap, outside, forceLoad,
                   forceBackup, buf, result>>

\* Bug: a thread that comes second waits for the reload to end.
BugLose(t) == pc[t] = "win" /\ reloading /\ UNCHANGED vars

Lose(t) ==
    /\ pc[t] = "win" /\ reloading
    /\ result' = [result EXCEPT ![t] = TRUE]
    /\ Goto(t, "done")
    /\ UNCHANGED <<object, heap, outside, args, buf>>

----------------------------------------------------------------------------
(* Loading from the location *)

\* remote->read: a document, or an empty one.
ReadLocation(t, b, doc) ==
    /\ pc[t] = "read"
    /\ Alloc(t, b, doc)
    /\ Goto(t, "callback")
    /\ UNCHANGED <<object, outside, args, result>>

\* Bug: the old document is dropped before the new one is there.
BugReadFails(t) ==
    /\ pc[t] = "read"
    /\ FreeUnlessNull(contents) /\ contents' = Null
    /\ Goto(t, "stat")
    /\ UNCHANGED <<phase, age, reloading, outside, args, buf, result>>

\* remote->read returns NULL: no such file, timeout, HTTP error.
ReadFails(t) ==
    /\ pc[t] = "read"
    /\ Goto(t, "stat")
    /\ UNCHANGED <<object, heap, outside, args, buf, result>>

\* The callback parses the document and installs it (see Settings).
CallbackAccepts(t) ==
    /\ \/ pc[t] = "callback" /\ Goto(t, "publish")
       \/ pc[t] = "callbackbackup" /\ Goto(t, "publishbackup")
    /\ Parses(heap[buf[t]])
    /\ result' = [result EXCEPT ![t] = TRUE]
    /\ UNCHANGED <<object, heap, outside, args, buf>>

\* Bug: the refused document is not freed.
BugCallbackRejects(t) ==
    /\ \/ pc[t] = "callback" /\ Goto(t, "stat")
       \/ pc[t] = "callbackbackup" /\ Goto(t, "finish")
    /\ Unparsable(heap[buf[t]])
    /\ Forget(t)
    /\ UNCHANGED <<object, heap, outside, args, result>>

\* Nothing to parse or a parse error: the buffer is freed.
CallbackRejects(t) ==
    /\ \/ pc[t] = "callback" /\ Goto(t, "stat")
       \/ pc[t] = "callbackbackup" /\ Goto(t, "finish")
    /\ Unparsable(heap[buf[t]])
    /\ Free(buf[t]) /\ Forget(t)
    /\ UNCHANGED <<object, outside, args, result>>

PublishMoves(t) ==
    \/ /\ pc[t] = "publish" /\ WantsBackup(t)
       /\ Goto(t, "open") /\ UNCHANGED buf
    \/ /\ pc[t] = "publish" /\ ~WantsBackup(t)
       /\ Goto(t, "finish") /\ Forget(t)
    \/ /\ pc[t] = "publishbackup"
       /\ Goto(t, "finish") /\ Forget(t)

\* Bug: the old document is not freed.
BugPublishLeaks(t) ==
    /\ PublishMoves(t)
    /\ contents' = buf[t]
    /\ UNCHANGED <<phase, age, reloading, heap, outside, args, result>>

\* Bug: the new document is freed, as when loading has failed.
BugPublishFreesNew(t) ==
    /\ PublishMoves(t)
    /\ Free(buf[t])
    /\ contents' = buf[t]
    /\ UNCHANGED <<phase, age, reloading, outside, args, result>>

\* The section under the mutex that replaces state.contents.  The thread
\* keeps its own pointer for the backup it may write next.
Publish(t) ==
    /\ PublishMoves(t)
    /\ FreeUnlessNull(contents)
    /\ contents' = buf[t]
    /\ UNCHANGED <<phase, age, reloading, outside, args, result>>

----------------------------------------------------------------------------
(* The backup file *)

\* Bug: the file is opened for update and not truncated.
BugOpenBackup(t) ==
    /\ pc[t] = "open"
    /\ backup' = IF backup = Absent THEN Empty ELSE backup
    /\ Goto(t, "write")
    /\ UNCHANGED <<object, heap, origin, args, buf, result>>

\* fopen(backup, "wb") truncates the file.
OpenBackup(t) ==
    /\ pc[t] = "open"
    /\ backup' = Empty
    /\ Goto(t, "write")
    /\ UNCHANGED <<object, heap, origin, args, buf, result>>

OpenBackupFails(t) ==
    /\ DiskFaults /\ pc[t] = "open"
    /\ Goto(t, "finish") /\ Forget(t)
    /\ UNCHANGED <<object, heap, outside, args, result>>

\* What fputs() and fclose() leave in the file.  A freed buffer may hold
\* anything; over the document of another writer a shorter one leaves a mix;
\* a write that fails leaves a part.
Written(doc) ==
    IF doc = Freed THEN {Empty, Torn}
    ELSE {doc} \cup (IF backup \in {Empty, doc} THEN {} ELSE {Torn})
               \cup (IF DiskFaults THEN {Empty, Torn} ELSE {})

WriteBackup(t) ==
    /\ pc[t] = "write"
    /\ backup' \in Written(heap[buf[t]])
    /\ Goto(t, "finish") /\ Forget(t)
    /\ UNCHANGED <<object, heap, origin, args, result>>

\* The location gave nothing usable: is there a backup to fall back on?
StatBackup(t) ==
    /\ pc[t] = "stat"
    /\ IF HasBackup /\ backup \notin {Absent, Empty}
         THEN Goto(t, "readbackup")
         ELSE Goto(t, "finish")
    /\ UNCHANGED <<object, heap, outside, args, buf, result>>

\* What a read of the file can return while another thread writes it.
Readable == {backup} \cup
            (IF \E t \in Threads : pc[t] = "write" THEN {Torn} ELSE {})

ReadBackup(t, b) ==
    /\ pc[t] = "readbackup"
    /\ \E doc \in Readable : Alloc(t, b, doc)
    /\ Goto(t, "callbackbackup")
    /\ UNCHANGED <<object, outside, args, result>>

\* No such file any more, or fewer bytes than its size: it was truncated by
\* another thread in between.
ReadBackupFails(t) ==
    /\ pc[t] = "readbackup"
    /\ DiskFaults \/ \E u \in Threads : pc[u] = "write"
    /\ Goto(t, "finish")
    /\ UNCHANGED <<object, heap, outside, args, buf, result>>

----------------------------------------------------------------------------
(* Leaving check_remote() *)

\* Bug: the winner gives the flag back only when the load succeeds.
BugFinish(t) ==
    /\ pc[t] = "finish"
    /\ age' = IF result[t] THEN 0 ELSE age
    /\ reloading' = (reloading /\ ~(winner[t] /\ result[t]))
    /\ winner' = [winner EXCEPT ![t] = FALSE]
    /\ Goto(t, "done")
    /\ UNCHANGED <<phase, contents, heap, outside, forceLoad, forceBackup, buf,
                   result>>

\* The last section under the mutex; skipped when it would change nothing.
Finish(t) ==
    /\ pc[t] = "finish"
    /\ age' = IF result[t] THEN 0 ELSE age
    /\ reloading' = (reloading /\ ~winner[t])
    /\ winner' = [winner EXCEPT ![t] = FALSE]
    /\ Goto(t, "done")
    /\ UNCHANGED <<phase, contents, heap, outside, forceLoad, forceBackup, buf,
                   result>>

ClearArgs(t) ==
    /\ Goto(t, "idle")
    /\ result' = [result EXCEPT ![t] = FALSE]
    /\ forceLoad' = [forceLoad EXCEPT ![t] = FALSE]
    /\ forceBackup' = [forceBackup EXCEPT ![t] = FALSE]

\* A method returns to the VCL.
Return(t) ==
    /\ phase = "live" /\ pc[t] = "done"
    /\ ClearArgs(t)
    /\ UNCHANGED <<object, heap, outside, winner, buf>>

\* free_remote()
FreeRemote ==
    /\ FreeUnlessNull(contents)
    /\ contents' = Null
    /\ phase' = "none"

\* vmod_*__init returns: the object is handed over or finalized.
Created(t) ==
    /\ phase = "loading" /\ pc[t] = "done"
    /\ \/ /\ result[t] \/ IgnoreLoadFailures
          /\ phase' = "live"
          /\ UNCHANGED <<contents, heap>>
       \/ /\ ~result[t] /\ ~IgnoreLoadFailures
          /\ FreeRemote
    /\ ClearArgs(t)
    /\ UNCHANGED <<age, reloading, outside, winner, buf>>

\* vmod_*__fini: Varnish discards a VCL no thread uses.
Fini ==
    /\ phase = "live" /\ \A t \in Threads : pc[t] = "idle"
    /\ FreeRemote
    /\ UNCHANGED <<age, reloading, outside, pc, args, buf, result>>

\* The child process dies: its memory is gone, the file on disk stays.
Crash ==
    /\ Crashes /\ phase # "none"
    /\ backup' \in Readable
    /\ phase' = "none" /\ contents' = Null
    /\ age' = Stale /\ reloading' = FALSE
    /\ heap' = [b \in Bufs |-> Freed]
    /\ pc' = [t \in Threads |-> "idle"]
    /\ forceLoad' = [t \in Threads |-> FALSE]
    /\ forceBackup' = [t \in Threads |-> FALSE]
    /\ winner' = [t \in Threads |-> FALSE]
    /\ buf' = [t \in Threads |-> Null]
    /\ result' = [t \in Threads |-> FALSE]
    /\ UNCHANGED origin

----------------------------------------------------------------------------
(* Specification *)

\* The file may have been left by an earlier process.
Init ==
    /\ phase = "none" /\ age = Stale /\ reloading = FALSE /\ contents = Null
    /\ heap = [b \in Bufs |-> Freed]
    /\ origin = 1
    /\ backup \in IF HasBackup THEN {Absent, Empty, Torn, 1} ELSE {Absent}
    /\ pc = [t \in Threads |-> "idle"]
    /\ forceLoad = [t \in Threads |-> FALSE]
    /\ forceBackup = [t \in Threads |-> FALSE]
    /\ winner = [t \in Threads |-> FALSE]
    /\ buf = [t \in Threads |-> Null]
    /\ result = [t \in Threads |-> FALSE]

Enter(t) ==
    \/ \E force \in BOOLEAN : Reload(t, force)
    \/ CheckFresh(t) \/ CheckStale(t)

\* What thread t does inside check_remote(), the callback aside.
Proceed(t) ==
    \/ Win(t) \/ Lose(t)
    \/ \E b \in Bufs : \E doc \in {origin, Empty} : ReadLocation(t, b, doc)
    \/ \E b \in Bufs : ReadBackup(t, b)
    \/ ReadFails(t) \/ ReadBackupFails(t)
    \/ Publish(t)
    \/ OpenBackup(t) \/ OpenBackupFails(t) \/ WriteBackup(t)
    \/ StatBackup(t)
    \/ Finish(t)

Callback(t) == CallbackAccepts(t) \/ CallbackRejects(t)

Leave(t) == Return(t) \/ Created(t)

Next ==
    \/ Tick \/ NewVersion \/ Fini \/ Crash
    \/ \E t \in Threads : 
          Create(t) \/ Enter(t) \/ Proceed(t) \/ Callback(t) \/ Leave(t)

Spec == Init /\ [][Next]_vars

----------------------------------------------------------------------------
(* Properties *)

TypeOK ==
    /\ phase \in {"none", "loading", "live"}
    /\ age \in 0 .. Stale
    /\ reloading \in BOOLEAN
    /\ contents \in Bufs \cup {Null}
    /\ heap \in [Bufs -> Docs \cup {Freed}]
    /\ origin \in Versions
    /\ backup \in Docs \cup {Absent}
    /\ pc \in [Threads -> Labels]
    /\ forceLoad \in [Threads -> BOOLEAN]
    /\ forceBackup \in [Threads -> BOOLEAN]
    /\ winner \in [Threads -> BOOLEAN]
    /\ buf \in [Threads -> Bufs \cup {Null}]
    /\ result \in [Threads -> BOOLEAN]

\* state.reloading is set exactly while one thread is the winner, and a winner
\* is inside the load: no path out of check_remote() leaves the flag behind,
\* which would stop periodical reloads for ever.
OneWinner ==
    /\ reloading <=> \E t \in Threads : winner[t]
    /\ \A t, u \in Threads : winner[t] /\ winner[u] => t = u
    /\ \A t \in Threads : winner[t] => pc[t] \in LoadLabels

\* The threads that must still free, or publish, the buffer they filled.
Owners == {t \in Threads : pc[t] \in {"callback", "publish", "callbackbackup",
                                      "publishbackup"}}

\* Every allocated buffer is reachable from exactly one place that frees it:
\* state.contents, or the local contents of one loading thread.  No path of
\* check_remote() leaks a buffer or frees it twice, whatever the overlap of
\* loads, and an object that is gone leaves nothing behind.
BuffersOwned ==
    /\ \A b \in Bufs :
          heap[b] # Freed <=> b = contents \/ \E t \in Owners : buf[t] = b
    /\ \A t \in Owners : buf[t] \in Bufs \ {contents}
    /\ \A t, u \in Owners : buf[t] = buf[u] => t = u

\* Unless load failures are ignored, an object VCL can use has a document.
LiveMeansLoaded ==
    phase = "live" /\ ~IgnoreLoadFailures => contents # Null

\* What inspect() shows is a document the callback accepted: never one it
\* refused, never an empty one, never memory already freed.
PublishedParses == contents # Null => Parses(heap[contents])

\* Once loaded, an object never loses its document while it lives: a reload
\* that fails leaves the last good one in place.
LastGoodKept ==
    [][contents # Null /\ contents' = Null => phase' = "none"]_vars

\* The buffer a thread writes to the backup file is the published one, hence
\* not freed: check_remote() uses its contents after the unlock.
BackupFromPublished ==
    \A t \in Threads : pc[t] \in {"open", "write"} => buf[t] = contents

\* With automated backups, the backup file holds the published document as
\* soon as no load is running.
BackupCurrent ==
    (Quiet /\ contents # Null /\ HasBackup /\ AutomatedBackups)
        => backup = heap[contents]

\* A load never replaces the document by an older one, even when the location
\* fails and the backup is loaded instead.
NoRegress ==
    [][(contents # contents' /\ contents # Null /\ contents' # Null)
          => \/ heap'[contents'] = heap[contents]
             \/ heap[contents] = Torn
             \/ heap'[contents'] \in Versions /\ heap'[contents'] > heap[contents]
      ]_vars

----------------------------------------------------------------------------
(* Inductive invariants: what the properties above need to be proved *)

\* An object that is gone is at rest; only its creator works on one that is
\* being created.
Life ==
    /\ phase = "none" => /\ contents = Null /\ ~reloading
                         /\ \A t \in Threads : pc[t] = "idle"
    /\ phase = "loading" =>
          /\ \A t \in Threads : pc[t] # "win"
          /\ \A t, u \in Threads : pc[t] # "idle" /\ pc[u] # "idle" => t = u

\* result is set by the callback only, and then a document gets published.
Results ==
    /\ \A t \in Threads :
          pc[t] \in {"idle", "win", "read", "callback", "stat", "readbackup",
                     "callbackbackup"} => ~result[t]
    /\ \A t \in Threads :
          /\ result[t]
          /\ pc[t] \in {"open", "write", "finish"} \/
                (pc[t] = "done" /\ phase = "loading")
          => contents # Null
    /\ LiveMeansLoaded

\* What waits to be published was accepted.
AcceptedParses ==
    /\ PublishedParses
    /\ \A t \in Threads : pc[t] \in {"publish", "publishbackup"} =>
          Parses(heap[buf[t]])

\* The backup is written from a buffer, and read only once it exists.
BackupHandled ==
    \A t \in Threads :
        /\ pc[t] \in {"open", "write"} => buf[t] \in Bufs
        /\ pc[t] = "readbackup" => backup # Absent

\* For every value of the constants.
Inv ==
    TypeOK /\ BackupHandled /\ Life /\ OneWinner /\ BuffersOwned
           /\ Results /\ AcceptedParses

\* The object is only reloaded periodically, with a backup that works.
OnlyPeriodical == Reloaders = {}
BackupWorks == HasBackup /\ AutomatedBackups /\ ~DiskFaults

\* Without forced reloads, at most one thread loads at a time.
SoleLoader ==
    /\ \A t \in Threads :
          pc[t] \in LoadLabels => winner[t] \/ phase = "loading"
    /\ BackupFromPublished

\* Every document on this side is one the location served up to now.
Served(doc) == doc \in Versions => doc <= origin

NotOlder(new, old) == new \in Versions /\ old \in Versions => new >= old

\* Without forced reloads and on a disk that works, the backup follows the
\* published document and both follow the location.
Follows ==
    /\ Served(backup)
    /\ \A b \in Bufs : Served(heap[b])
    /\ \A t \in Threads :
          /\ pc[t] \in {"callback", "publish"} =>
                heap[buf[t]] \in Versions \cup {Empty}
          /\ pc[t] \in {"callback", "publish"} /\ contents # Null =>
                NotOlder(heap[buf[t]], heap[contents])
          /\ pc[t] \in {"callbackbackup", "publishbackup"} =>
                heap[buf[t]] = backup
          /\ pc[t] = "write" => backup = Empty
    /\ contents # Null =>
          backup = heap[contents] \/ \E t \in Threads : pc[t] \in {"open", "write"}

PeriodicInv == Inv /\ SoleLoader /\ Follows

=============================================================================
