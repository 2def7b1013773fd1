------------------------------ MODULE Settings ------------------------------
(***************************************************************************)
(* What the file and the rules objects add to the reload machine of        *)
(* Remote: the parsed settings (file->state.variables, rules->state.rules) *)
(* behind a read/write lock, the callback that replaces them, and their    *)
(* life cycle.  The two source files share this code shape; File and Rules *)
(* add the methods that read the settings.                                 *)
(*                                                                         *)
(* Parsed settings are a heap object known by the version of the document  *)
(* they were parsed from.  Every step is a step of Remote, or leaves the   *)
(* variables of Remote alone.                                              *)
(***************************************************************************)
EXTENDS Remote

CONSTANT Objs           \* heap addresses of parsed settings

ASSUME SettingsAssumption == Null \notin Objs

VARIABLES
    current,  \* the pointer in the object
    store,    \* what each parsed object holds
    retired,  \* per thread: the callback's local old, until it is flushed
    readers,  \* the threads that hold the read lock
    held,     \* per thread: the pointer a reader works on
    stage,    \* per thread: how far a reading method is
    seen      \* per thread: the documents its answer was copied from

cell == <<current, store>>
reading == <<readers, held, stage, seen>>
settingsVars == <<cell, retired, reading>>
allVars == <<vars, settingsVars>>

Stages == {"check", "locked", "unlocked", "answered"}

FlushObj(o) == store' = [store EXCEPT ![o] = Freed]

----------------------------------------------------------------------------
(* The callback *)

\* Bug: the pointer is replaced without the write lock.
BugInstallUnlocked(t, o) ==
    /\ CallbackAccepts(t)
    /\ store[o] = Freed
    /\ store' = [store EXCEPT ![o] = heap[buf[t]]]
    /\ retired' = [retired EXCEPT ![t] = current]
    /\ current' = o
    /\ UNCHANGED reading

\* Bug: the settings are not replaced when the lock is busy.
BugInstallTries(t, o) ==
    \/ BugInstallUnlocked(t, o) /\ readers = {}
    \/ CallbackAccepts(t) /\ readers # {} /\ UNCHANGED settingsVars

\* The document is parsed into a fresh object, which replaces the current one
\* under the write lock; readers keep the lock away.
Install(t, o) ==
    /\ CallbackAccepts(t)
    /\ readers = {}
    /\ store[o] = Freed
    /\ store' = [store EXCEPT ![o] = heap[buf[t]]]
    /\ retired' = [retired EXCEPT ![t] = current]
    /\ current' = o
    /\ UNCHANGED reading

\* Bug: the replaced object is not flushed.
BugFlush(t) ==
    /\ retired[t] # Null
    /\ retired' = [retired EXCEPT ![t] = Null]
    /\ UNCHANGED <<vars, cell, reading>>

\* After the unlock, the replaced object is flushed and freed.
Flush(t) ==
    /\ retired[t] # Null
    /\ FlushObj(retired[t])
    /\ retired' = [retired EXCEPT ![t] = Null]
    /\ UNCHANGED <<vars, current, reading>>

----------------------------------------------------------------------------
(* Life cycle *)

\* __init allocates empty settings, then makes the forced load.
CreateSettings(t, o) ==
    /\ Create(t)
    /\ store[o] = Freed
    /\ store' = [store EXCEPT ![o] = Empty]
    /\ current' = o
    /\ UNCHANGED <<retired, reading>>

FiniSettings ==
    /\ FlushObj(current)
    /\ current' = Null

\* __init returns; the object that is not kept goes through __fini.
CreatedSettings(t) ==
    /\ Created(t)
    /\ IF phase' = "none" THEN FiniSettings ELSE UNCHANGED cell
    /\ UNCHANGED <<retired, reading>>

Discard ==
    /\ Fini
    /\ FiniSettings
    /\ UNCHANGED <<retired, reading>>

Kill ==
    /\ Crash
    /\ current' = Null
    /\ store' = [o \in Objs |-> Freed]
    /\ retired' = [t \in Threads |-> Null]
    /\ readers' = {}
    /\ held' = [t \in Threads |-> Null]
    /\ stage' = [t \in Threads |-> "check"]
    /\ seen' = [t \in Threads |-> {}]

----------------------------------------------------------------------------
(* Methods that read: check_remote() first, then one of *)

InMethod(t) == phase = "live" /\ pc[t] = "done" /\ ~forceLoad[t]
MoveTo(t, s) == stage' = [stage EXCEPT ![t] = s]

\* Bug: the pointer is read without the lock.
BugRdLock(t) ==
    /\ InMethod(t) /\ stage[t] = "check"
    /\ held' = [held EXCEPT ![t] = current]
    /\ MoveTo(t, "locked")
    /\ UNCHANGED <<vars, cell, retired, readers, seen>>

RdLock(t) ==
    /\ InMethod(t) /\ stage[t] = "check"
    /\ readers' = readers \cup {t}
    /\ held' = [held EXCEPT ![t] = current]
    /\ MoveTo(t, "locked")
    /\ UNCHANGED <<vars, cell, retired, seen>>

Copy(t) == seen' = [seen EXCEPT ![t] = @ \cup {store[held[t]]}]

\* inspect_remote() copies state.contents under the mutex.
Inspect(t) ==
    /\ InMethod(t) /\ stage[t] = "check"
    /\ seen' = [seen EXCEPT ![t] =
                  IF contents = Null THEN {} ELSE {heap[contents]}]
    /\ MoveTo(t, "answered")
    /\ UNCHANGED <<vars, cell, retired, readers, held>>

\* .reload() returns right after check_remote(), any other method once it has
\* its answer.
ReturnSettings(t) ==
    /\ Return(t)
    /\ forceLoad[t] \/ stage[t] = "answered"
    /\ held' = [held EXCEPT ![t] = Null]
    /\ seen' = [seen EXCEPT ![t] = {}]
    /\ MoveTo(t, "check")
    /\ UNCHANGED <<cell, retired, readers>>

----------------------------------------------------------------------------
(* The steps File and Rules share *)

SettingsInit ==
    /\ Init
    /\ current = Null
    /\ store = [o \in Objs |-> Freed]
    /\ retired = [t \in Threads |-> Null]
    /\ readers = {}
    /\ held = [t \in Threads |-> Null]
    /\ stage = [t \in Threads |-> "check"]
    /\ seen = [t \in Threads |-> {}]

\* A thread back from the callback has flushed what it replaced.
RemoteStep(t) ==
    /\ Enter(t) \/ Proceed(t) \/ CallbackRejects(t)
    /\ retired[t] = Null
    /\ UNCHANGED settingsVars

SharedStep(t) ==
    \/ RemoteStep(t)
    \/ \E o \in Objs : Install(t, o) \/ CreateSettings(t, o)
    \/ Flush(t) \/ CreatedSettings(t)
    \/ RdLock(t) \/ Inspect(t) \/ ReturnSettings(t)

Environment ==
    \/ (Tick \/ NewVersion) /\ UNCHANGED settingsVars
    \/ Discard \/ Kill

----------------------------------------------------------------------------
(* Properties *)

SettingsTypeOK ==
    /\ TypeOK
    /\ current \in Objs \cup {Null}
    /\ store \in [Objs -> Docs \cup {Freed}]
    /\ retired \in [Threads -> Objs \cup {Null}]
    /\ readers \subseteq Threads
    /\ held \in [Threads -> Objs \cup {Null}]
    /\ stage \in [Threads -> Stages]
    /\ seen \in [Threads -> SUBSET (Docs \cup {Freed})]

\* Every parsed object alive is the current one or waits to be flushed by the
\* one thread that replaced it: nothing leaks, nothing is flushed twice, and
\* the object has settings exactly while it exists.
SettingsOwned ==
    /\ \A o \in Objs :
          store[o] # Freed <=> o = current \/ \E t \in Threads : retired[t] = o
    /\ \A t, u \in Threads :
          retired[t] # Null => /\ retired[t] # current
                               /\ retired[t] = retired[u] => t = u
    /\ current = Null <=> phase = "none"

\* While a thread holds the read lock, the settings it walks are the current
\* ones: nobody replaces or flushes them under its feet.
LockedSettingsLive ==
    \A t \in readers : held[t] = current /\ store[held[t]] # Freed

\* An answer is copied from memory still allocated, and from one document
\* only, however many entries it needs (dump() copies all of them).
AnswerFromOneDocument ==
    \A t \in Threads : Freed \notin seen[t] /\ \A d, e \in seen[t] : d = e

\* With no load running, get() and inspect() speak of the same document: the
\* settings in use were parsed from state.contents.
AgreeAtRest ==
    Quiet /\ contents # Null => store[current] = heap[contents]

----------------------------------------------------------------------------
(* Inductive invariant *)

\* What was replaced is flushed before the callback returns.
Retiring ==
    \A t \in Threads : retired[t] # Null => pc[t] \in {"publish", "publishbackup"}

\* A method that reads has left check_remote() and has nothing to answer yet.
Reading ==
    /\ \A t \in Threads :
          /\ t \in readers <=> stage[t] = "locked"
          /\ stage[t] # "check" => InMethod(t)
          /\ stage[t] = "check" => seen[t] = {} /\ held[t] = Null
          /\ stage[t] \in {"locked", "unlocked"} => held[t] # Null
    /\ \A t \in readers : held[t] = current

\* Without forced reloads: between the callback and the publication, the
\* settings agree with the document about to be published.
Agreement ==
    /\ \A t \in Threads : pc[t] \in {"publish", "publishbackup"} =>
          store[current] = heap[buf[t]]
    /\ contents # Null =>
          \/ store[current] = heap[contents]
          \/ \E t \in Threads : pc[t] \in {"publish", "publishbackup"}
    /\ contents = Null /\ current # Null =>
          \/ store[current] = Empty
          \/ \E t \in Threads : pc[t] \in {"publish", "publishbackup"}

SettingsInv == SettingsTypeOK /\ SettingsOwned /\ Retiring /\ Reading

=============================================================================
