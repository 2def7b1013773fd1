-------------------------- MODULE SharedVariables --------------------------
(***************************************************************************)
(* The variables scripts share: varnish.shared.get(), .set(), .unset() and *)
(* .eval() (src/src/script_helpers.c, src/src/script_lua.c; the commands   *)
(* of src/src/script_javascript.c take the same steps).  These are those   *)
(* of scope "global", which belong to the script object, under a           *)
(* read/write lock; those of the task are in ScriptTask.  .eval() runs a   *)
(* function under the write lock, and leaves a mark in the engine, so that *)
(* the commands the function executes do not lock again.                   *)
(*                                                                         *)
(* The function given to .eval() is any sequence of commands; whether it   *)
(* returns or raises an error, .eval() ends the same way.  .incr() is one  *)
(* such function: a get, then a set, in an .eval().                        *)
(***************************************************************************)
EXTENDS EngineAllocator, Sequences, SequencesExt, RwLock

CONSTANTS
    Keys,          \* names of variables
    Values,        \* their values
    Freed,         \* a value freed and not yet replaced
    MaxDepth       \* bound: .eval() inside of .eval()

ASSUME SharedAssumption ==
    /\ IsFiniteSet(Keys)
    /\ Null \notin Engines /\ Null \notin Keys /\ Null \notin Values
    /\ Freed \notin Values \cup {Null}
    /\ MaxDepth \in Nat

VARIABLES
    globals,  \* state.variables.list of the object; Null: not there
    nglobals, \* state.variables.n
    vlock,    \* state.variables.rwlock
    isLocked, \* per engine: varnish.shared._is_locked
    frames,   \* per worker, the .eval() calls under way: whether each locks,
              \* that is, did not find the engine marked
    cmd,      \* per worker: the command under way on global variables
    got       \* per worker: the last variable got, and its value

sharedVars == <<globals, nglobals, vlock, isLocked, frames, cmd, got>>

Frames == {"locks", "nested"}
NoCommand == [at |-> "none", op |-> "none", key |-> Null, value |-> Null,
              locked |-> FALSE]
Nothing == [key |-> Null, value |-> Null]
NoVariables == [k \in Keys |-> Null]

\* A script runs, and executes no command on global variables.
Running(t) == engine[t] # Null /\ cmd[t].at = "none"

\* A command on a global variable: it locks unless the engine is marked.
Command(t, op, k, v) ==
    cmd' = [cmd EXCEPT ![t] =
              [at |-> IF isLocked[engine[t]] THEN "locked" ELSE "lock",
               op |-> op, key |-> k, value |-> v,
               locked |-> isLocked[engine[t]]]]

\* Bug: the lock of the .eval() around the command is released too.
BugFinish(t) ==
    /\ cmd' = [cmd EXCEPT ![t] = NoCommand]
    /\ vlock' = RwUnlock(vlock, t)

\* A command ends, and gives back the lock it took.
Finish(t) ==
    /\ cmd' = [cmd EXCEPT ![t] = NoCommand]
    /\ vlock' = IF cmd[t].locked THEN vlock ELSE RwUnlock(vlock, t)

Forget(t) == got' = [got EXCEPT ![t] = Nothing]

----------------------------------------------------------------------------
(* Scripts *)

\* A script starts on an engine; a new one has no mark.
Enter(t) ==
    /\ cmd[t].at = "none"
    /\ \E e \in Engines, drop \in SUBSET Engines :
          /\ Acquire(t, e, drop)
          /\ isLocked' = IF e \in alive \ drop THEN isLocked
                         ELSE [isLocked EXCEPT ![e] = FALSE]
    /\ UNCHANGED <<globals, nglobals, vlock, frames, cmd, got>>

Leave(t) ==
    /\ Running(t) /\ frames[t] = <<>>
    /\ Release(t)
    /\ Forget(t)
    /\ UNCHANGED <<globals, nglobals, vlock, isLocked, frames, cmd>>

----------------------------------------------------------------------------
(* varnish.shared.get(), .set() and .unset() *)

Ask(t, op, k, v) ==
    /\ Running(t)
    /\ Command(t, op, k, v)
    /\ UNCHANGED <<allocVars, globals, nglobals, vlock, isLocked, frames, got>>

\* A command that looks only at the variables of the task, or finds what it
\* wants there, is no step.  .set() ignores scope "all".
Get(t, k) == Ask(t, "get", k, Null)
Set(t, k, v) == Ask(t, "set", k, v)
Unset(t, k) == Ask(t, "unset", k, Null)

LockVariables(t) ==
    /\ cmd[t].at = "lock"
    /\ IF cmd[t].op = "get"
         THEN CanRead(vlock) /\ vlock' = RdLock(vlock, t)
         ELSE CanWrite(vlock) /\ vlock' = WrLock(vlock, t)
    /\ cmd' = [cmd EXCEPT ![t].at = "locked"]
    /\ UNCHANGED <<allocVars, globals, nglobals, isLocked, frames, got>>

Doing(t, op) == cmd[t].at = "locked" /\ cmd[t].op = op

\* The value is copied to the workspace under the lock; it may not fit.
GetGlobal(t) ==
    /\ Doing(t, "get")
    /\ \/ got' = [got EXCEPT ![t] = [key |-> cmd[t].key,
                                     value |-> globals[cmd[t].key]]]
       \/ Forget(t)
    /\ Finish(t)
    /\ UNCHANGED <<allocVars, globals, nglobals, isLocked, frames>>

InsertGlobal(t) ==
    /\ Doing(t, "set") /\ globals[cmd[t].key] = Null
    /\ globals' = [globals EXCEPT ![cmd[t].key] = cmd[t].value]
    /\ nglobals' = nglobals + 1
    /\ Finish(t) /\ Forget(t)
    /\ UNCHANGED <<allocVars, isLocked, frames>>

\* The old value is freed...
FreeValue(t) ==
    /\ Doing(t, "set") /\ globals[cmd[t].key] # Null
    /\ globals' = [globals EXCEPT ![cmd[t].key] = Freed]
    /\ cmd' = [cmd EXCEPT ![t].at = "freed"]
    /\ Forget(t)
    /\ UNCHANGED <<allocVars, nglobals, vlock, isLocked, frames>>

\* ... and the new one takes its place.
ReplaceValue(t) ==
    /\ cmd[t].at = "freed"
    /\ globals' = [globals EXCEPT ![cmd[t].key] = cmd[t].value]
    /\ Finish(t)
    /\ UNCHANGED <<allocVars, nglobals, isLocked, frames, got>>

\* The variable leaves the tree (and is not freed).
UnsetGlobal(t) ==
    /\ Doing(t, "unset")
    /\ globals' = [globals EXCEPT ![cmd[t].key] = Null]
    /\ nglobals' = IF globals[cmd[t].key] = Null THEN nglobals ELSE nglobals - 1
    /\ Finish(t) /\ Forget(t)
    /\ UNCHANGED <<allocVars, isLocked, frames>>

----------------------------------------------------------------------------
(* varnish.shared.eval() *)

\* The outermost one waits for the write lock.
Eval(t) ==
    /\ Running(t) /\ Len(frames[t]) < MaxDepth
    /\ IF isLocked[engine[t]]
         THEN frames' = [frames EXCEPT ![t] = Append(@, "nested")] /\ UNCHANGED cmd
         ELSE Command(t, "eval", Null, Null) /\ UNCHANGED frames
    /\ UNCHANGED <<allocVars, globals, nglobals, vlock, isLocked, got>>

EvalLocked(t) ==
    /\ Doing(t, "eval")
    /\ isLocked' = [isLocked EXCEPT ![engine[t]] = TRUE]
    /\ frames' = [frames EXCEPT ![t] = Append(@, "locks")]
    /\ cmd' = [cmd EXCEPT ![t] = NoCommand]
    /\ Forget(t)
    /\ UNCHANGED <<allocVars, globals, nglobals, vlock>>

\* Bug: the mark stays in the engine when the function raises an error.
BugEvalReturns(t) ==
    /\ Running(t) /\ frames[t] # <<>>
    /\ frames' = [frames EXCEPT ![t] = Front(@)]
    /\ IF Last(frames[t]) = "nested"
         THEN UNCHANGED <<isLocked, vlock>>
         ELSE /\ \/ isLocked' = [isLocked EXCEPT ![engine[t]] = FALSE]
                 \/ UNCHANGED isLocked
              /\ vlock' = RwUnlock(vlock, t)
    /\ UNCHANGED <<allocVars, globals, nglobals, cmd, got>>

\* The function returned, or raised an error which goes on to whatever is
\* around: only the outermost .eval() unlocks.
EvalReturns(t) ==
    /\ Running(t) /\ frames[t] # <<>>
    /\ frames' = [frames EXCEPT ![t] = Front(@)]
    /\ IF Last(frames[t]) = "nested"
         THEN UNCHANGED <<isLocked, vlock>>
         ELSE /\ isLocked' = [isLocked EXCEPT ![engine[t]] = FALSE]
              /\ vlock' = RwUnlock(vlock, t)
    /\ UNCHANGED <<allocVars, globals, nglobals, cmd, got>>

----------------------------------------------------------------------------
(* Life of the variables *)

SharedInit ==
    /\ AllocInit
    /\ globals = NoVariables /\ nglobals = 0
    /\ vlock = Unlocked
    /\ isLocked = [e \in Engines |-> FALSE]
    /\ frames = [t \in Threads |-> <<>>]
    /\ cmd = [t \in Threads |-> NoCommand]
    /\ got = [t \in Threads |-> Nothing]

\* vmod_script__fini: flush_global_variables()
FlushVariables ==
    /\ Flush
    /\ globals' = NoVariables /\ nglobals' = 0
    /\ UNCHANGED <<vlock, isLocked, frames, cmd, got>>

\* A script executes a command.
Begin(t) ==
    \/ \E k \in Keys : Get(t, k) \/ Unset(t, k) \/ \E v \in Values : Set(t, k, v)
    \/ Eval(t)

\* A command goes on.
Proceed(t) ==
    \/ LockVariables(t)
    \/ GetGlobal(t) \/ InsertGlobal(t) \/ FreeValue(t) \/ ReplaceValue(t)
    \/ UnsetGlobal(t) \/ EvalLocked(t)

----------------------------------------------------------------------------
(* Properties *)

SharedTypeOK ==
    /\ alive \subseteq Engines /\ engine \in [Threads -> Engines \cup {Null}]
    /\ globals \in [Keys -> Values \cup {Null, Freed}]
    /\ nglobals \in Nat
    /\ RwLockOK(vlock, Threads)
    /\ isLocked \in [Engines -> BOOLEAN]
    /\ frames \in [Threads -> Seq(Frames)]
    /\ cmd \in [Threads -> [at : {"none", "lock", "locked", "freed"},
                            op : {"none", "get", "set", "unset", "eval"},
                            key : Keys \cup {Null}, value : Values \cup {Null},
                            locked : BOOLEAN]]
    /\ got \in [Threads -> [key : Keys \cup {Null},
                            value : Values \cup {Null, Freed}]]

\* The mark of an engine says that its worker is in an .eval() and has the
\* write lock: however deep calls of .eval() nest, and wherever they end, no
\* mark is left for the next script, which would go without the lock.
MarkMeansLock ==
    \A e \in Engines : isLocked[e] <=>
        \E t \in Threads :
            engine[t] = e /\ frames[t] # <<>> /\ t \in vlock.writers

\* No command gets to a value that another one has freed.
NoFreedValue ==
    /\ \A t \in Threads : cmd[t].at = "locked" /\ cmd[t].op # "eval" =>
                              globals[cmd[t].key] # Freed
    /\ \A t \in Threads : got[t].value # Freed

\* What a function got inside of an .eval() is still so when it goes on: no
\* increment of .incr() is lost.
ReadsStay ==
    \A t \in Threads :
        frames[t] # <<>> /\ got[t].key # Null =>
            globals[got[t].key] = got[t].value

\* What a script reads is alive, and stays as long as nobody else may write.
ReadsHold == NoFreedValue /\ ReadsStay

----------------------------------------------------------------------------
(* Inductive invariant *)

\* The locals of the .eval() calls under way: only the outermost one locks.
FramesOK ==
    \A t \in Threads : \A i \in DOMAIN frames[t] :
        frames[t][i] = IF i = 1 THEN "locks" ELSE "nested"

\* What a worker has under way.
CommandsOK ==
    \A t \in Threads :
        /\ cmd[t].at = "none" <=> cmd[t].op = "none"
        /\ cmd[t].op \in {"get", "set", "unset"} => cmd[t].key \in Keys
        /\ cmd[t].op = "set" => cmd[t].value \in Values
        /\ cmd[t].at = "freed" => cmd[t].op = "set"
        /\ engine[t] = Null => cmd[t].at = "none" /\ frames[t] = <<>>
        /\ cmd[t].at # "none" => (cmd[t].locked <=> frames[t] # <<>>)
        /\ cmd[t].at = "lock" \/ cmd[t].op = "eval" => ~cmd[t].locked

\* Engines of workers are theirs alone, and marked in an .eval() only.
EnginesOK ==
    /\ Held \subseteq alive
    /\ \A t, u \in Threads : engine[t] = engine[u] /\ engine[t] # Null => t = u
    /\ \A t \in Threads :
          engine[t] # Null => (isLocked[engine[t]] <=> frames[t] # <<>>)
    /\ \A e \in Engines : isLocked[e] => e \in Held

\* Who has the write lock of the variables.
WritesVariables(t) ==
    \/ frames[t] # <<>>
    \/ cmd[t].at \in {"locked", "freed"} /\ cmd[t].op # "get"

\* Who has the read lock, .stats() apart.
ReadsVariables(t) ==
    cmd[t].at = "locked" /\ cmd[t].op = "get" /\ ~cmd[t].locked

\* A value is only freed while it is replaced; the variables are counted.
ValuesOK ==
    /\ \A k \in Keys : globals[k] = Freed =>
          \E t \in Threads : cmd[t].at = "freed" /\ cmd[t].key = k
    /\ \A t \in Threads : cmd[t].at = "freed" =>
          globals[cmd[t].key] = Freed /\ got[t] = Nothing
    /\ nglobals = Cardinality({k \in Keys : globals[k] # Null})

=============================================================================
