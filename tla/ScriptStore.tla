---------------------------- MODULE ScriptStore ----------------------------
(***************************************************************************)
(* Scripts at work on what they share: a worker gets an engine of the pool *)
(* (EngineAllocator), executes commands on variables (SharedVariables) and *)
(* regular expressions (RegexpCache), also inside of an .eval(), and gives *)
(* the engine back.  Meanwhile .stats() of src/src/vmod_cfg_script.c takes *)
(* the locks of both and the mutex of the object at once.                  *)
(***************************************************************************)
EXTENDS SharedVariables, RegexpCache

ASSUME StoreAssumption == Null \notin Threads

VARIABLES
    mutex, \* who has script->state.mutex; sections that take nothing else
           \* while they have it are one step
    call   \* per worker: where it is in .execute() or .stats()

objectVars == <<allocVars, sharedVars, regexpVars, mutex, call>>

Calls == {"none", "engine", "variables", "regexps", "mutex", "print"}

Calling(t, c) == call[t] = c
MoveCall(t, c) == call' = [call EXCEPT ![t] = c]

----------------------------------------------------------------------------
(* .execute() *)

Execute(t) ==
    /\ Calling(t, "none") /\ engine[t] = Null
    /\ MoveCall(t, "engine")
    /\ UNCHANGED <<allocVars, sharedVars, regexpVars, mutex>>

\* lock_engine() takes the mutex.
StartScript(t) ==
    /\ Calling(t, "engine") /\ mutex = Null
    /\ Enter(t)
    /\ MoveCall(t, "none")
    /\ UNCHANGED <<regexpVars, mutex>>

\* Between commands.
AtWork(t) == Running(t) /\ ReAt(t, "none")

\* unlock_engine() takes the mutex.
EndScript(t) ==
    /\ AtWork(t) /\ mutex = Null
    /\ Leave(t)
    /\ UNCHANGED <<regexpVars, mutex, call>>

SharedCommand(t) ==
    /\ AtWork(t)
    /\ Begin(t)
    /\ UNCHANGED <<regexpVars, mutex, call>>

RegexpCommand(t) ==
    /\ AtWork(t)
    /\ \E p \in Patterns, cached \in BOOLEAN : Regexp(t, p, cached)
    /\ UNCHANGED <<allocVars, sharedVars, mutex, call>>

Return(t) ==
    /\ ReAt(t, "none")
    /\ EvalReturns(t)
    /\ UNCHANGED <<regexpVars, mutex, call>>

SharedStep(t) == Proceed(t) /\ UNCHANGED <<regexpVars, mutex, call>>
ReStep(t) == RegexpStep(t) /\ UNCHANGED <<allocVars, sharedVars, mutex, call>>

----------------------------------------------------------------------------
(* .stats() *)

Stats(t) ==
    /\ Calling(t, "none") /\ engine[t] = Null
    /\ MoveCall(t, "variables")
    /\ UNCHANGED <<allocVars, sharedVars, regexpVars, mutex>>

\* Bug: the locks are taken the other way round.
BugStatsLock(t) ==
    \/ /\ Calling(t, "variables") /\ CanRead(rlock)
       /\ rlock' = RdLock(rlock, t)
       /\ MoveCall(t, "regexps")
       /\ UNCHANGED <<vlock, mutex>>
    \/ /\ Calling(t, "regexps") /\ CanRead(vlock)
       /\ vlock' = RdLock(vlock, t)
       /\ MoveCall(t, "mutex")
       /\ UNCHANGED <<rlock, mutex>>
    \/ /\ Calling(t, "mutex") /\ mutex = Null
       /\ mutex' = t
       /\ MoveCall(t, "print")
       /\ UNCHANGED <<vlock, rlock>>

\* The documented order of the locks.
StatsLock(t) ==
    \/ /\ Calling(t, "variables") /\ CanRead(vlock)
       /\ vlock' = RdLock(vlock, t)
       /\ MoveCall(t, "regexps")
       /\ UNCHANGED <<rlock, mutex>>
    \/ /\ Calling(t, "regexps") /\ CanRead(rlock)
       /\ rlock' = RdLock(rlock, t)
       /\ MoveCall(t, "mutex")
       /\ UNCHANGED <<vlock, mutex>>
    \/ /\ Calling(t, "mutex") /\ mutex = Null
       /\ mutex' = t
       /\ MoveCall(t, "print")
       /\ UNCHANGED <<vlock, rlock>>

StatsPrint(t) ==
    /\ Calling(t, "print")
    /\ mutex' = Null
    /\ rlock' = RwUnlock(rlock, t) /\ vlock' = RwUnlock(vlock, t)
    /\ MoveCall(t, "none")

StatsStep(t) ==
    /\ StatsLock(t) \/ StatsPrint(t)
    /\ UNCHANGED <<allocVars, globals, nglobals, isLocked, frames, cmd, got, cache, ncache, vres, re>>

----------------------------------------------------------------------------
(* Specification *)

\* vmod_script__fini: no worker uses the object any more.
Discard ==
    /\ \A t \in Threads : Calling(t, "none")
    /\ FlushVariables /\ FlushRegexps
    /\ UNCHANGED <<mutex, call>>

Init ==
    /\ SharedInit /\ RegexpInit
    /\ mutex = Null
    /\ call = [t \in Threads |-> "none"]

\* What a worker starts, and what it goes on with.
Starts(t) == Execute(t) \/ Stats(t) \/ SharedCommand(t) \/ RegexpCommand(t)
Goes(t) ==
    \/ StartScript(t) \/ SharedStep(t) \/ ReStep(t) \/ StatsStep(t)
    \/ Return(t) \/ EndScript(t)

Next == Discard \/ \E t \in Threads : Starts(t) \/ Goes(t)

Spec == Init /\ [][Next]_objectVars

\* Locks are given to those that ask for them when nobody is in the way, and
\* scripts end.
LiveSpec == Spec /\ \A t \in Threads : WF_objectVars(Goes(t))

----------------------------------------------------------------------------
(* Properties *)

\* What t waits for, u has: an engine, or one of the three locks.
WaitsFor(t, u) ==
    \/ Calling(t, "engine") /\ engine[u] # Null
    \/ (cmd[t].at = "lock" \/ Calling(t, "variables")) /\ HoldsLock(vlock, u)
    \/ (re[t].at \in {"find", "insert"} \/ Calling(t, "regexps"))
          /\ HoldsLock(rlock, u)
    \/ call[t] \in {"engine", "mutex"} /\ mutex = u

\* The workers of a script object never wait for one another in a circle,
\* whatever scripts do inside of .eval() while others call .stats().
NoCircle ==
    \A S \in (SUBSET Threads) \ {{}} :
        \E t \in S : \A u \in S : ~WaitsFor(t, u)

\* Once scripts start nothing new, every call gets its locks and returns.
CallsEnd ==
    <>[][\A t \in Threads : ~Starts(t)]_objectVars
        => \A t \in Threads :
              engine[t] # Null \/ ~Calling(t, "none")
                  ~> engine[t] = Null /\ Calling(t, "none")

----------------------------------------------------------------------------
(* Inductive invariant *)

\* Who has which lock.
LocksOK ==
    /\ \A t \in Threads :
          /\ t \in vlock.writers <=> WritesVariables(t)
          /\ t \in vlock.readers <=>
                ReadsVariables(t) \/ call[t] \in {"regexps", "mutex", "print"}
          /\ t \in rlock.writers <=> ReAt(t, "inserting")
          /\ t \in rlock.readers <=>
                ReAt(t, "finding") \/ call[t] \in {"mutex", "print"}
          /\ mutex = t <=> Calling(t, "print")

\* A worker does one thing at a time.
OneThing ==
    \A t \in Threads :
        /\ ~Calling(t, "none") => engine[t] = Null
        /\ engine[t] = Null => ReAt(t, "none")
        /\ cmd[t].at = "none" \/ ReAt(t, "none")

StoreTypeOK ==
    /\ SharedTypeOK /\ RegexpTypeOK
    /\ mutex \in Threads \cup {Null} /\ call \in [Threads -> Calls]

StoreInv ==
    /\ StoreTypeOK
    /\ FramesOK /\ CommandsOK /\ EnginesOK /\ ValuesOK
    /\ LocksOK /\ OneThing
    /\ ReadsStay /\ NoFreedValue
    /\ RegexpsOK /\ VresOwned

----------------------------------------------------------------------------
(* The global variables are an atomic store (AtomicStore) *)

Writer == CHOOSE t \in vlock.writers : TRUE

\* A value being replaced is the one that takes its place.
StoredValue ==
    [k \in Keys |-> IF globals[k] = Freed THEN cmd[Writer].value ELSE globals[k]]

InEval ==
    IF vlock.writers # {} /\ frames[Writer] # <<>> THEN Writer ELSE Null

Atomic == INSTANCE AtomicStore WITH
              store <- StoredValue, owner <- InEval, read <- got

\* Gets, sets and unsets are atomic, and so is all that happens between the
\* begin and the end of an .eval().
ImplementsAtomicStore == Atomic!StoreSpec

=============================================================================
