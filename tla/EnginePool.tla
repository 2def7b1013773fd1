----------------------------- MODULE EnginePool -----------------------------
(***************************************************************************)
(* The pool of scripting engines of a script object: lock_engine() and     *)
(* unlock_engine() in src/src/script_helpers.c.  A worker takes the oldest *)
(* free engine, creates one while there are fewer than max_engines, or     *)
(* waits on a condition variable until another worker gives one back.      *)
(*                                                                         *)
(* Each section under script->state.mutex is one action.  What a worker    *)
(* does with its engine is left to Script.                                 *)
(***************************************************************************)
EXTENDS Naturals, Sequences, FiniteSets

CONSTANTS
    Threads,    \* the worker threads
    Engines,    \* heap addresses of engines
    Null,       \* the NULL pointer
    Freed,      \* the state of an address not allocated
    MaxEngines, \* script->max_engines
    MaxCycles,  \* script->max_cycles; 0 when engines are never dropped
    Width       \* counters are kept modulo Width (2^64 in the code)

ASSUME PoolAssumption ==
    /\ IsFiniteSet(Threads) /\ IsFiniteSet(Engines)
    /\ Null \notin Engines
    /\ Freed \notin Nat
    /\ MaxEngines \in Nat \ {0} /\ MaxCycles \in Nat
    /\ Width \in Nat /\ Width > MaxEngines

VARIABLES
    free,    \* state.engines.free
    busy,    \* state.engines.busy, whose order nothing depends on
    n,       \* state.engines.n
    cycles,  \* ncycles of each engine
    created, \* state.stats.engines.total
    dropped, \* state.stats.engines.dropped.cycles
    worker,  \* where each worker is in lock_engine() and unlock_engine()
    engine   \* the engine it works with

poolVars == <<free, busy, n, cycles, created, dropped, worker, engine>>

Workers == {"idle", "lock", "waiting", "woken", "holding"}

Waiting == {t \in Threads : worker[t] = "waiting"}
Woken == {t \in Threads : worker[t] = "woken"}

MoveWorker(t, where) == worker' = [worker EXCEPT ![t] = where]

----------------------------------------------------------------------------
(* lock_engine() *)

\* Bug: the bound is off by one.
BugExpired(e) == MaxCycles > 0 /\ cycles[e] > MaxCycles

\* is_valid_engine(); an engine is used at most max_cycles times.
Expired(e) == MaxCycles > 0 /\ cycles[e] >= MaxCycles

\* The loop over the free engines drops the first k of them, up to one that
\* is valid or to the end of the list.
Drops(k) ==
    /\ \A i \in 1 .. k : Expired(free[i])
    /\ k < Len(free) => ~Expired(free[k + 1])

First(k) == {free[i] : i \in 1 .. k}

Drop(k) == dropped' = (dropped + k) % Width

\* A worker that enters lock_engine(), or is back from the condition wait.
Locking(t) == worker[t] \in {"lock", "woken"}

Request(t) ==
    /\ worker[t] = "idle"
    /\ MoveWorker(t, "lock")
    /\ UNCHANGED <<free, busy, n, cycles, created, dropped, engine>>

\* Bug: an engine that is dropped is still counted.
BugTake(t) ==
    /\ Locking(t)
    /\ \E k \in 0 .. Len(free) - 1 :
          /\ Drops(k)
          /\ free' = SubSeq(free, k + 2, Len(free))
          /\ busy' = busy \cup {free[k + 1]}
          /\ engine' = [engine EXCEPT ![t] = free[k + 1]]
          /\ cycles' = [e \in Engines |-> IF e \in First(k) THEN Freed
                                          ELSE cycles[e]]
          /\ Drop(k)
    /\ MoveWorker(t, "holding")
    /\ UNCHANGED <<n, created>>

\* Bug: the engine taken is left in the list of free ones.
BugTakeAgain(t) ==
    /\ Locking(t)
    /\ \E k \in 0 .. Len(free) - 1 :
          /\ Drops(k)
          /\ free' = SubSeq(free, k + 1, Len(free))
          /\ busy' = busy \cup {free[k + 1]}
          /\ engine' = [engine EXCEPT ![t] = free[k + 1]]
          /\ n' = n - k
          /\ cycles' = [e \in Engines |-> IF e \in First(k) THEN Freed
                                          ELSE cycles[e]]
          /\ Drop(k)
    /\ MoveWorker(t, "holding")
    /\ UNCHANGED created

Take(t) ==
    /\ Locking(t)
    /\ \E k \in 0 .. Len(free) - 1 :
          /\ Drops(k)
          /\ free' = SubSeq(free, k + 2, Len(free))
          /\ busy' = busy \cup {free[k + 1]}
          /\ engine' = [engine EXCEPT ![t] = free[k + 1]]
          /\ n' = n - k
          /\ cycles' = [e \in Engines |-> IF e \in First(k) THEN Freed
                                          ELSE cycles[e]]
          /\ Drop(k)
    /\ MoveWorker(t, "holding")
    /\ UNCHANGED created

Room(k) == n - k < MaxEngines

\* No free engine is valid and there is room for another one, maybe at the
\* address of an engine just dropped.
NewEngine(t, e) ==
    /\ Locking(t)
    /\ Drops(Len(free)) /\ Room(Len(free))
    /\ cycles[e] = Freed \/ e \in First(Len(free))
    /\ free' = <<>>
    /\ busy' = busy \cup {e}
    /\ engine' = [engine EXCEPT ![t] = e]
    /\ n' = n - Len(free) + 1
    /\ cycles' = [x \in Engines |-> IF x = e THEN 0
                                    ELSE IF x \in First(Len(free)) THEN Freed
                                    ELSE cycles[x]]
    /\ created' = (created + 1) % Width
    /\ Drop(Len(free))
    /\ MoveWorker(t, "holding")

\* Lck_CondWait().  An engine dropped makes room for a new one: a worker that
\* waits has dropped none.
Wait(t) ==
    /\ Locking(t)
    /\ free = <<>> /\ ~Room(0)
    /\ MoveWorker(t, "waiting")
    /\ UNCHANGED <<free, busy, n, cycles, created, dropped, engine>>

\* A condition wait may end without a signal.
Spurious(t) ==
    /\ worker[t] = "waiting"
    /\ MoveWorker(t, "woken")
    /\ UNCHANGED <<free, busy, n, cycles, created, dropped, engine>>

----------------------------------------------------------------------------
(* unlock_engine() *)

\* ncycles only matters when engines are dropped.
Used(c) == IF MaxCycles = 0 THEN 0 ELSE c + 1

\* Bug: the condition variable is not signalled.
BugSignal(t) == MoveWorker(t, "idle")

\* pthread_cond_signal() wakes one of the workers that wait, if any.
Signal(t) ==
    IF Waiting = {}
      THEN MoveWorker(t, "idle")
      ELSE \E w \in Waiting :
              worker' = [worker EXCEPT ![t] = "idle", ![w] = "woken"]

\* Bug: the engine is left in the list of busy ones.
BugUnlock(t) ==
    /\ worker[t] = "holding"
    /\ free' = Append(free, engine[t])
    /\ cycles' = [cycles EXCEPT ![engine[t]] = Used(@)]
    /\ engine' = [engine EXCEPT ![t] = Null]
    /\ Signal(t)
    /\ UNCHANGED <<busy, n, created, dropped>>

\* The worker has counted one more cycle of its engine just before.
Unlock(t) ==
    /\ worker[t] = "holding"
    /\ busy' = busy \ {engine[t]}
    /\ free' = Append(free, engine[t])
    /\ cycles' = [cycles EXCEPT ![engine[t]] = Used(@)]
    /\ engine' = [engine EXCEPT ![t] = Null]
    /\ Signal(t)
    /\ UNCHANGED <<n, created, dropped>>

\* vmod_script__fini: no worker uses the object any more.
FlushEngines ==
    /\ \A t \in Threads : worker[t] = "idle"
    /\ free' = <<>> /\ busy' = {} /\ n' = 0
    /\ cycles' = [e \in Engines |->
                    IF e \in busy \/ \E i \in DOMAIN free : free[i] = e
                      THEN Freed ELSE cycles[e]]
    /\ created' = 0 /\ dropped' = 0
    /\ UNCHANGED <<worker, engine>>

----------------------------------------------------------------------------
(* Specification *)

PoolInit ==
    /\ free = <<>> /\ busy = {} /\ n = 0
    /\ cycles = [e \in Engines |-> Freed]
    /\ created = 0 /\ dropped = 0
    /\ worker = [t \in Threads |-> "idle"]
    /\ engine = [t \in Threads |-> Null]

LockEngine(t) == Take(t) \/ Wait(t) \/ \E e \in Engines : NewEngine(t, e)

PoolNext ==
    \/ FlushEngines
    \/ \E t \in Threads :
          Request(t) \/ LockEngine(t) \/ Spurious(t) \/ Unlock(t)

PoolSpec == PoolInit /\ [][PoolNext]_poolVars

----------------------------------------------------------------------------
(* Properties *)

PoolTypeOK ==
    /\ free \in Seq(Engines)
    /\ busy \subseteq Engines
    /\ n \in Nat
    /\ cycles \in [Engines -> Nat \cup {Freed}]
    /\ created \in 0 .. Width - 1 /\ dropped \in 0 .. Width - 1
    /\ worker \in [Threads -> Workers]
    /\ engine \in [Threads -> Engines \cup {Null}]

\* Every engine alive is either free, once, or in the hands of exactly one
\* worker: no engine runs two scripts at a time, leaks, or is freed in use.
EnginesOwned ==
    /\ \A e \in Engines :
          cycles[e] # Freed <=> e \in busy \/ \E i \in DOMAIN free : free[i] = e
    /\ \A i, j \in DOMAIN free : free[i] = free[j] => i = j
    /\ \A i \in DOMAIN free : free[i] \notin busy
    /\ \A e \in busy : \E t \in Threads : engine[t] = e
    /\ \A t \in Threads : worker[t] = "holding" => engine[t] \in busy
    /\ \A t \in Threads : worker[t] # "holding" => engine[t] = Null
    /\ \A t, u \in Threads : engine[t] = engine[u] /\ engine[t] # Null => t = u

\* n counts the engines alive, and max_engines bounds them, however creations
\* and drops of many workers follow each other.
PoolBounded ==
    /\ n = Len(free) + Cardinality(busy)
    /\ n <= MaxEngines

\* The statistics account for every engine: it is alive or was dropped.
EnginesCounted == created = (n + dropped) % Width

\* A worker waits only while there is nothing for it: every engine that could
\* be taken or created has a worker woken up for it, even when newcomers take
\* what a signal announced, drop engines, or waits end spuriously.
NoLostWakeup ==
    Waiting # {} =>
        Len(free) + MaxEngines <= n + Cardinality(Woken)

\* No engine outlives its cycles: whoever holds one runs within max_cycles.
WithinCycles ==
    MaxCycles > 0 =>
        /\ \A e \in Engines : cycles[e] # Freed => cycles[e] <= MaxCycles
        /\ \A e \in busy : cycles[e] < MaxCycles

\* The engines there are.
Alive == {e \in Engines : cycles[e] # Freed}

Alloc == INSTANCE EngineAllocator WITH alive <- Alive

\* Those that execute scripts may take the pool for an allocator: each call of
\* lock_engine() hands out, in one step, an engine nobody has, whatever was
\* dropped, created, waited for and signalled on the way.
ImplementsAllocator == Alloc!AllocSpec

PoolInv ==
    PoolTypeOK /\ EnginesOwned /\ PoolBounded /\ NoLostWakeup /\ WithinCycles

=============================================================================
