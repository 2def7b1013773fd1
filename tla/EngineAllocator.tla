-------------------------- MODULE EngineAllocator --------------------------
(***************************************************************************)
(* What the pool of engines of a script object promises to those that      *)
(* execute scripts (EnginePool implements it): a worker gets an engine     *)
(* nobody else has, new or used before, and there are never more than      *)
(* MaxEngines of them.                                                     *)
(***************************************************************************)
EXTENDS Naturals, FiniteSets

CONSTANTS
    Threads,   \* the worker threads
    Engines,   \* heap addresses of engines
    Null,      \* the NULL pointer
    MaxEngines \* script->max_engines

VARIABLES
    alive, \* the engines there are
    engine \* the engine each worker has

allocVars == <<alive, engine>>

Held == {engine[t] : t \in Threads} \ {Null}

AllocInit == alive = {} /\ engine = [t \in Threads |-> Null]

\* lock_engine(): some engines nobody has, drop, may be freed on the way, and
\* e, maybe at the address of one of them, is new unless it stays alive.
Acquire(t, e, drop) ==
    /\ engine[t] = Null
    /\ e \notin Held /\ drop \subseteq alive \ Held
    /\ alive' = (alive \ drop) \cup {e}
    /\ Cardinality(alive') <= MaxEngines
    /\ engine' = [engine EXCEPT ![t] = e]

\* unlock_engine()
Release(t) ==
    /\ engine[t] # Null
    /\ engine' = [engine EXCEPT ![t] = Null]
    /\ UNCHANGED alive

\* flush_engines(), when nobody has an engine
Flush ==
    /\ Held = {}
    /\ alive' = {}
    /\ UNCHANGED engine

AllocNext ==
    \/ Flush
    \/ \E t \in Threads :
          \/ Release(t)
          \/ \E e \in Engines, drop \in SUBSET Engines : Acquire(t, e, drop)

AllocSpec == AllocInit /\ [][AllocNext]_allocVars

=============================================================================
