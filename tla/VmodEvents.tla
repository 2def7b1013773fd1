----------------------------- MODULE VmodEvents -----------------------------
(***************************************************************************)
(* What the VCLs that import the VMOD share, vmod_state in                 *)
(* src/src/helpers.c: a handle of the Lua library and the class of the     *)
(* locks of scripts, held from the first LOAD event to the last DISCARD    *)
(* (vmod_event_function() in src/src/vmod_cfg.c).  Scripts create their    *)
(* lock in that class when a VCL is loaded, and delete it before the VCL   *)
(* is discarded: Varnish finalises objects in the reverse of the order it  *)
(* made them in, and events are sent by one thread.  Events of temperature *)
(* change nothing.                                                         *)
(***************************************************************************)
EXTENDS Integers, FiniteSets

CONSTANTS
    Vcls,      \* VCLs
    Scripts,   \* script objects
    NoClass,   \* no class
    MaxClasses \* BOUND: classes made

ASSUME EventsAssumption == MaxClasses \in Nat /\ NoClass \notin Nat /\ NoClass \notin Vcls

VARIABLES
    loaded, \* the VCLs between their LOAD and their DISCARD
    home,   \* the VCL of each script; a VCL, or none
    refs,   \* vmod_state.refs
    lua,    \* handles of the library that are open
    class,  \* the class vmod_state.locks.script is, until it is destroyed
    made,   \* how many classes were made
    classOf \* the class of the lock of each script

eventVars == <<loaded, home, refs, lua, class, made, classOf>>

NoVcl == NoClass

\* VCL_EVENT_LOAD
Load(v) ==
    /\ v \notin loaded /\ made < MaxClasses
    /\ loaded' = loaded \cup {v}
    /\ IF refs = 0
       THEN class' = made + 1 /\ made' = made + 1 /\ lua' = lua + 1
       ELSE UNCHANGED <<class, made, lua>>
    /\ refs' = refs + 1
    /\ UNCHANGED <<home, classOf>>

\* Lck_New() in vmod_script__init().
NewScript(v, s) ==
    /\ v \in loaded /\ home[s] = NoVcl
    /\ home' = [home EXCEPT ![s] = v]
    /\ classOf' = [classOf EXCEPT ![s] = class]
    /\ UNCHANGED <<loaded, refs, lua, class, made>>

\* Lck_Delete() in vmod_script__fini().
FiniScript(s) ==
    /\ home[s] # NoVcl
    /\ home' = [home EXCEPT ![s] = NoVcl]
    /\ classOf' = [classOf EXCEPT ![s] = NoClass]
    /\ UNCHANGED <<loaded, refs, lua, class, made>>

\* Bug: a VCL that goes takes the class with it.
BugDiscard(v) ==
    /\ v \in loaded /\ \A s \in Scripts : home[s] # v
    /\ loaded' = loaded \ {v}
    /\ refs' = refs - 1
    /\ lua' = lua - 1 /\ class' = NoClass
    /\ UNCHANGED <<home, made, classOf>>

\* VCL_EVENT_DISCARD
Discard(v) ==
    /\ v \in loaded /\ \A s \in Scripts : home[s] # v
    /\ loaded' = loaded \ {v}
    /\ refs' = refs - 1
    /\ IF refs = 1 THEN lua' = lua - 1 /\ class' = NoClass ELSE UNCHANGED <<lua, class>>
    /\ UNCHANGED <<home, made, classOf>>

EventsInit ==
    /\ loaded = {} /\ refs = 0 /\ lua = 0 /\ class = NoClass /\ made = 0
    /\ home = [s \in Scripts |-> NoVcl]
    /\ classOf = [s \in Scripts |-> NoClass]

EventsNext ==
    \/ \E v \in Vcls : Load(v) \/ Discard(v) \/ \E s \in Scripts : NewScript(v, s)
    \/ \E s \in Scripts : FiniScript(s)

EventsSpec == EventsInit /\ [][EventsNext]_eventVars

\* While a script lives, its lock is in the class of locks there is, whatever VCLs
\* came and went since it was made; the counter that decides is the number of
\* loaded VCLs, and without any the library is closed as often as it was opened.
\* (vmod_event_function(): refs is all that tells the first LOAD from the others.)
LocksHaveClass ==
    /\ \A s \in Scripts : home[s] # NoVcl =>
           home[s] \in loaded /\ classOf[s] = class /\ class # NoClass
    /\ refs = Cardinality(loaded)
    /\ lua = IF loaded = {} THEN 0 ELSE 1
    /\ class = NoClass <=> loaded = {}

=============================================================================
