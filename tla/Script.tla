------------------------------- MODULE Script -------------------------------
(***************************************************************************)
(* A script object on top of its pool of engines: the function read from   *)
(* the location (script->state.function), the callback that replaces it,   *)
(* and the executions of scripts, in src/src/vmod_cfg_script.c and         *)
(* execute_lua() of src/src/script_lua.c (execute_javascript() takes the   *)
(* same steps).                                                            *)
(*                                                                         *)
(* Any worker may hand any document to the callback at any time, as a      *)
(* call of .reload() does.  A code is known by its identity and whether it *)
(* compiles; what it computes is left out.                                 *)
(***************************************************************************)
EXTENDS EnginePool

CONSTANTS
    Codes,       \* source codes, in documents and given to .init()
    Invalid      \* those that do not compile

ASSUME ScriptAssumption == Invalid \subseteq Codes /\ Null \notin Codes

VARIABLES
    phase,       \* life of the object: "none", "loading" (in __init), "live"
    code, name,  \* state.function
    functions,   \* per engine: the code each global function stands for
    want,        \* per worker: the code and the name given to execute()
    checking,    \* per worker: called by the callback, to compile only
    stage,       \* per worker: how far execute() or the callback is
    executions   \* state.stats.executions.total

callVars == <<want, checking, stage>>
objectVars == <<phase, code, name>>
scriptVars == <<objectVars, functions, callVars, executions>>
allVars == <<poolVars, scriptVars>>

\* "f_" and the SHA-256 of the code, which tells codes apart.
NameOf(c) == <<"f", c>>
Names == {NameOf(c) : c \in Codes}

Nothing == [code |-> Null, name |-> Null]
NoFunctions == [f \in Names |-> Null]

Stages == {"none", "lookup", "call", "failed", "counted", "refused", "install"}
MoveTo(t, s) == stage' = [stage EXCEPT ![t] = s]
Done(t) == MoveTo(t, "none") /\ want' = [want EXCEPT ![t] = Nothing]

----------------------------------------------------------------------------
(* Asking for an execution *)

Ask(t, c, f, check) ==
    /\ stage[t] = "none"
    /\ Request(t)
    /\ want' = [want EXCEPT ![t] = [code |-> c, name |-> f]]
    /\ checking' = [checking EXCEPT ![t] = check]
    /\ MoveTo(t, "lookup")
    /\ UNCHANGED <<code, name, functions, executions>>

\* .execute() without a code of its own copies code and name under the mutex;
\* it gives up when there is none.
Execute(t) ==
    /\ phase = "live" /\ code # Null /\ name # Null
    /\ Ask(t, code, name, FALSE)
    /\ UNCHANGED phase

\* .init(code), then .execute(): the name is made from the code.
ExecuteOwn(t, c) ==
    /\ phase = "live"
    /\ Ask(t, c, NameOf(c), FALSE)
    /\ UNCHANGED phase

\* script_check_callback() compiles a document before it takes it.
Check(t, c) ==
    /\ phase = "live"
    /\ Ask(t, c, NameOf(c), TRUE)
    /\ UNCHANGED phase

----------------------------------------------------------------------------
(* execute() *)

\* An engine just created knows no function.
Acquire(t) ==
    /\ \/ (Take(t) \/ Wait(t)) /\ UNCHANGED functions
       \/ \E e \in Engines :
             /\ NewEngine(t, e)
             /\ functions' = [functions EXCEPT ![e] = NoFunctions]
    /\ UNCHANGED <<objectVars, callVars, executions>>

Known(t) == functions[engine[t]][want[t].name] # Null
Holds(t, s) == worker[t] = "holding" /\ stage[t] = s

\* The engine has compiled this code before.
Find(t) ==
    /\ Holds(t, "lookup") /\ Known(t)
    /\ MoveTo(t, "call")
    /\ UNCHANGED <<poolVars, objectVars, functions, want, checking, executions>>

\* pre_execute() registers the code under the name.
Compile(t) ==
    /\ Holds(t, "lookup") /\ ~Known(t) /\ want[t].code \notin Invalid
    /\ functions' = [functions EXCEPT ![engine[t]][want[t].name] = want[t].code]
    /\ MoveTo(t, "call")
    /\ UNCHANGED <<poolVars, objectVars, want, checking, executions>>

\* Bug: the function returns at once, and keeps the engine.
BugCompileFails(t) ==
    /\ Holds(t, "lookup") /\ ~Known(t) /\ want[t].code \in Invalid
    /\ Done(t)
    /\ UNCHANGED <<poolVars, objectVars, functions, checking, executions>>

\* pre_execute() fails: goto done.
CompileFails(t) ==
    /\ Holds(t, "lookup") /\ ~Known(t) /\ want[t].code \in Invalid
    /\ MoveTo(t, "failed")
    /\ UNCHANGED <<poolVars, objectVars, functions, want, checking, executions>>

\* Bug: only what could be compiled is counted.
BugCount(t) ==
    /\ \/ Holds(t, "call") /\ MoveTo(t, "counted")
          /\ executions' = (executions + 1) % Width
       \/ Holds(t, "failed") /\ MoveTo(t, "refused") /\ UNCHANGED executions
    /\ UNCHANGED <<poolVars, objectVars, functions, want, checking>>

\* The script runs, unless it is only checked; what was done is counted.
Count(t) ==
    /\ \/ Holds(t, "call") /\ MoveTo(t, "counted")
       \/ Holds(t, "failed") /\ MoveTo(t, "refused")
    /\ executions' = (executions + 1) % Width
    /\ UNCHANGED <<poolVars, objectVars, functions, want, checking>>

\* Bug: the callback takes any document.
BugGiveBack(t) ==
    /\ stage[t] \in {"counted", "refused"}
    /\ Unlock(t)
    /\ IF checking[t] THEN MoveTo(t, "install") /\ UNCHANGED want ELSE Done(t)
    /\ UNCHANGED <<objectVars, functions, checking, executions>>

\* The engine is unlocked, and the callback goes on if the document compiled.
GiveBack(t) ==
    /\ stage[t] \in {"counted", "refused"}
    /\ Unlock(t)
    /\ IF checking[t] /\ stage[t] = "counted"
         THEN MoveTo(t, "install") /\ UNCHANGED want
         ELSE Done(t)
    /\ UNCHANGED <<objectVars, functions, checking, executions>>

\* Bug: a name already there is kept.
BugInstall(t) ==
    /\ stage[t] = "install"
    /\ code' = want[t].code
    /\ name' = IF name = Null THEN want[t].name ELSE name
    /\ Done(t)
    /\ UNCHANGED <<poolVars, phase, functions, checking, executions>>

\* script_check_callback() replaces code and name under the mutex.
Install(t) ==
    /\ stage[t] = "install"
    /\ code' = want[t].code /\ name' = want[t].name
    /\ Done(t)
    /\ UNCHANGED <<poolVars, phase, functions, checking, executions>>

----------------------------------------------------------------------------
(* Life cycle *)

AtRest == \A t \in Threads : stage[t] = "none"

\* vmod_script__init: the forced load hands over the document of the location,
\* then that of the backup, if they can be read.
Create(t) ==
    /\ phase \in {"none", "loading"} /\ code = Null /\ AtRest
    /\ phase' = "loading"
    /\ \/ \E c \in Codes : Ask(t, c, NameOf(c), TRUE)
       \/ UNCHANGED <<poolVars, code, name, functions, callVars, executions>>

\* vmod_script__fini
Fini ==
    /\ AtRest /\ FlushEngines
    /\ phase' = "none" /\ code' = Null /\ name' = Null
    /\ functions' = [e \in Engines |-> NoFunctions]
    /\ executions' = 0
    /\ UNCHANGED callVars

\* __init returns.  A load that failed may be ignored.
Created ==
    /\ phase = "loading" /\ AtRest
    /\ \/ phase' = "live" /\ UNCHANGED <<poolVars, code, name, functions,
                                         callVars, executions>>
       \/ code = Null /\ Fini

\* Varnish discards a VCL no worker uses.
Discard == phase = "live" /\ Fini

----------------------------------------------------------------------------
(* Specification *)

ScriptInit ==
    /\ PoolInit
    /\ phase = "none" /\ code = Null /\ name = Null
    /\ functions = [e \in Engines |-> NoFunctions]
    /\ want = [t \in Threads |-> Nothing]
    /\ checking = [t \in Threads |-> FALSE]
    /\ stage = [t \in Threads |-> "none"]
    /\ executions = 0

Enter(t) == Execute(t) \/ \E c \in Codes : ExecuteOwn(t, c) \/ Check(t, c)

Proceed(t) ==
    \/ Acquire(t) \/ Find(t) \/ Compile(t) \/ CompileFails(t)
    \/ Count(t) \/ GiveBack(t) \/ Install(t)

ScriptNext ==
    \/ Created \/ Discard
    \/ \E t \in Threads :
          \/ Create(t) \/ Enter(t) \/ Proceed(t)
          \/ Spurious(t) /\ UNCHANGED scriptVars

ScriptSpec == ScriptInit /\ [][ScriptNext]_allVars

\* The mutex is given to whoever asks for it, and scripts end.
ScriptLiveSpec == ScriptSpec /\ \A t \in Threads : WF_allVars(Proceed(t))

----------------------------------------------------------------------------
(* Properties *)

ScriptTypeOK ==
    /\ PoolTypeOK
    /\ phase \in {"none", "loading", "live"}
    /\ code \in Codes \cup {Null} /\ name \in Names \cup {Null}
    /\ functions \in [Engines -> [Names -> Codes \cup {Null}]]
    /\ want \in [Threads -> [code : Codes \cup {Null}, name : Names \cup {Null}]]
    /\ checking \in [Threads -> BOOLEAN]
    /\ stage \in [Threads -> Stages]
    /\ executions \in 0 .. Width - 1

\* The function an engine is about to call is the code the worker asked for,
\* although code and name travel apart: through the object, which reloads
\* replace, and through engines that keep functions from one use to the next.
RightFunction ==
    \A t \in Threads :
        Holds(t, "call") => functions[engine[t]][want[t].name] = want[t].code

\* What the object runs did compile, whichever documents the location served.
FunctionCompiles == code # Null => code \notin Invalid

\* The cycles engines alive have run, as pairs of an engine and a number, and the
\* workers whose execution is counted and whose engine is still to be given back.
Turns == UNION {{e} \X (1 .. cycles[e]) : e \in Alive}
Late == {t \in Threads : stage[t] \in {"counted", "refused"}}

\* Executions end in use of an engine, so that the counters agree: all the
\* executions are in the cycles of the engines, alive or dropped, but those
\* whose engine is still to be given back.
ExecutionsCounted ==
    MaxCycles > 0 =>
        executions = (Cardinality(Turns) + dropped * MaxCycles + Cardinality(Late)) % Width

\* What .stats() shows adds up: engines alive, created and dropped, and the
\* executions they had, though each counter is incremented in a critical section
\* of its own.
StatsAddUp == EnginesCounted /\ ExecutionsCounted

\* Once no more requests come in, every call returns: no path of execute()
\* keeps an engine, and no worker waits for one for ever.
EveryCallReturns ==
    <>[][\A t \in Threads : stage[t] = "none" => stage'[t] = "none"]_allVars
        => \A t \in Threads : stage[t] # "none" ~> stage[t] = "none"

----------------------------------------------------------------------------
(* Inductive invariant *)

\* A worker is in the pool while execute() runs, and only then.
InPool ==
    \A t \in Threads :
        /\ worker[t] = "idle" <=> stage[t] \in {"none", "install"}
        /\ stage[t] \in {"call", "failed", "counted", "refused"} =>
              worker[t] = "holding"

\* Names always stand for the code they were made from.
NamesMatch ==
    /\ code # Null => name = NameOf(code)
    /\ \A t \in Threads :
          stage[t] # "none" => want[t].code \in Codes
                               /\ want[t].name = NameOf(want[t].code)
    /\ \A e \in Engines : \A c \in Codes :
          functions[e][NameOf(c)] \in {Null, c}

\* Nothing refused gets past the compiler.
Compiled ==
    /\ FunctionCompiles
    /\ \A e \in Engines : \A c \in Invalid : functions[e][NameOf(c)] = Null
    /\ \A t \in Threads :
          stage[t] \in {"call", "counted", "install"} =>
              want[t].code \notin Invalid
    /\ \A t \in Threads :
          stage[t] = "call" => functions[engine[t]][want[t].name] # Null

ScriptInv == ScriptTypeOK /\ InPool /\ NamesMatch /\ Compiled

=============================================================================
