----------------------------- MODULE ScriptTask -----------------------------
(***************************************************************************)
(* The state a task keeps for the scripts it runs, task_state_t in         *)
(* src/src/script_helpers.h: the arguments pushed and the result of the    *)
(* last execution, as .init(), .push(), .execute(), .free_result() and the *)
(* getters of results in src/src/vmod_cfg_script.c see them, and the       *)
(* variables scripts share in the scope of the task.  The state is one for *)
(* all the script objects of a task, in Lua or in JavaScript.              *)
(*                                                                         *)
(* What a script returns is an input: booleans, numbers and strings are    *)
(* all a "value".  Code that does not compile is one of the outcomes of an *)
(* execution.  A script gives one command on variables at most: one that   *)
(* gives more is several executions.                                       *)
(***************************************************************************)
EXTENDS Integers, Sequences

CONSTANTS
    Args,       \* arguments
    Null,       \* the NULL pointer, or a pointer that lost some of its bytes
    MaxArgs,    \* MAX_EXECUTION_ARGS
    MaxValues,  \* MAX_RESULT_VALUES
    MaxRuns,    \* BOUND: executions per .init()
    Keys,       \* names of variables of the task
    Values,     \* values scripts give them
    Unset       \* no such variable

ASSUME TaskAssumption ==
    /\ Null \notin Args
    /\ MaxArgs \in Nat \ {0} /\ MaxValues \in Nat \ {0}
    /\ MaxRuns \in Nat
    /\ Null \notin Values /\ Unset \notin Values /\ Null # Unset

VARIABLES
    own,     \* execution.code: a code was given to .init()
    argc,    \* execution.argc; -1 before .init()
    argv,    \* execution.argv
    nvalues, \* execution.result.nvalues; -1 for a single value
    values,  \* the types in execution.result.values
    pushed,  \* what was pushed since .init() and not refused
    runs,    \* how many executions there were since .init()
    said,    \* what the last of them ended with
    engineStack, \* what it had left on the stack of its engine, bottom to top
    variables, \* the value of each variable of the task
    failed   \* VRT_fail() was called: the request is to fail

execution == <<own, argc, argv, nvalues, values, pushed, runs, said, engineStack>>
shared == <<variables, failed>>
taskVars == <<execution, shared>>

ArgIndex == 0 .. MaxArgs - 1
ValueIndex == 0 .. MaxValues - 1

\* A nil ends a table in Lua, and is an element like any other of an array in
\* JavaScript.
Elements == {"value", "table", "error", "nil"}

Nothing == [kind |-> "nothing"]
Refused == [kind |-> "refused"]
Object == [kind |-> "object"]
Uncompiled == [kind |-> "uncompiled"]
Uncopied == [kind |-> "uncopied"]
Unstored == [kind |-> "unstored"]
Halfway == [kind |-> "halfway"]
Scalar(type) == [kind |-> "scalar", type |-> type]
Table(s) == [kind |-> "table", types |-> s]

Tables == {Table(s) : s \in UNION {[1 .. k -> Elements] : k \in 0 .. MaxValues + 1}}
Scalars == {Scalar("nil"), Scalar("value")}

\* How executions end.
Outcomes ==
    {Refused, Object, Uncompiled, Uncopied, Unstored, Halfway} \cup Scalars \cup Tables

\* Once the script has returned, the 'varnish' object is under its result.
Frame == <<"varnish", "result">>
FrameItems == {"varnish", "result", "element"}

\* The result is popped, as whatever is on top of the stack, and with it, in Lua,
\* the error handler it was called with, which is left out here.
Popped(s) == SubSeq(s, 1, Len(s) - 1)

----------------------------------------------------------------------------
(* Arguments *)

\* Bug: a new execution keeps the result of the last one.
BugReset ==
    /\ argv' = [i \in ArgIndex |-> Null]
    /\ pushed' = <<>> /\ runs' = 0 /\ said' = Nothing /\ engineStack' = Popped(Frame)
    /\ UNCHANGED <<nvalues, values, shared>>

\* reset_task_state() of what concerns an execution, but code and argc.  The
\* first of the types is RESULT_VALUE_TYPE_ERROR.
Reset ==
    /\ argv' = [i \in ArgIndex |-> Null]
    /\ nvalues' = -1
    /\ values' = [i \in ValueIndex |-> "error"]
    /\ pushed' = <<>> /\ runs' = 0 /\ said' = Nothing /\ engineStack' = Popped(Frame)
    /\ UNCHANGED shared

\* .init()
InitTask(withCode) == Reset /\ own' = withCode /\ argc' = 0

\* Bug: the counter is incremented before its use.
BugPush(a) ==
    /\ argc \in 0 .. MaxArgs - 1
    /\ argv' = [i \in ArgIndex |-> IF i = argc + 1 THEN a ELSE argv[i]]
    /\ argc' = argc + 1
    /\ pushed' = Append(pushed, a)
    /\ UNCHANGED <<own, nvalues, values, runs, said, engineStack, shared>>

\* .push(); once there are MaxArgs arguments, or before .init(), it only logs.
Push(a) ==
    /\ argc \in 0 .. MaxArgs - 1
    /\ argv' = [argv EXCEPT ![argc] = a]
    /\ argc' = argc + 1
    /\ pushed' = Append(pushed, a)
    /\ UNCHANGED <<own, nvalues, values, runs, said, engineStack, shared>>

\* An argument that is NULL becomes an empty string, for which the workspace has
\* no room.
PushFails ==
    /\ argc \in 0 .. MaxArgs - 1
    /\ failed' = TRUE
    /\ UNCHANGED <<execution, variables>>

\* .free_result(); the task is back to where it was before .init().
FreeResult == Reset /\ own' = FALSE /\ argc' = -1

----------------------------------------------------------------------------
(* Executions *)

Run(o) ==
    /\ argc >= 0 /\ runs < MaxRuns
    /\ runs' = runs + 1 /\ said' = o
    /\ UNCHANGED <<own, argc, pushed>>

\* With nothing above the frame.
RunToEnd(o) == Run(o) /\ engineStack' = Popped(Frame)

\* The object has no code, the script raised an error, or what it returned
\* has no place in a result (a function...).
ExecuteError ==
    /\ RunToEnd(Refused)
    /\ values' = [values EXCEPT ![0] = "error"]
    /\ UNCHANGED <<nvalues, argv>>

\* pre_execute() fails: execute() stops, and leaves the result alone.
ExecuteUncompiled ==
    /\ own /\ RunToEnd(Uncompiled)
    /\ UNCHANGED <<argv, nvalues, values, shared>>

\* The workspace has no room for the code of the object or for its name: no
\* engine is asked for.
ExecuteUncopied ==
    /\ ~own /\ Run(Uncopied)
    /\ failed' = TRUE
    /\ UNCHANGED <<argv, nvalues, values, engineStack, variables>>

ExecuteScalar(type) ==
    /\ RunToEnd(Scalar(type))
    /\ values' = [values EXCEPT ![0] = type]
    /\ UNCHANGED <<nvalues, argv>>

\* Elements over MaxValues are left out.
Kept(s) == IF Len(s) > MaxValues THEN MaxValues ELSE Len(s)

ExecuteTable(s) ==
    /\ RunToEnd(Table(s))
    /\ nvalues' = Kept(s)
    /\ values' = [i \in ValueIndex |-> IF i < Kept(s) THEN s[i + 1] ELSE values[i]]
    /\ UNCHANGED argv

\* JavaScript: an object that is no array.  The error goes to
\* values[nvalues], where values[-1] is the last of argv and
\* values[MaxValues] is no part of the state.
ExecuteObject ==
    /\ RunToEnd(Object)
    /\ IF nvalues = -1
         THEN argv' = [argv EXCEPT ![MaxArgs - 1] = Null] /\ UNCHANGED values
         ELSE /\ values' = [i \in ValueIndex |->
                               IF i = nvalues THEN "error" ELSE values[i]]
              /\ UNCHANGED argv
    /\ UNCHANGED nvalues

\* STORE_STRING: the workspace has no room for the string returned, and
\* post_execute() gives up.
ExecuteScalarFails ==
    /\ RunToEnd(Unstored)
    /\ values' = [values EXCEPT ![0] = "error"]
    /\ UNCHANGED <<nvalues, argv>>

\* No room for the k-th element of a table, a string, counted from 0.  It is
\* stored as one, then the error is stored at 0, and nvalues says a table of k
\* elements.  JavaScript: the element is left on the stack, above the result, and
\* is what is popped; the result then passes for the 'varnish' object.
ExecuteTableFails(s, k) ==
    /\ k < Kept(s) /\ s[k + 1] = "value"
    /\ Run(Halfway) /\ engineStack' = Popped(Append(Frame, "element"))
    /\ nvalues' = k
    /\ values' = [i \in ValueIndex |->
                     IF i = 0 THEN "error" ELSE IF i <= k THEN s[i + 1] ELSE values[i]]
    /\ UNCHANGED argv

----------------------------------------------------------------------------
(* varnish.shared.set() and unset() in the scope of the task *)

SetVariable(k, v) == variables' = [variables EXCEPT ![k] = v]

\* The workspace is full, and the request fails.  There is room neither for a new
\* variable nor for its name, or the variable, new or old, gets the NULL of a
\* failed copy.
SetVariableFails(k) ==
    \/ variables[k] = Unset /\ UNCHANGED variables
    \/ variables' = [variables EXCEPT ![k] = Null]

UnsetVariable(k) == variables' = [variables EXCEPT ![k] = Unset]

Command(k) == UnsetVariable(k) \/ \E v \in Values : SetVariable(k, v)

\* The command of a script that finds room for it, if there is one.
RoomyCommand == UNCHANGED variables \/ \E k \in Keys : Command(k)

Commands ==
    \/ RoomyCommand /\ UNCHANGED failed
    \/ (\E k \in Keys : SetVariableFails(k)) /\ failed' = TRUE

\* Of a script whose result then finds no room.
CommandsThenFull ==
    /\ RoomyCommand \/ \E k \in Keys : SetVariableFails(k)
    /\ failed' = TRUE

----------------------------------------------------------------------------
(* Specification *)

\* new_task_state()
TaskInit ==
    /\ own = FALSE /\ argc = -1
    /\ argv = [i \in ArgIndex |-> Null]
    /\ nvalues = -1
    /\ values = [i \in ValueIndex |-> "error"]
    /\ pushed = <<>> /\ runs = 0 /\ said = Nothing /\ engineStack = Popped(Frame)
    /\ variables = [k \in Keys |-> Unset] /\ failed = FALSE

\* free_task_state(): the task ends, and with it all of its state.
EndTask ==
    /\ own' = FALSE /\ argc' = -1
    /\ argv' = [i \in ArgIndex |-> Null]
    /\ nvalues' = -1
    /\ values' = [i \in ValueIndex |-> "error"]
    /\ pushed' = <<>> /\ runs' = 0 /\ said' = Nothing /\ engineStack' = Popped(Frame)
    /\ variables' = [k \in Keys |-> Unset] /\ failed' = FALSE

\* Lua, where ExecuteTableFails would be: with the element still on the stack,
\* execute_lua() pops the result for the error handler, and then sets a field of
\* the error handler, for the 'varnish' table.  It is a function: Lua raises an
\* error outside of any protected call, which ends the process.
ExecutePanics == argc >= 0 /\ runs < MaxRuns /\ EndTask

Execute ==
    \/ ExecuteError \/ ExecuteObject
    \/ \E type \in {"nil", "value"} : ExecuteScalar(type)
    \/ \E o \in Tables : ExecuteTable(o.types)

ExecuteFull ==
    \/ ExecuteScalarFails
    \/ \E o \in Tables, k \in ValueIndex : ExecuteTableFails(o.types, k)

TaskNext ==
    \/ \E withCode \in BOOLEAN : InitTask(withCode)
    \/ (\E a \in Args : Push(a)) \/ PushFails
    \/ Execute /\ Commands
    \/ ExecuteFull /\ CommandsThenFull
    \/ ExecuteUncompiled \/ ExecuteUncopied
    \/ ExecutePanics
    \/ FreeResult \/ EndTask

TaskSpec == TaskInit /\ [][TaskNext]_taskVars

----------------------------------------------------------------------------
(* Properties *)

\* .result_is_table() and .get_table_result_length()
IsTable == argc >= 0 /\ nvalues >= 0

\* .result_is_error(), .result_is_nil()...
Is(type) == argc >= 0 /\ nvalues = -1 /\ values[0] = type

\* The getters tell what the last execution ended with.
Told ==
    \/ said = Nothing
    \/ /\ said \in Tables /\ IsTable
       /\ nvalues = Kept(said.types)
       /\ \A i \in 0 .. nvalues - 1 : values[i] = said.types[i + 1]
    \/ said \in Scalars /\ Is(said.type)
    \/ said \in {Refused, Object, Uncompiled, Uncopied, Unstored} /\ Is("error")

\* The getters tell what the script executed first after .init() returned,
\* whatever scripts the task had run before: nothing of an earlier result shows
\* through, also where execute() gives up before it stores anything.  Only a table
\* cut by a full workspace is told otherwise, as a shorter one, and then the
\* request is failing.
FirstResultTold == runs = 1 => Told \/ (said = Halfway /\ failed)

\* As documented, .result_is_error() tells that the script executed last ended
\* with an error, also when the task executes again without .init(), and unless
\* the request is failing.  (execute_lua() and execute_javascript(), which store
\* the error and leave nvalues alone.)
ErrorTold == said = Refused /\ ~failed => Is("error")

\* Scripts get the arguments pushed since .init(), in order and one for each
\* .push() that did not fail, and go on getting them when they are executed again;
\* all but the last one there may be, which an execution may have overwritten.
\* (.push(), .execute(), post_execute())
ArgumentsKept ==
    argc >= 0 =>
        /\ argc = Len(pushed)
        /\ \A i \in 0 .. argc - 1 :
               \/ argv[i] = pushed[i + 1]
               \/ runs > 0 /\ i = MaxArgs - 1 /\ argv[i] = Null

\* As the comments say, an execution comes to its end with the 'varnish' object as
\* the only value it has on the stack of the engine.  (execute_javascript())
StackAsSaid == engineStack = <<"varnish">>

\* Nothing of an earlier execution is left after .init().
Clean ==
    runs = 0 => /\ said = Nothing /\ nvalues = -1
                /\ values = [i \in ValueIndex |-> "error"]

TaskTypeOK ==
    /\ own \in BOOLEAN
    /\ argc \in -1 .. MaxArgs
    /\ argv \in [ArgIndex -> Args \cup {Null}]
    /\ nvalues \in -1 .. MaxValues
    /\ values \in [ValueIndex -> Elements]
    /\ pushed \in Seq(Args)
    /\ runs \in 0 .. MaxRuns
    /\ said \in {Nothing} \cup Outcomes
    /\ engineStack \in Seq(FrameItems)
    /\ variables \in [Keys -> Values \cup {Unset, Null}]
    /\ failed \in BOOLEAN

TaskInv == TaskTypeOK /\ ArgumentsKept /\ Clean /\ FirstResultTold

=============================================================================
