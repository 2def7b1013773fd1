------------------------- MODULE ScriptTask_proofs -------------------------
(***************************************************************************)
(* What ScriptTask promises, for every limit on arguments, values and      *)
(* executions: TaskInv is inductive.  And what its scripts take the lock   *)
(* of their object from, for every set of VCLs: see VmodEvents.            *)
(***************************************************************************)
EXTENDS ScriptTask, VmodEvents, FiniteSetTheorems, TLAPS

USE TaskAssumption DEF ArgIndex, ValueIndex

\* What an execution may end with, in the form the provers use.
LEMMA OutcomeKinds ==
    /\ {Refused, Object, Uncompiled, Uncopied, Unstored, Halfway} \subseteq Outcomes
    /\ Scalar("nil") \in Outcomes /\ Scalar("value") \in Outcomes
    /\ \A o \in Tables : o \in Outcomes
BY DEF Outcomes, Scalars

\* A table has a type per element.
LEMMA TableTypes ==
    ASSUME NEW o \in Tables
    PROVE  /\ o = Table(o.types)
           /\ Len(o.types) \in Nat
           /\ \A i \in 1 .. Len(o.types) : o.types[i] \in Elements
<1>1. PICK s \in UNION {[1 .. k -> Elements] : k \in 0 .. MaxValues + 1} : o = Table(s)
  BY DEF Tables
<1>2. PICK k \in 0 .. MaxValues + 1 : s \in [1 .. k -> Elements]
  OBVIOUS
<1>3. Len(s) = k
  BY <1>2
<1>4. o.types = s
  BY <1>1 DEF Table
<1> QED
  BY <1>1, <1>2, <1>3, <1>4

\* What is popped after an execution leaves a stack.
LEMMA StackKinds ==
    /\ Popped(Frame) \in Seq(FrameItems)
    /\ Popped(Append(Frame, "element")) \in Seq(FrameItems)
<1>1. Frame \in Seq(FrameItems) /\ Len(Frame) = 2
  BY DEF Frame, FrameItems
<1>2. ASSUME NEW s \in Seq(FrameItems), Len(s) \in Nat \ {0}
      PROVE  Popped(s) \in Seq(FrameItems)
  BY <1>2 DEF Popped
<1>3. ASSUME NEW s \in Seq(FrameItems), NEW x \in FrameItems
      PROVE  Popped(Append(s, x)) \in Seq(FrameItems)
  <2>1. PICK t : t = Append(s, x)
    OBVIOUS
  <2>2. t \in Seq(FrameItems) /\ Len(t) \in Nat \ {0}
    BY <1>3, <2>1
  <2>3. Popped(t) \in Seq(FrameItems)
    BY <1>2, <2>2
  <2> QED
    BY <2>1, <2>3
<1>4. Popped(Frame) \in Seq(FrameItems)
  BY <1>1, <1>2
<1>5. "element" \in FrameItems
  BY DEF FrameItems
<1>6. Popped(Append(Frame, "element")) \in Seq(FrameItems)
  BY <1>1, <1>3, <1>5, Zenon
<1> QED
  BY <1>4, <1>6

\* Variables keep their type.
SharedOK ==
    /\ variables \in [Keys -> Values \cup {Unset, Null}]
    /\ failed \in BOOLEAN

LEMMA CommandsKeep ==
    ASSUME SharedOK, Commands \/ CommandsThenFull
    PROVE  SharedOK'
<1> USE DEF SharedOK
<1>1. RoomyCommand => variables' \in [Keys -> Values \cup {Unset, Null}]
  BY DEF RoomyCommand, Command, SetVariable, UnsetVariable
<1>2. ASSUME NEW k \in Keys, SetVariableFails(k)
      PROVE  variables' \in [Keys -> Values \cup {Unset, Null}]
  BY <1>2 DEF SetVariableFails
<1>3. failed' \in BOOLEAN
  BY DEF Commands, CommandsThenFull
<1> QED
  BY <1>1, <1>2, <1>3 DEF Commands, CommandsThenFull

LEMMA ResetKeeps ==
    ASSUME Reset, own' \in BOOLEAN, argc' \in {-1, 0}, TaskInv
    PROVE  TaskInv'
<1>1. TaskTypeOK'
  <2>1. -1 \in -1 .. MaxValues /\ 0 \in 0 .. MaxRuns /\ argc' \in -1 .. MaxArgs
    OBVIOUS
  <2>2. [i \in ArgIndex |-> Null] \in [ArgIndex -> Args \cup {Null}]
    OBVIOUS
  <2>3. [i \in ValueIndex |-> "error"] \in [ValueIndex -> Elements]
    BY DEF Elements
  <2>4. <<>> \in Seq(Args)
    OBVIOUS
  <2>5. /\ variables' \in [Keys -> Values \cup {Unset, Null}]
        /\ failed' \in BOOLEAN
    BY DEF Reset, shared, TaskInv, TaskTypeOK
  <2> QED
    BY <2>1, <2>2, <2>3, <2>4, <2>5, StackKinds DEF Reset, TaskTypeOK
<1>2. ArgumentsKept'
  BY DEF Reset, ArgumentsKept
<1>3. Clean'
  BY DEF Reset, Clean
<1>4. FirstResultTold'
  BY DEF Reset, FirstResultTold
<1> QED
  BY <1>1, <1>2, <1>3, <1>4 DEF TaskInv

LEMMA PushKeeps ==
    ASSUME TaskInv, NEW a \in Args, Push(a)
    PROVE  TaskInv'
<1> USE DEF TaskInv
<1>1. TaskTypeOK'
  <2>1. argc' \in -1 .. MaxArgs
    BY DEF Push
  <2>2. argv' \in [ArgIndex -> Args \cup {Null}]
    BY DEF Push, TaskTypeOK
  <2>3. pushed' \in Seq(Args)
    BY DEF Push, TaskTypeOK
  <2> QED
    BY <2>1, <2>2, <2>3 DEF Push, TaskTypeOK, shared
<1>2. ArgumentsKept'
  <2>1. /\ argc = Len(pushed) /\ pushed \in Seq(Args)
        /\ \A i \in 0 .. argc - 1 :
               \/ argv[i] = pushed[i + 1]
               \/ runs > 0 /\ i = MaxArgs - 1 /\ argv[i] = Null
    BY DEF Push, ArgumentsKept, TaskTypeOK
  <2>2. /\ pushed' = Append(pushed, a) /\ argc' = argc + 1 /\ argc \in ArgIndex
        /\ runs' = runs
    BY DEF Push
  <2>3. argv' = [argv EXCEPT ![argc] = a] /\ argv \in [ArgIndex -> Args \cup {Null}]
    BY DEF Push, TaskTypeOK
  <2>4. argc' = Len(pushed')
    BY <2>1, <2>2
  <2>5. ASSUME NEW i \in 0 .. argc' - 1
        PROVE  argv'[i] = pushed'[i + 1] \/ (runs' > 0 /\ i = MaxArgs - 1 /\ argv'[i] = Null)
    <3>1. CASE i = argc
      BY <2>1, <2>2, <2>3, <3>1
    <3>2. CASE i # argc
      BY <2>1, <2>2, <2>3, <3>2
    <3> QED
      BY <3>1, <3>2
  <2> QED
    BY <2>4, <2>5 DEF ArgumentsKept
<1>3. Clean'
  BY DEF Push, Clean
<1>4. FirstResultTold'
  <2> SUFFICES ASSUME runs = 1
               PROVE  Told' \/ (said' = Halfway /\ failed')
    BY DEF Push, FirstResultTold
  <2>1. /\ UNCHANGED <<said, nvalues, values, failed>> /\ argc >= 0 /\ argc' >= 0
        /\ Told \/ (said = Halfway /\ failed)
    BY DEF Push, FirstResultTold, shared
  <2> QED
    BY <2>1 DEF Told, IsTable, Is, Kept
<1> QED
  BY <1>1, <1>2, <1>3, <1>4

\* A step that leaves the execution alone, and may make the request fail.
LEMMA FailingKeeps ==
    ASSUME TaskInv, UNCHANGED execution, SharedOK', failed => failed'
    PROVE  TaskInv'
<1>1. /\ own' = own /\ argc' = argc /\ argv' = argv /\ nvalues' = nvalues
      /\ values' = values /\ pushed' = pushed /\ runs' = runs /\ said' = said
      /\ engineStack' = engineStack
  BY DEF execution
<1>2. TaskTypeOK' /\ ArgumentsKept' /\ Clean'
  BY <1>1 DEF SharedOK, TaskInv, TaskTypeOK, ArgumentsKept, Clean
<1>3. FirstResultTold'
  BY <1>1 DEF TaskInv, FirstResultTold, Told, IsTable, Is, Kept
<1> QED
  BY <1>2, <1>3 DEF TaskInv

\* The parts of the invariant every execution keeps.
LEMMA RunKeeps ==
    ASSUME TaskInv, NEW o \in Outcomes, Run(o),
           argv' \in [ArgIndex -> Args \cup {Null}],
           \A i \in ArgIndex : argv'[i] = argv[i] \/ (i = MaxArgs - 1 /\ argv'[i] = Null),
           nvalues' \in -1 .. MaxValues,
           values' \in [ValueIndex -> Elements],
           engineStack' \in Seq(FrameItems),
           SharedOK',
           runs = 0 => Told' \/ (said' = Halfway /\ failed')
    PROVE  TaskInv'
<1> USE DEF TaskInv, Run
<1>1. runs' \in 0 .. MaxRuns /\ runs' > 0 /\ (runs' = 1 => runs = 0)
  BY DEF TaskTypeOK
<1>2. TaskTypeOK'
  BY <1>1 DEF TaskTypeOK, SharedOK
<1>3. ArgumentsKept'
  <2> SUFFICES ASSUME NEW i \in 0 .. argc - 1
               PROVE  argv'[i] = pushed[i + 1] \/ (i = MaxArgs - 1 /\ argv'[i] = Null)
    BY <1>1 DEF ArgumentsKept
  <2>1. i \in ArgIndex
    BY DEF TaskTypeOK
  <2>2. argv[i] = pushed[i + 1] \/ (i = MaxArgs - 1 /\ argv[i] = Null)
    BY DEF ArgumentsKept
  <2> QED
    BY <2>1, <2>2
<1>4. Clean' /\ FirstResultTold'
  BY <1>1 DEF Clean, FirstResultTold
<1> QED
  BY <1>2, <1>3, <1>4

\* What executions begin with.
LEMMA BeforeRun ==
    ASSUME TaskInv
    PROVE  /\ argv \in [ArgIndex -> Args \cup {Null}]
           /\ nvalues \in -1 .. MaxValues
           /\ values \in [ValueIndex -> Elements]
           /\ engineStack \in Seq(FrameItems)
           /\ SharedOK
           /\ 0 \in ValueIndex
           /\ runs = 0 => nvalues = -1 /\ values = [i \in ValueIndex |-> "error"]
BY DEF TaskInv, TaskTypeOK, Clean, SharedOK

LEMMA UncompiledKeeps == ASSUME TaskInv, ExecuteUncompiled PROVE TaskInv'
<1>1. /\ Run(Uncompiled) /\ argc' >= 0 /\ said' = Uncompiled
      /\ engineStack' = Popped(Frame)
      /\ argv' = argv /\ nvalues' = nvalues /\ values' = values
      /\ variables' = variables /\ failed' = failed
  BY DEF ExecuteUncompiled, RunToEnd, Run, shared
<1>2. runs = 0 => Told'
  BY <1>1, BeforeRun DEF Told, Is
<1>3. SharedOK'
  BY <1>1, BeforeRun DEF SharedOK
<1> QED
  BY <1>1, <1>2, <1>3, BeforeRun, RunKeeps, OutcomeKinds, StackKinds

LEMMA UncopiedKeeps == ASSUME TaskInv, ExecuteUncopied PROVE TaskInv'
<1>1. /\ Run(Uncopied) /\ argc' >= 0 /\ said' = Uncopied
      /\ engineStack' = engineStack
      /\ argv' = argv /\ nvalues' = nvalues /\ values' = values
      /\ variables' = variables /\ failed' = TRUE
  BY DEF ExecuteUncopied, Run
<1>2. runs = 0 => Told'
  BY <1>1, BeforeRun DEF Told, Is
<1>3. SharedOK'
  BY <1>1, BeforeRun DEF SharedOK
<1> QED
  BY <1>1, <1>2, <1>3, BeforeRun, RunKeeps, OutcomeKinds

LEMMA ExecuteKeeps ==
    ASSUME TaskInv, Execute, Commands
    PROVE  TaskInv'
<1>0. SharedOK'
  BY BeforeRun, CommandsKeep
<1>1. CASE ExecuteError
  <2>1. Run(Refused) /\ argc' >= 0 /\ said' = Refused /\ engineStack' = Popped(Frame)
    BY <1>1 DEF ExecuteError, RunToEnd, Run
  <2>2. values' \in [ValueIndex -> Elements] /\ values'[0] = "error"
    BY BeforeRun, <1>1 DEF ExecuteError, Elements
  <2>3. runs = 0 => Told'
    BY BeforeRun, <1>1, <2>1, <2>2 DEF ExecuteError, Told, Is
  <2> QED
    BY BeforeRun, <1>0, <1>1, <2>1, <2>2, <2>3, RunKeeps, OutcomeKinds, StackKinds
    DEF ExecuteError
<1>2. CASE ExecuteObject
  <2>1. /\ Run(Object) /\ argc' >= 0 /\ said' = Object /\ nvalues' = nvalues
        /\ engineStack' = Popped(Frame)
    BY <1>2 DEF ExecuteObject, RunToEnd, Run
  <2>2. /\ argv' \in [ArgIndex -> Args \cup {Null}]
        /\ \A i \in ArgIndex : argv'[i] = argv[i] \/ (i = MaxArgs - 1 /\ argv'[i] = Null)
    BY BeforeRun, <1>2 DEF ExecuteObject
  <2>3. values' \in [ValueIndex -> Elements] /\ (nvalues = -1 => values' = values)
    BY BeforeRun, <1>2 DEF ExecuteObject, Elements
  <2>4. runs = 0 => Told'
    BY BeforeRun, <2>1, <2>3 DEF Told, Is
  <2> QED
    BY BeforeRun, <1>0, <2>1, <2>2, <2>3, <2>4, RunKeeps, OutcomeKinds, StackKinds
<1>3. ASSUME NEW type \in {"nil", "value"}, ExecuteScalar(type)
      PROVE  TaskInv'
  <2>1. /\ Run(Scalar(type)) /\ argc' >= 0 /\ said' = Scalar(type)
        /\ engineStack' = Popped(Frame)
    BY <1>3 DEF ExecuteScalar, RunToEnd, Run
  <2>2. values' \in [ValueIndex -> Elements] /\ values'[0] = type
    BY BeforeRun, <1>3 DEF ExecuteScalar, Elements
  <2>3. runs = 0 => Told'
    BY BeforeRun, <1>3, <2>1, <2>2 DEF ExecuteScalar, Told, Is, Scalars, Scalar
  <2>4. Scalar(type) \in Outcomes
    BY OutcomeKinds
  <2> QED
    BY BeforeRun, <1>0, <1>3, <2>1, <2>2, <2>3, <2>4, RunKeeps, StackKinds
    DEF ExecuteScalar
<1>4. ASSUME NEW o \in Tables, ExecuteTable(o.types)
      PROVE  TaskInv'
  <2> DEFINE s == o.types
  <2>1. o = Table(s) /\ Len(s) \in Nat /\ \A i \in 1 .. Len(s) : s[i] \in Elements
    BY TableTypes
  <2>2. Run(o) /\ argc' >= 0 /\ said' = o /\ engineStack' = Popped(Frame)
    BY <1>4, <2>1 DEF ExecuteTable, RunToEnd, Run
  <2>3. nvalues' = Kept(s) /\ Kept(s) \in 0 .. MaxValues /\ Kept(s) <= Len(s)
    BY <1>4, <2>1 DEF ExecuteTable, Kept
  <2>4. /\ values' \in [ValueIndex -> Elements]
        /\ \A i \in 0 .. nvalues' - 1 : values'[i] = s[i + 1]
    <3>1. values' = [i \in ValueIndex |-> IF i < Kept(s) THEN s[i + 1] ELSE values[i]]
      BY <1>4 DEF ExecuteTable
    <3>2. \A i \in ValueIndex :
             (IF i < Kept(s) THEN s[i + 1] ELSE values[i]) \in Elements
      <4>1. values \in [ValueIndex -> Elements]
        BY BeforeRun
      <4> HIDE DEF s
      <4> QED
        BY <2>1, <2>3, <4>1
    <3>3. 0 .. nvalues' - 1 \subseteq ValueIndex
      BY <2>3
    <3> HIDE DEF s
    <3> QED
      BY <2>3, <3>1, <3>2, <3>3
  <2>5. Told'
    BY <2>2, <2>3, <2>4 DEF Told, IsTable
  <2>6. argv' = argv /\ nvalues' \in -1 .. MaxValues
    BY <1>4, <2>3 DEF ExecuteTable
  <2>7. o \in Outcomes
    BY OutcomeKinds
  <2>8. argv \in [ArgIndex -> Args \cup {Null}] /\ engineStack' \in Seq(FrameItems)
    BY BeforeRun, <2>2, StackKinds
  <2> HIDE DEF s
  <2> QED
    BY <1>0, <2>2, <2>4, <2>5, <2>6, <2>7, <2>8, RunKeeps
<1> QED
  BY <1>1, <1>2, <1>3, <1>4 DEF Execute

LEMMA FullKeeps ==
    ASSUME TaskInv, ExecuteFull, CommandsThenFull
    PROVE  TaskInv'
<1>0. SharedOK' /\ failed' = TRUE
  BY BeforeRun, CommandsKeep DEF CommandsThenFull
<1>1. CASE ExecuteScalarFails
  <2>1. Run(Unstored) /\ argc' >= 0 /\ said' = Unstored /\ engineStack' = Popped(Frame)
    BY <1>1 DEF ExecuteScalarFails, RunToEnd, Run
  <2>2. values' \in [ValueIndex -> Elements] /\ values'[0] = "error"
    BY BeforeRun, <1>1 DEF ExecuteScalarFails, Elements
  <2>3. runs = 0 => Told'
    BY BeforeRun, <1>1, <2>1, <2>2 DEF ExecuteScalarFails, Told, Is
  <2> QED
    BY BeforeRun, <1>0, <1>1, <2>1, <2>2, <2>3, RunKeeps, OutcomeKinds, StackKinds
    DEF ExecuteScalarFails
<1>2. ASSUME NEW o \in Tables, NEW k \in ValueIndex, ExecuteTableFails(o.types, k)
      PROVE  TaskInv'
  <2> DEFINE s == o.types
  <2>1. Len(s) \in Nat /\ \A i \in 1 .. Len(s) : s[i] \in Elements
    BY TableTypes
  <2>2. /\ Run(Halfway) /\ said' = Halfway /\ argv' = argv /\ nvalues' = k
        /\ engineStack' = Popped(Append(Frame, "element"))
    BY <1>2 DEF ExecuteTableFails, Run
  <2>3. k < Len(s)
    BY <1>2, <2>1 DEF ExecuteTableFails, Kept
  <2>4. values' \in [ValueIndex -> Elements]
    <3>1. values' = [i \in ValueIndex |->
                        IF i = 0 THEN "error" ELSE IF i <= k THEN s[i + 1] ELSE values[i]]
      BY <1>2 DEF ExecuteTableFails
    <3>2. "error" \in Elements
      BY DEF Elements
    <3> HIDE DEF s
    <3> QED
      BY BeforeRun, <2>1, <2>3, <3>1, <3>2
  <2>5. nvalues' \in -1 .. MaxValues
    BY <2>2
  <2> QED
    BY BeforeRun, <1>0, <2>2, <2>4, <2>5, RunKeeps, OutcomeKinds, StackKinds
<1> QED
  BY <1>1, <1>2 DEF ExecuteFull

\* However a task initialises, pushes, executes, fails and frees results, the
\* invariant holds.
THEOREM TaskInvariance == TaskSpec => []TaskInv
<1>1. TaskInit => TaskInv
  <2> SUFFICES ASSUME TaskInit PROVE TaskInv
    OBVIOUS
  <2>1. TaskTypeOK
    <3>1. -1 \in -1 .. MaxValues /\ 0 \in 0 .. MaxRuns /\ -1 \in -1 .. MaxArgs
      OBVIOUS
    <3>2. [i \in ArgIndex |-> Null] \in [ArgIndex -> Args \cup {Null}]
      OBVIOUS
    <3>3. [i \in ValueIndex |-> "error"] \in [ValueIndex -> Elements]
      BY DEF Elements
    <3>4. /\ <<>> \in Seq(Args)
          /\ [k \in Keys |-> Unset] \in [Keys -> Values \cup {Unset, Null}]
      OBVIOUS
    <3> QED
      BY <3>1, <3>2, <3>3, <3>4, StackKinds DEF TaskInit, TaskTypeOK
  <2> QED
    BY <2>1 DEF TaskInit, TaskInv, ArgumentsKept, Clean, FirstResultTold
<1>2. EndTask => TaskInv'
  <2>1. EndTask => TaskInit'
    BY DEF EndTask, TaskInit
  <2>2. (TaskInit => TaskInv)'
    BY <1>1, PTL
  <2> QED
    BY <2>1, <2>2
<1>3. TaskInv /\ [TaskNext]_taskVars => TaskInv'
  <2> SUFFICES ASSUME TaskInv, [TaskNext]_taskVars
               PROVE  TaskInv'
    OBVIOUS
  <2>1. ASSUME NEW withCode \in BOOLEAN, InitTask(withCode)
        PROVE  TaskInv'
    BY <2>1, ResetKeeps DEF InitTask
  <2>2. ASSUME NEW a \in Args, Push(a)
        PROVE  TaskInv'
    BY <2>2, PushKeeps
  <2>3. CASE PushFails
    BY <2>3, BeforeRun, FailingKeeps DEF PushFails, SharedOK
  <2>4. CASE Execute /\ Commands
    BY <2>4, ExecuteKeeps
  <2>5. CASE ExecuteFull /\ CommandsThenFull
    BY <2>5, FullKeeps
  <2>6. CASE ExecuteUncompiled \/ ExecuteUncopied
    BY <2>6, UncompiledKeeps, UncopiedKeeps
  <2>7. CASE ExecutePanics \/ EndTask
    BY <1>2, <2>7 DEF ExecutePanics
  <2>8. CASE FreeResult
    BY <2>8, ResetKeeps DEF FreeResult
  <2>9. CASE UNCHANGED taskVars
    BY <2>9, BeforeRun, FailingKeeps DEF taskVars, shared, SharedOK
  <2> QED
    BY <2>1, <2>2, <2>3, <2>4, <2>5, <2>6, <2>7, <2>8, <2>9 DEF TaskNext
<1> QED
  BY <1>1, <1>3, PTL DEF TaskSpec

\* .result_is_*() and the other getters tell what the first execution after
\* .init() ended with, also when the workspace runs full: nothing of an earlier
\* result shows through, and only a table that was cut is told otherwise, in a
\* request that fails.
THEOREM FirstResultSound == TaskSpec => []FirstResultTold
BY TaskInvariance, PTL DEF TaskInv

\* Every execution after .init() gets the arguments pushed, in order, but for the
\* last one that fits, which an execution before may have overwritten.
THEOREM ArgumentsSound == TaskSpec => []ArgumentsKept
BY TaskInvariance, PTL DEF TaskInv

-----------------------------------------------------------------------------
(* What the VCLs share.  The counter is the number of loaded VCLs, so that *)
(* it is 0 only when none is, and no script is then left to use the class; *)
(* a class is made or destroyed only at that moment.                       *)

EventsInv ==
    /\ LocksHaveClass
    /\ made \in Nat /\ IsFiniteSet(loaded) /\ loaded \subseteq Vcls
    /\ home \in [Scripts -> Vcls \cup {NoVcl}]
    /\ DOMAIN classOf = Scripts

LEMMA InitEvents == EventsInit => EventsInv
  BY FS_EmptySet, EventsAssumption DEF EventsInit, EventsInv, LocksHaveClass, NoVcl

LEMMA NextEvents == EventsInv /\ [EventsNext]_eventVars => EventsInv'
<1> SUFFICES ASSUME EventsInv, [EventsNext]_eventVars PROVE EventsInv'
  OBVIOUS
<1> USE EventsAssumption
<1>0. Cardinality(loaded) \in Nat /\ (Cardinality(loaded) = 0 <=> loaded = {})
  BY FS_CardinalityType, FS_EmptySet DEF EventsInv
<1>1. ASSUME NEW v \in Vcls, Load(v) PROVE EventsInv'
  <2>1. IsFiniteSet(loaded') /\ Cardinality(loaded') = Cardinality(loaded) + 1
    BY <1>1, FS_AddElement DEF Load, EventsInv
  <2>2. refs' = Cardinality(loaded') /\ loaded' # {}
    BY <1>1, <2>1 DEF Load, EventsInv, LocksHaveClass
  <2>3. lua' = 1 /\ class' # NoClass
    BY <1>0, <1>1 DEF Load, EventsInv, LocksHaveClass
  <2>4. \A s \in Scripts : home'[s] # NoVcl =>
            home'[s] \in loaded' /\ classOf'[s] = class' /\ class' # NoClass
    BY <1>0, <1>1 DEF Load, EventsInv, LocksHaveClass
  <2>5. made' \in Nat /\ loaded' \subseteq Vcls
    BY <1>1 DEF Load, EventsInv
  <2> QED BY <1>1, <2>1, <2>2, <2>3, <2>4, <2>5 DEF Load, EventsInv, LocksHaveClass, NoVcl
<1>2. ASSUME NEW v \in Vcls, Discard(v) PROVE EventsInv'
  <2>1. IsFiniteSet(loaded') /\ Cardinality(loaded') = Cardinality(loaded) - 1
    BY <1>2, FS_RemoveElement DEF Discard, EventsInv
  <2>2. Cardinality(loaded') = 0 <=> loaded' = {}
    BY <2>1, FS_EmptySet
  <2>3. refs' = Cardinality(loaded')
    BY <1>2, <2>1 DEF Discard, EventsInv, LocksHaveClass
  <2>4. refs = 1 <=> loaded' = {}
    BY <1>0, <1>2, <2>1, <2>2 DEF EventsInv, LocksHaveClass
  <2>5. lua = 1 /\ class # NoClass
    BY <1>2 DEF Discard, EventsInv, LocksHaveClass
  <2>6. (lua' = IF loaded' = {} THEN 0 ELSE 1) /\ (class' = NoClass <=> loaded' = {})
    BY <1>2, <2>4, <2>5 DEF Discard
  <2>7. \A s \in Scripts : home'[s] # NoVcl =>
            home'[s] \in loaded' /\ classOf'[s] = class' /\ class' # NoClass
    <3> SUFFICES ASSUME NEW s \in Scripts, home[s] # NoVcl
                 PROVE  home[s] \in loaded' /\ classOf[s] = class' /\ class' # NoClass
      BY <1>2 DEF Discard
    <3>1. home[s] \in loaded'
      BY <1>2 DEF Discard, EventsInv, LocksHaveClass
    <3>2. class' = class
      BY <1>2, <2>4, <3>1 DEF Discard
    <3> QED BY <3>1, <3>2 DEF EventsInv, LocksHaveClass
  <2> QED BY <1>2, <2>1, <2>3, <2>6, <2>7 DEF Discard, EventsInv, LocksHaveClass, NoVcl
<1>3. ASSUME NEW v \in Vcls, NEW s \in Scripts, NewScript(v, s) PROVE EventsInv'
  BY <1>3 DEF NewScript, EventsInv, LocksHaveClass, NoVcl
<1>4. ASSUME NEW s \in Scripts, FiniScript(s) PROVE EventsInv'
  BY <1>4 DEF FiniScript, EventsInv, LocksHaveClass, NoVcl
<1>5. CASE UNCHANGED eventVars
  BY <1>5 DEF eventVars, EventsInv, LocksHaveClass
<1> QED BY <1>1, <1>2, <1>3, <1>4, <1>5 DEF EventsNext

\* The lock of every live script is in the class there is, however many VCLs and
\* scripts come and go.
THEOREM LocksAlwaysHaveClass == EventsSpec => []LocksHaveClass
<1>1. EventsInv => LocksHaveClass
  BY DEF EventsInv
<1> QED BY <1>1, InitEvents, NextEvents, PTL DEF EventsSpec

=============================================================================
