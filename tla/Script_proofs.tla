---------------------------- MODULE Script_proofs ----------------------------
(***************************************************************************)
(* The script object uses its pool as EnginePool specifies it, and a name  *)
(* stands for the same code wherever it travels.                           *)
(***************************************************************************)
EXTENDS Script, EnginePool_proofs

USE DEF callVars, objectVars

-----------------------------------------------------------------------------
(* The pool *)

LEMMA ScriptPoolStep == [ScriptNext]_allVars => [PoolNext]_poolVars
<1> SUFFICES ASSUME [ScriptNext]_allVars PROVE [PoolNext]_poolVars
  OBVIOUS
<1>1. CASE UNCHANGED allVars
  BY <1>1 DEF allVars
<1>2. CASE Created \/ Discard
  BY <1>2 DEF Created, Discard, Fini, PoolNext
<1>3. ASSUME NEW t \in Threads,
             Create(t) \/ Enter(t) \/ Spurious(t)
      PROVE  [PoolNext]_poolVars
  BY <1>3 DEF Create, Enter, Execute, ExecuteOwn, Check, Ask, PoolNext
<1>4. ASSUME NEW t \in Threads, Proceed(t)
      PROVE  [PoolNext]_poolVars
  BY <1>4 DEF Proceed, Acquire, Find, Compile, CompileFails, Count, GiveBack,
              Install, PoolNext, LockEngine
<1> QED
  BY <1>1, <1>2, <1>3, <1>4 DEF ScriptNext

\* Every behaviour of a script object is one of the pool of engines, which so
\* keeps its invariants: see EnginePool_proofs.
THEOREM ScriptImplementsPool == ScriptSpec => PoolSpec
<1>1. ScriptInit => PoolInit
  BY DEF ScriptInit
<1> QED
  BY <1>1, ScriptPoolStep, PTL DEF ScriptSpec, PoolSpec

-----------------------------------------------------------------------------
(* Types *)

LEMMA NameFacts ==
    /\ \A c \in Codes : NameOf(c) \in Names
    /\ \A c, d \in Codes : NameOf(c) = NameOf(d) => c = d
    /\ \A f \in Names : \E c \in Codes : f = NameOf(c)
    /\ NoFunctions \in [Names -> Codes \cup {Null}]
    /\ Nothing \in [code : Codes \cup {Null}, name : Names \cup {Null}]
BY DEF NameOf, Names, NoFunctions, Nothing

LEMMA HolderFacts ==
    ASSUME PoolInv, NEW t \in Threads, worker[t] = "holding"
    PROVE  engine[t] \in Engines
BY DEF PoolInv, EnginesOwned, PoolTypeOK

LEMMA ScriptTypeStep ==
    ASSUME PoolInv, PoolInv', ScriptTypeOK, InPool, NamesMatch,
           [ScriptNext]_allVars
    PROVE  ScriptTypeOK'
<1> USE NameFacts DEF ScriptTypeOK, Stages, MoveTo, Done
<1>0. PoolTypeOK'
  BY DEF PoolInv
<1>1. CASE UNCHANGED allVars
  BY <1>0, <1>1 DEF allVars, scriptVars
<1>2. CASE Created \/ Discard
  BY <1>0, <1>2, PoolAssumption DEF Created, Discard, Fini
<1>3. ASSUME NEW t \in Threads, NEW c \in Codes, NEW f \in Names,
             NEW check \in BOOLEAN, Ask(t, c, f, check),
             phase' \in {"none", "loading", "live"}
      PROVE  ScriptTypeOK'
  BY <1>0, <1>3 DEF Ask
<1>4. ASSUME NEW t \in Threads, Create(t) \/ Enter(t)
      PROVE  ScriptTypeOK'
  <2>1. CASE Execute(t)
    BY <1>3, <2>1 DEF Execute
  <2>2. ASSUME NEW c \in Codes, ExecuteOwn(t, c) \/ Check(t, c)
        PROVE  ScriptTypeOK'
    BY <1>3, <2>2 DEF ExecuteOwn, Check
  <2>3. CASE Create(t)
    BY <1>0, <1>3, <2>3 DEF Create
  <2> QED
    BY <1>4, <2>1, <2>2, <2>3 DEF Enter
<1>5. ASSUME NEW t \in Threads, Spurious(t), UNCHANGED scriptVars
      PROVE  ScriptTypeOK'
  BY <1>0, <1>5 DEF scriptVars
<1>6. ASSUME NEW t \in Threads, Acquire(t) PROVE ScriptTypeOK'
  BY <1>0, <1>6 DEF Acquire
<1>7. ASSUME NEW t \in Threads, Find(t) \/ CompileFails(t) PROVE ScriptTypeOK'
  BY <1>0, <1>7 DEF Find, CompileFails
<1>8. ASSUME NEW t \in Threads, Compile(t) PROVE ScriptTypeOK'
  BY <1>0, <1>8, HolderFacts DEF Compile, Holds, NamesMatch
<1>9. ASSUME NEW t \in Threads, Count(t) PROVE ScriptTypeOK'
  <2>1. executions' \in 0 .. Width - 1
    <3>1. executions + 1 \in Nat /\ executions' = (executions + 1) % Width
      BY <1>9, PoolAssumption DEF Count
    <3> QED
      BY <3>1, Modulo
  <2> QED
    BY <1>0, <1>9, <2>1 DEF Count
<1>10. ASSUME NEW t \in Threads, GiveBack(t) PROVE ScriptTypeOK'
  <2>1. CASE checking[t] /\ stage[t] = "counted"
    BY <1>0, <1>10, <2>1 DEF GiveBack
  <2>2. CASE ~(checking[t] /\ stage[t] = "counted")
    BY <1>0, <1>10, <2>2 DEF GiveBack
  <2> QED
    BY <2>1, <2>2
<1>11. ASSUME NEW t \in Threads, Install(t) PROVE ScriptTypeOK'
  BY <1>0, <1>11 DEF Install, NamesMatch
<1> QED
  BY <1>1, <1>2, <1>4, <1>5, <1>6, <1>7, <1>8, <1>9, <1>10, <1>11
     DEF ScriptNext, Proceed

-----------------------------------------------------------------------------
(* Workers are in the pool while execute() runs *)

\* How a step of the pool moves the workers.
LEMMA UnlockMoves ==
    ASSUME PoolInv, NEW t \in Threads, Unlock(t)
    PROVE  /\ worker[t] = "holding" /\ worker'[t] = "idle"
           /\ \A u \in Threads \ {t} :
                 \/ worker'[u] = worker[u]
                 \/ worker[u] = "waiting" /\ worker'[u] = "woken"
<1> USE DEF PoolInv, PoolTypeOK
<1>1. CASE Waiting = {}
  BY <1>1 DEF Unlock, Signal, MoveWorker
<1>2. CASE Waiting # {}
  <2>1. PICK w \in Waiting :
           worker' = [worker EXCEPT ![t] = "idle", ![w] = "woken"]
    BY <1>2 DEF Unlock, Signal
  <2> QED
    BY <2>1 DEF Unlock, Waiting
<1> QED
  BY <1>1, <1>2

LEMMA InPoolStep ==
    ASSUME PoolInv, ScriptTypeOK, InPool, [ScriptNext]_allVars
    PROVE  InPool'
<1> USE DEF ScriptTypeOK, PoolTypeOK, InPool, MoveTo, Done, MoveWorker
<1>1. CASE UNCHANGED allVars
  BY <1>1 DEF allVars, scriptVars, poolVars
<1>2. CASE Created \/ Discard
  BY <1>2 DEF Created, Discard, Fini, FlushEngines, poolVars
<1>3. ASSUME NEW t \in Threads, NEW c, NEW f, NEW check, Ask(t, c, f, check)
      PROVE  InPool'
  BY <1>3 DEF Ask, Request
<1>4. ASSUME NEW t \in Threads, Create(t) \/ Enter(t)
      PROVE  InPool'
  BY <1>3, <1>4 DEF Enter, Execute, ExecuteOwn, Check, Create, poolVars
<1>5. ASSUME NEW t \in Threads, Spurious(t), UNCHANGED scriptVars
      PROVE  InPool'
  BY <1>5 DEF scriptVars, Spurious
<1>6. ASSUME NEW t \in Threads, Acquire(t) PROVE InPool'
  BY <1>6 DEF Acquire, Take, Wait, NewEngine, Locking
<1>7. ASSUME NEW t \in Threads,
             Find(t) \/ Compile(t) \/ CompileFails(t) \/ Count(t)
      PROVE  InPool'
  BY <1>7 DEF Find, Compile, CompileFails, Count, Holds, poolVars
<1>8. ASSUME NEW t \in Threads, GiveBack(t) PROVE InPool'
  <2>1. Unlock(t)
    BY <1>8 DEF GiveBack
  <2>2. stage'[t] \in {"none", "install"} /\ \A u \in Threads \ {t} : stage'[u] = stage[u]
    <3>1. CASE checking[t] /\ stage[t] = "counted"
      BY <1>8, <3>1 DEF GiveBack
    <3>2. CASE ~(checking[t] /\ stage[t] = "counted")
      BY <1>8, <3>2 DEF GiveBack
    <3> QED
      BY <3>1, <3>2
  <2> QED
    BY <2>1, <2>2, UnlockMoves
<1>9. ASSUME NEW t \in Threads, Install(t) PROVE InPool'
  BY <1>9 DEF Install, poolVars
<1> QED
  BY <1>1, <1>2, <1>4, <1>5, <1>6, <1>7, <1>8, <1>9 DEF ScriptNext, Proceed

-----------------------------------------------------------------------------
(* Names stand for codes *)

LEMMA NamesStep ==
    ASSUME PoolInv, ScriptTypeOK, InPool, NamesMatch, [ScriptNext]_allVars
    PROVE  NamesMatch'
<1> USE NameFacts, ScriptAssumption
    DEF ScriptTypeOK, NamesMatch, MoveTo, Done
<1>1. CASE UNCHANGED allVars
  BY <1>1 DEF allVars, scriptVars
<1>2. CASE Created \/ Discard
  BY <1>2 DEF Created, Discard, Fini, NoFunctions
<1>3. ASSUME NEW t \in Threads, NEW c \in Codes, NEW check,
             Ask(t, c, NameOf(c), check)
      PROVE  NamesMatch'
  BY <1>3 DEF Ask
<1>4. ASSUME NEW t \in Threads, Create(t) \/ Enter(t)
      PROVE  NamesMatch'
  <2>1. CASE Execute(t)
    BY <2>1 DEF Execute, Ask
  <2>2. ASSUME NEW c \in Codes, ExecuteOwn(t, c) \/ Check(t, c)
        PROVE  NamesMatch'
    BY <1>3, <2>2 DEF ExecuteOwn, Check
  <2>3. CASE Create(t)
    BY <1>3, <2>3 DEF Create
  <2> QED
    BY <1>4, <2>1, <2>2, <2>3 DEF Enter
<1>5. ASSUME NEW t \in Threads, Spurious(t), UNCHANGED scriptVars
      PROVE  NamesMatch'
  BY <1>5 DEF scriptVars
<1>6. ASSUME NEW t \in Threads, Acquire(t) PROVE NamesMatch'
  <2>1. UNCHANGED <<code, name, stage, want>>
    BY <1>6 DEF Acquire
  <2>2. \A e \in Engines, c \in Codes : functions'[e][NameOf(c)] \in {Null, c}
    BY <1>6 DEF Acquire, NoFunctions
  <2> QED
    BY <2>1, <2>2
<1>7. ASSUME NEW t \in Threads, Find(t) \/ CompileFails(t) \/ Count(t)
      PROVE  NamesMatch'
  BY <1>7 DEF Find, CompileFails, Count, Holds
<1>8. ASSUME NEW t \in Threads, Compile(t) PROVE NamesMatch'
  <2>1. engine[t] \in Engines /\ want[t].code \in Codes
        /\ want[t].name = NameOf(want[t].code)
    BY <1>8, HolderFacts DEF Compile, Holds
  <2> QED
    BY <1>8, <2>1 DEF Compile, Holds
<1>9. ASSUME NEW t \in Threads, GiveBack(t) PROVE NamesMatch'
  <2>1. CASE checking[t] /\ stage[t] = "counted"
    BY <1>9, <2>1 DEF GiveBack
  <2>2. CASE ~(checking[t] /\ stage[t] = "counted")
    BY <1>9, <2>2 DEF GiveBack
  <2> QED
    BY <2>1, <2>2
<1>10. ASSUME NEW t \in Threads, Install(t) PROVE NamesMatch'
  BY <1>10 DEF Install
<1> QED
  BY <1>1, <1>2, <1>4, <1>5, <1>6, <1>7, <1>8, <1>9, <1>10
     DEF ScriptNext, Proceed

-----------------------------------------------------------------------------
(* Only what compiles gets through *)

LEMMA CompiledStep ==
    ASSUME PoolInv, ScriptTypeOK, InPool, NamesMatch, Compiled,
           [ScriptNext]_allVars
    PROVE  Compiled'
<1> USE NameFacts, ScriptAssumption
    DEF ScriptTypeOK, Compiled, FunctionCompiles, MoveTo, Done
<1>1. CASE UNCHANGED allVars
  BY <1>1 DEF allVars, scriptVars, poolVars
<1>2. CASE Created \/ Discard
  <2>1. UNCHANGED <<engine, stage, want>>
    BY <1>2 DEF Created, Discard, Fini, FlushEngines, poolVars
  <2>2. AtRest
    BY <1>2 DEF Created, Discard, Fini
  <2>3. \/ UNCHANGED <<functions, code>>
        \/ functions' = [e \in Engines |-> NoFunctions] /\ code' = Null
    BY <1>2 DEF Created, Discard, Fini
  <2>4. FunctionCompiles'
    BY <2>3
  <2> QED
    BY <2>1, <2>2, <2>3, <2>4 DEF AtRest, NoFunctions
<1>3. ASSUME NEW t \in Threads, NEW c, NEW f, NEW check, Ask(t, c, f, check)
      PROVE  Compiled'
  BY <1>3 DEF Ask, Request
<1>4. ASSUME NEW t \in Threads, Create(t) \/ Enter(t)
      PROVE  Compiled'
  BY <1>3, <1>4 DEF Enter, Execute, ExecuteOwn, Check, Create, poolVars
<1>5. ASSUME NEW t \in Threads, Spurious(t), UNCHANGED scriptVars
      PROVE  Compiled'
  BY <1>5 DEF scriptVars, Spurious
<1>6. ASSUME NEW t \in Threads, Acquire(t) PROVE Compiled'
  <2>1. worker[t] # "holding"
    BY <1>6 DEF Acquire, Take, Wait, NewEngine, Locking
  <2>2. stage[t] # "call"
    BY <2>1 DEF InPool
  <2>3. \A u \in Threads : u # t => engine'[u] = engine[u]
    BY <1>6 DEF Acquire, Take, Wait, NewEngine, PoolTypeOK
  <2>4. UNCHANGED <<code, stage, want>>
    BY <1>6 DEF Acquire
  <2>5. CASE UNCHANGED functions
    BY <2>2, <2>3, <2>4, <2>5
  <2>6. CASE \E e \in Engines : NewEngine(t, e) /\
                functions' = [functions EXCEPT ![e] = NoFunctions]
    <3>1. PICK e \in Engines : NewEngine(t, e) /\
                functions' = [functions EXCEPT ![e] = NoFunctions]
      BY <2>6
    <3>2. e \notin busy
      <4>1. DOMAIN free = 1 .. Len(free)
        BY DEF PoolTypeOK
      <4> QED
        BY <3>1, <4>1 DEF NewEngine, First, PoolInv, EnginesOwned
    <3>3. \A u \in Threads : stage[u] = "call" => engine[u] # e /\ engine[u] \in Engines
      BY <3>2, HolderFacts DEF InPool, PoolInv, EnginesOwned
    <3>4. \A x \in Engines, f \in Names : functions'[x][f] \in {Null, functions[x][f]}
      BY <3>1 DEF NoFunctions
    <3>5. \A u \in Threads : stage'[u] = "call" =>
                functions'[engine'[u]][want'[u].name] # Null
      <4>1. \A x \in Engines : x # e => functions'[x] = functions[x]
        BY <3>1
      <4> QED
        BY <2>2, <2>3, <2>4, <3>3, <4>1
    <3> QED
      BY <2>4, <3>4, <3>5
  <2> QED
    BY <1>6, <2>5, <2>6 DEF Acquire
<1>7. ASSUME NEW t \in Threads, Find(t) \/ CompileFails(t) \/ Count(t)
      PROVE  Compiled'
  <2>1. UNCHANGED <<functions, code, want, engine>>
    BY <1>7 DEF Find, CompileFails, Count, poolVars
  <2>2. CASE Find(t)
    <3>1. want[t].code \notin Invalid
      BY <2>2, HolderFacts DEF Find, Holds, Known, NamesMatch
    <3> QED
      BY <2>1, <2>2, <3>1 DEF Find, Known
  <2> QED
    BY <1>7, <2>1, <2>2 DEF CompileFails, Count, Holds
<1>8. ASSUME NEW t \in Threads, Compile(t) PROVE Compiled'
  <2>1. engine[t] \in Engines /\ want[t].code \in Codes \ Invalid
        /\ want[t].name = NameOf(want[t].code)
    BY <1>8, HolderFacts DEF Compile, Holds, NamesMatch
  <2>2. \A u \in Threads : stage[u] = "call" =>
           engine[u] \in Engines /\ want[u].name \in Names
    BY HolderFacts DEF InPool, NamesMatch
  <2> QED
    BY <1>8, <2>1, <2>2 DEF Compile, Holds, poolVars
<1>9. ASSUME NEW t \in Threads, GiveBack(t) PROVE Compiled'
  <2>1. UNCHANGED <<functions, code>> /\ engine' = [engine EXCEPT ![t] = Null]
    BY <1>9 DEF GiveBack, Unlock
  <2>2. CASE checking[t] /\ stage[t] = "counted"
    BY <1>9, <2>1, <2>2 DEF GiveBack, PoolTypeOK
  <2>3. CASE ~(checking[t] /\ stage[t] = "counted")
    BY <1>9, <2>1, <2>3 DEF GiveBack, PoolTypeOK
  <2> QED
    BY <2>2, <2>3
<1>10. ASSUME NEW t \in Threads, Install(t) PROVE Compiled'
  BY <1>10 DEF Install, poolVars
<1> QED
  BY <1>1, <1>2, <1>4, <1>5, <1>6, <1>7, <1>8, <1>9, <1>10
     DEF ScriptNext, Proceed

-----------------------------------------------------------------------------
(* Executions are the cycles of the engines *)

LEMMA TurnsFacts ==
    ASSUME PoolInv, MaxCycles > 0
    PROVE  /\ Turns \in SUBSET (Engines \X (1 .. MaxCycles))
           /\ IsFiniteSet(Turns) /\ Cardinality(Turns) \in Nat
           /\ \A e, c : <<e, c>> \in Turns <=> e \in Alive /\ c \in 1 .. cycles[e]
           /\ \A e \in Alive : e \in Engines /\ cycles[e] \in 0 .. MaxCycles
<1>1. \A e \in Alive : e \in Engines /\ cycles[e] \in 0 .. MaxCycles
  BY PoolAssumption DEF Alive, PoolInv, PoolTypeOK, WithinCycles
<1>2. Turns \in SUBSET (Engines \X (1 .. MaxCycles))
  BY <1>1, PoolAssumption DEF Turns
<1>3. IsFiniteSet(1 .. MaxCycles)
  BY PoolAssumption, FS_Interval
<1>4. IsFiniteSet(Engines \X (1 .. MaxCycles))
  BY <1>3, PoolAssumption, FS_Product
<1>5. IsFiniteSet(Turns)
  BY <1>2, <1>4, FS_Subset
<1>6. \A e, c : <<e, c>> \in Turns <=> e \in Alive /\ c \in 1 .. cycles[e]
  BY DEF Turns
<1> QED
  BY <1>1, <1>2, <1>5, <1>6, FS_CardinalityType

\* Engines are dropped after max_cycles turns each.
LEMMA TurnsDropped ==
    ASSUME PoolInv, MaxCycles > 0, NEW k \in 0 .. Len(free),
           \A i \in 1 .. k : Expired(free[i])
    PROVE  /\ First(k) \X (1 .. MaxCycles) \subseteq Turns
           /\ Cardinality(Turns \ (First(k) \X (1 .. MaxCycles))) =
                 Cardinality(Turns) - k * MaxCycles
<1>1. /\ DOMAIN free = 1 .. Len(free) /\ Len(free) \in Nat
      /\ k \in Nat /\ \A i \in 1 .. k : i \in DOMAIN free
  BY DEF PoolInv, PoolTypeOK
<1>2. \A i \in 1 .. k : free[i] \in Alive /\ cycles[free[i]] = MaxCycles
  <2> TAKE i \in 1 .. k
  <2>1. free[i] \in Alive
    BY <1>1, ListedAlive DEF PoolInv
  <2> QED
    BY <2>1, TurnsFacts, PoolAssumption DEF Expired
<1>3. First(k) \X (1 .. MaxCycles) \subseteq Turns
  BY <1>2, TurnsFacts DEF First
<1> DEFINE f == [i \in 1 .. k |-> free[i]]
<1>4. f \in Bijection(1 .. k, First(k))
  <2>1. \A i, j \in 1 .. k : f[i] = f[j] => i = j
    BY <1>1 DEF PoolInv, EnginesOwned
  <2> QED
    BY <2>1 DEF First, Bijection, Injection, Surjection, IsInjective
<1>5. IsFiniteSet(1 .. k) /\ Cardinality(1 .. k) = k
  BY <1>1, FS_Interval
<1>6. IsFiniteSet(First(k)) /\ Cardinality(First(k)) = k
  BY <1>4, <1>5, FS_Bijection DEF ExistsBijection
<1>7. IsFiniteSet(1 .. MaxCycles) /\ Cardinality(1 .. MaxCycles) = MaxCycles
  <2>1. MaxCycles \in Int /\ MaxCycles - 1 + 1 = MaxCycles /\ ~(1 > MaxCycles)
    BY PoolAssumption
  <2> HIDE DEF f
  <2> QED
    BY <2>1, FS_Interval
<1>8. /\ IsFiniteSet(First(k) \X (1 .. MaxCycles))
      /\ Cardinality(First(k) \X (1 .. MaxCycles)) = k * MaxCycles
  BY <1>6, <1>7, FS_Product
<1> DEFINE P == First(k) \X (1 .. MaxCycles)
<1>9. Cardinality(Turns \ P) = Cardinality(Turns) - Cardinality(Turns \cap P)
  BY TurnsFacts, FS_Difference
<1>10. Turns \cap P = P
  BY <1>3
<1> QED
  BY <1>3, <1>8, <1>9, <1>10

LEMMA LateFinite == IsFiniteSet(Late) /\ Cardinality(Late) \in Nat
<1>1. Late \in SUBSET Threads
  BY DEF Late
<1> QED
  BY <1>1, PoolAssumption, FS_Subset, FS_CardinalityType

\* What the engines and workers hold, less what has just been dropped, still
\* adds up.
LEMMA DroppedAddsUp ==
    ASSUME PoolInv, PoolInv', MaxCycles > 0, ExecutionsCounted,
           NEW k \in 0 .. Len(free), \A i \in 1 .. k : Expired(free[i]), Drop(k),
           Turns' = Turns \ (First(k) \X (1 .. MaxCycles)),
           UNCHANGED <<executions, stage>>
    PROVE  ExecutionsCounted'
<1> DEFINE c == Cardinality(Turns)
           l == Cardinality(Late)
<1>1. /\ k \in Int /\ dropped \in Int /\ MaxCycles \in Int /\ c \in Int /\ l \in Int
      /\ executions = (c + dropped * MaxCycles + l) % Width
  BY TurnsFacts, LateFinite, PoolAssumption
  DEF PoolInv, PoolTypeOK, ExecutionsCounted
<1>2. Cardinality(Turns') = c - k * MaxCycles
  BY TurnsDropped
<1>3. Late' = Late
  BY DEF Late
<1> HIDE DEF c, l
<1>4. dropped' = (dropped + k) % Width
  BY DEF Drop
<1>5. c - k * MaxCycles + l \in Int /\ dropped + k \in Int
      /\ k * MaxCycles \in Int /\ dropped * MaxCycles \in Int
  BY <1>1
<1>6. (c - k * MaxCycles + l + dropped' * MaxCycles) % Width =
         (c - k * MaxCycles + l + (dropped + k) * MaxCycles) % Width
  BY <1>1, <1>4, <1>5, ModuloTimes
<1>7. c - k * MaxCycles + l + (dropped + k) * MaxCycles =
         c + dropped * MaxCycles + l
  <2>1. (dropped + k) * MaxCycles = dropped * MaxCycles + k * MaxCycles
    BY <1>1
  <2> QED
    BY <1>1, <1>5, <2>1
<1>8. dropped' * MaxCycles \in Int
  BY <1>1, <1>4, <1>5, PoolAssumption
<1>9. c - k * MaxCycles + dropped' * MaxCycles + l =
         c - k * MaxCycles + l + dropped' * MaxCycles
  BY <1>1, <1>5, <1>8
<1>10. executions' = (Cardinality(Turns') + dropped' * MaxCycles + Cardinality(Late')) % Width
  BY <1>1, <1>2, <1>3, <1>6, <1>7, <1>9 DEF l
<1> QED
  BY <1>10 DEF ExecutionsCounted

LEMMA TakeAddsUp ==
    ASSUME PoolInv, PoolInv', MaxCycles > 0, ExecutionsCounted,
           NEW t \in Threads, Take(t), UNCHANGED <<executions, stage>>
    PROVE  ExecutionsCounted'
<1>1. PICK k \in 0 .. Len(free) - 1 :
         /\ Drops(k) /\ Drop(k)
         /\ cycles' = [e \in Engines |-> IF e \in First(k) THEN Freed ELSE cycles[e]]
  BY DEF Take
<1>2. k \in 0 .. Len(free)
  BY DEF PoolInv, PoolTypeOK
<1>3. Turns' = Turns \ (First(k) \X (1 .. MaxCycles))
  <2>1. \A e : e \in Alive' <=> e \in Alive /\ e \notin First(k)
    BY <1>1 DEF Alive
  <2>2. \A e \in Alive' : cycles'[e] = cycles[e]
    BY <1>1 DEF Alive
  <2>3. ASSUME NEW e, NEW c
        PROVE  <<e, c>> \in Turns' <=>
                 <<e, c>> \in Turns /\ <<e, c>> \notin First(k) \X (1 .. MaxCycles)
    <3>1. <<e, c>> \in Turns' <=> e \in Alive' /\ c \in 1 .. cycles'[e]
      BY DEF Turns
    <3>2. <<e, c>> \in Turns => c \in 1 .. MaxCycles
      BY TurnsFacts
    <3> QED
      BY <2>1, <2>2, <3>1, <3>2, TurnsFacts
  <2>4. \A p \in Turns' : p = <<p[1], p[2]>>
    BY DEF Turns
  <2>5. \A p \in Turns : p = <<p[1], p[2]>>
    BY DEF Turns
  <2> QED
    BY <2>3, <2>4, <2>5
<1> QED
  BY <1>1, <1>2, <1>3, DroppedAddsUp DEF Drops

\* An engine just created has had no turn yet.
LEMMA NewAddsUp ==
    ASSUME PoolInv, PoolInv', MaxCycles > 0, ExecutionsCounted,
           NEW t \in Threads, NEW x \in Engines, NewEngine(t, x),
           UNCHANGED <<executions, stage>>
    PROVE  ExecutionsCounted'
<1> DEFINE k == Len(free)
<1>1. /\ Drops(k) /\ Drop(k)
      /\ cycles[x] = Freed \/ x \in First(k)
      /\ cycles' = [e \in Engines |-> IF e = x THEN 0
                                      ELSE IF e \in First(k) THEN Freed ELSE cycles[e]]
  BY DEF NewEngine
<1>2. k \in 0 .. Len(free)
  BY DEF PoolInv, PoolTypeOK
<1> HIDE DEF k
<1>3. Turns' = Turns \ (First(k) \X (1 .. MaxCycles))
  <2>1. x \notin Alive \/ x \in First(k)
    BY <1>1 DEF Alive
  <2>2. \A e : e # x => (e \in Alive' <=> e \in Alive /\ e \notin First(k))
    BY <1>1 DEF Alive
  <2>3. \A e \in Alive' : e # x => cycles'[e] = cycles[e]
    BY <1>1 DEF Alive
  <2>4. cycles'[x] = 0
    BY <1>1
  <2>5. ASSUME NEW e, NEW c
        PROVE  <<e, c>> \in Turns' <=>
                 <<e, c>> \in Turns /\ <<e, c>> \notin First(k) \X (1 .. MaxCycles)
    <3>1. <<e, c>> \in Turns' <=> e \in Alive' /\ c \in 1 .. cycles'[e]
      BY DEF Turns
    <3>2. <<e, c>> \in Turns => c \in 1 .. MaxCycles
      BY TurnsFacts
    <3>3. c \notin 1 .. 0
      OBVIOUS
    <3>4. CASE e = x
      BY <2>1, <2>4, <3>1, <3>2, <3>3, <3>4, TurnsFacts
    <3>5. CASE e # x
      BY <2>2, <2>3, <3>1, <3>2, <3>5, TurnsFacts
    <3> QED
      BY <3>4, <3>5
  <2>6. \A p \in Turns' : p = <<p[1], p[2]>>
    BY DEF Turns
  <2>7. \A p \in Turns : p = <<p[1], p[2]>>
    BY DEF Turns
  <2> QED
    BY <2>5, <2>6, <2>7
<1> QED
  BY <1>1, <1>2, <1>3, DroppedAddsUp DEF Drops

\* The turn of an engine given back takes the place of the worker.
LEMMA GiveBackAddsUp ==
    ASSUME PoolInv, PoolInv', ScriptTypeOK, MaxCycles > 0, ExecutionsCounted,
           NEW t \in Threads, GiveBack(t)
    PROVE  ExecutionsCounted'
<1> DEFINE mine == engine[t]
           turn == <<mine, cycles[mine] + 1>>
<1>1. /\ mine \in Engines /\ mine \in Alive /\ cycles[mine] \in Nat
  <2>1. mine \in busy /\ mine \in Engines
    BY DEF GiveBack, Unlock, PoolInv, EnginesOwned, PoolTypeOK
  <2> QED
    BY <2>1 DEF Alive, PoolInv, EnginesOwned, PoolTypeOK
<1>2. cycles' = [cycles EXCEPT ![mine] = @ + 1]
  <2>1. \A c : Used(c) = c + 1
    BY DEF Used
  <2> QED
    BY <2>1 DEF GiveBack, Unlock
<1> HIDE DEF mine
<1>3. Turns' = Turns \cup {turn} /\ turn \notin Turns
  <2>1. Alive' = Alive
    BY <1>1, <1>2, PoolAssumption DEF Alive, PoolInv, PoolTypeOK
  <2>2. \A e \in Alive : e # mine => cycles'[e] = cycles[e]
    BY <1>2 DEF Alive, PoolInv, PoolTypeOK
  <2>3. cycles'[mine] = cycles[mine] + 1
    BY <1>1, <1>2 DEF PoolInv, PoolTypeOK
  <2>4. \A c : c \in 1 .. cycles[mine] + 1 <=> c \in 1 .. cycles[mine] \/ c = cycles[mine] + 1
    BY <1>1
  <2>5. ASSUME NEW e, NEW c
        PROVE  <<e, c>> \in Turns' <=> <<e, c>> \in Turns \/ <<e, c>> = turn
    <3>1. <<e, c>> \in Turns' <=> e \in Alive' /\ c \in 1 .. cycles'[e]
      BY DEF Turns
    <3> QED
      BY <1>1, <2>1, <2>2, <2>3, <2>4, <3>1, TurnsFacts
  <2>6. \A p \in Turns' : p = <<p[1], p[2]>>
    BY DEF Turns
  <2>7. \A p \in Turns : p = <<p[1], p[2]>>
    BY DEF Turns
  <2>8. cycles[mine] + 1 \notin 1 .. cycles[mine]
    BY <1>1
  <2>9. turn \notin Turns
    BY <2>8, TurnsFacts
  <2> HIDE DEF turn
  <2>10. turn = <<turn[1], turn[2]>>
    BY DEF turn
  <2> QED
    BY <2>5, <2>6, <2>7, <2>9, <2>10
<1>4. Cardinality(Turns') = Cardinality(Turns) + 1
  BY <1>3, TurnsFacts, FS_AddElement
<1>5. Late' = Late \ {t} /\ t \in Late
  <2>1. CASE checking[t] /\ stage[t] = "counted"
    BY <2>1 DEF GiveBack, MoveTo, Late, ScriptTypeOK
  <2>2. CASE ~(checking[t] /\ stage[t] = "counted")
    BY <2>2 DEF GiveBack, MoveTo, Done, Late, ScriptTypeOK
  <2> QED
    BY <2>1, <2>2
<1>6. Cardinality(Late') = Cardinality(Late) - 1
  BY <1>5, LateFinite, FS_RemoveElement
<1>7. dropped' = dropped /\ executions' = executions
  BY DEF GiveBack, Unlock
<1>8. /\ Cardinality(Turns) \in Int /\ Cardinality(Late) \in Int
      /\ dropped * MaxCycles \in Int
  BY TurnsFacts, LateFinite, PoolAssumption DEF PoolInv, PoolTypeOK
<1>9. Cardinality(Turns') + dropped' * MaxCycles + Cardinality(Late') =
         Cardinality(Turns) + dropped * MaxCycles + Cardinality(Late)
  BY <1>4, <1>6, <1>7, <1>8
<1> QED
  BY <1>7, <1>9 DEF ExecutionsCounted

LEMMA CountAddsUp ==
    ASSUME PoolInv, PoolInv', ScriptTypeOK, MaxCycles > 0, ExecutionsCounted,
           NEW t \in Threads, Count(t)
    PROVE  ExecutionsCounted'
<1>1. Late' = Late \cup {t} /\ t \notin Late
  BY DEF Count, Holds, MoveTo, Late, ScriptTypeOK
<1>2. Cardinality(Late') = Cardinality(Late) + 1
  BY <1>1, LateFinite, FS_AddElement
<1>3. Turns' = Turns /\ dropped' = dropped
  BY DEF Count, poolVars, Turns, Alive
<1>4. /\ Cardinality(Turns) \in Int /\ Cardinality(Late) \in Int
      /\ dropped * MaxCycles \in Int
  BY TurnsFacts, LateFinite, PoolAssumption DEF PoolInv, PoolTypeOK
<1> DEFINE a == Cardinality(Turns) + dropped * MaxCycles + Cardinality(Late)
<1>5. executions = a % Width /\ executions' = (executions + 1) % Width
  BY DEF Count, ExecutionsCounted
<1>6. a \in Int
  BY <1>4
<1>7. Cardinality(Turns') + dropped' * MaxCycles + Cardinality(Late') = a + 1
  BY <1>2, <1>3, <1>4
<1> HIDE DEF a
<1>8. executions' = (a + 1) % Width
  BY <1>5, <1>6, ModuloNext
<1> QED
  BY <1>7, <1>8 DEF ExecutionsCounted

LEMMA NoneAddUp ==
    ASSUME AtRest, Alive = {}, dropped = 0, executions = 0
    PROVE  ExecutionsCounted
<1>1. Turns = {} /\ Late = {}
  BY DEF Turns, Late, AtRest
<1>2. Cardinality(Turns) + dropped * MaxCycles + Cardinality(Late) = 0
  BY <1>1, FS_EmptySet, PoolAssumption
<1>3. 0 % Width = 0
  BY PoolAssumption, ModuloIs
<1> QED
  BY <1>2, <1>3 DEF ExecutionsCounted

LEMMA ExecutionsStep ==
    ASSUME PoolInv, PoolInv', ScriptInv, ExecutionsCounted, [ScriptNext]_allVars
    PROVE  ExecutionsCounted'
<1> SUFFICES ASSUME MaxCycles > 0 PROVE ExecutionsCounted'
  BY DEF ExecutionsCounted
<1> USE DEF MoveTo, Done
<1>0. ScriptTypeOK
  BY DEF ScriptInv
<1>1. ASSUME UNCHANGED <<cycles, dropped, executions>>, Late' = Late
      PROVE  ExecutionsCounted'
  BY <1>1 DEF ExecutionsCounted, Turns, Alive
<1>2. CASE UNCHANGED allVars
  BY <1>1, <1>2 DEF allVars, scriptVars, poolVars, Late
<1>3. CASE Created \/ Discard
  <2>1. CASE Fini
    <3>1. (Alive = {})'
      BY <2>1 DEF Fini, FlushEngines, Alive, PoolInv, EnginesOwned
    <3>2. AtRest'
      BY <2>1 DEF Fini, AtRest
    <3>3. (dropped = 0)' /\ (executions = 0)'
      BY <2>1 DEF Fini, FlushEngines
    <3> QED
      BY <3>1, <3>2, <3>3, NoneAddUp, PTL
  <2>2. CASE ~Fini
    BY <1>1, <1>3, <2>2 DEF Created, Discard, poolVars, Late
  <2> QED
    BY <2>1, <2>2
<1>4. ASSUME NEW t \in Threads, NEW c, NEW f, NEW check, Ask(t, c, f, check)
      PROVE  ExecutionsCounted'
  <2>1. Late' = Late
    BY <1>0, <1>4 DEF Ask, Late, ScriptTypeOK
  <2> QED
    BY <1>1, <1>4, <2>1 DEF Ask, Request
<1>5. ASSUME NEW t \in Threads, Create(t) \/ Enter(t)
      PROVE  ExecutionsCounted'
  <2>1. CASE \E c, f, check : Ask(t, c, f, check)
    BY <1>4, <2>1
  <2>2. CASE UNCHANGED <<poolVars, callVars, executions>>
    BY <1>1, <2>2 DEF poolVars, Late
  <2> QED
    BY <1>5, <2>1, <2>2 DEF Enter, Execute, ExecuteOwn, Check, Create
<1>6. ASSUME NEW t \in Threads, Spurious(t), UNCHANGED scriptVars
      PROVE  ExecutionsCounted'
  BY <1>1, <1>6 DEF Spurious, scriptVars, Late
<1>7. ASSUME NEW t \in Threads, Acquire(t) PROVE ExecutionsCounted'
  <2>1. UNCHANGED <<executions, stage>>
    BY <1>7 DEF Acquire
  <2>2. CASE Take(t)
    BY <2>1, <2>2, TakeAddsUp
  <2>3. CASE Wait(t)
    BY <1>1, <2>1, <2>3 DEF Wait, Late
  <2>4. ASSUME NEW e \in Engines, NewEngine(t, e) PROVE ExecutionsCounted'
    BY <2>1, <2>4, NewAddsUp
  <2> QED
    BY <1>7, <2>2, <2>3, <2>4 DEF Acquire
<1>8. ASSUME NEW t \in Threads,
             Find(t) \/ Compile(t) \/ CompileFails(t) \/ Install(t)
      PROVE  ExecutionsCounted'
  <2>1. Late' = Late
    BY <1>0, <1>8 DEF Find, Compile, CompileFails, Install, Holds, Late, ScriptTypeOK
  <2> QED
    BY <1>1, <1>8, <2>1 DEF Find, Compile, CompileFails, Install, poolVars
<1>9. ASSUME NEW t \in Threads, Count(t) \/ GiveBack(t)
      PROVE  ExecutionsCounted'
  BY <1>0, <1>9, CountAddsUp, GiveBackAddsUp
<1> QED
  BY <1>2, <1>3, <1>5, <1>6, <1>7, <1>8, <1>9 DEF ScriptNext, Proceed

-----------------------------------------------------------------------------
(* Theorems *)

\* The inductive invariant of the script object.
THEOREM ScriptInvariance == ScriptSpec => []ScriptInv
<1>1. ScriptInit => ScriptInv
  BY PoolTypeInit, NameFacts, PoolAssumption, ScriptAssumption
     DEF ScriptInit, PoolInit, ScriptInv, ScriptTypeOK, InPool, NamesMatch,
         Compiled, FunctionCompiles, Stages, NoFunctions
<1>2. PoolInv /\ PoolInv' /\ ScriptInv /\ [ScriptNext]_allVars => ScriptInv'
  BY ScriptTypeStep, InPoolStep, NamesStep, CompiledStep DEF ScriptInv
<1>3. ScriptSpec => []PoolInv
  BY ScriptImplementsPool, PoolInvariance, PTL
<1> QED
  BY <1>1, <1>2, <1>3, PTL DEF ScriptSpec

\* The function called is the code that was asked for, however reloads and
\* executions share the object and its engines.
THEOREM RightFunctionCalled == ScriptSpec => []RightFunction
<1>1. PoolInv /\ ScriptInv => RightFunction
  BY HolderFacts, NameFacts
     DEF ScriptInv, ScriptTypeOK, NamesMatch, Compiled, RightFunction, Holds
<1>2. ScriptSpec => []PoolInv
  BY ScriptImplementsPool, PoolInvariance, PTL
<1> QED
  BY <1>1, <1>2, ScriptInvariance, PTL

\* The object only ever runs code that compiled.
THEOREM FunctionAlwaysCompiles == ScriptSpec => []FunctionCompiles
BY ScriptInvariance, PTL DEF ScriptInv, Compiled

\* What .stats() shows adds up: the engines created are alive or dropped, and the
\* executions are the cycles those engines had, however often counters wrapped.
THEOREM StatsSound == ScriptSpec => []StatsAddUp
<1>1. ScriptInit => ExecutionsCounted
  <2> SUFFICES ASSUME ScriptInit PROVE ExecutionsCounted
    OBVIOUS
  <2>1. AtRest /\ Alive = {} /\ dropped = 0 /\ executions = 0
    BY DEF ScriptInit, PoolInit, AtRest, Alive
  <2> QED
    BY <2>1, NoneAddUp
<1>2. PoolInv /\ PoolInv' /\ ScriptInv /\ ExecutionsCounted /\ [ScriptNext]_allVars
        => ExecutionsCounted'
  BY ExecutionsStep
<1>3. ScriptSpec => []PoolInv /\ []EnginesCounted
  BY ScriptImplementsPool, PoolInvariance, EnginesAddUp, PTL
<1>4. EnginesCounted /\ ExecutionsCounted => StatsAddUp
  BY DEF StatsAddUp
<1> QED
  BY <1>1, <1>2, <1>3, <1>4, ScriptInvariance, PTL DEF ScriptSpec

\* Script objects may take their engines for those of an allocator: the promise of
\* the pool holds for the whole of execute(), of the callback and of the flush.
THEOREM ScriptImplementsAllocator == ScriptSpec => ImplementsAllocator
BY ScriptImplementsPool, PoolImplementsAllocator

=============================================================================
