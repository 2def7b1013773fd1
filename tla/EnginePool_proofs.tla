-------------------------- MODULE EnginePool_proofs --------------------------
(***************************************************************************)
(* The invariants of the pool of engines, for any number of workers and    *)
(* engines.  NoLostWakeup is a count: what can be taken or created never    *)
(* exceeds the workers woken up, as long as others wait.                   *)
(***************************************************************************)
EXTENDS EnginePool, FiniteSetTheorems, SequenceTheorems, TLAPS

-----------------------------------------------------------------------------
(* Counting workers *)

LEMMA Finite ==
    ASSUME PoolTypeOK
    PROVE  /\ IsFiniteSet(busy) /\ Cardinality(busy) \in Nat
           /\ IsFiniteSet(Woken) /\ Cardinality(Woken) \in Nat
           /\ Len(free) \in Nat
<1>1. IsFiniteSet(busy)
  BY PoolAssumption, FS_Subset DEF PoolTypeOK
<1>2. Woken \in SUBSET Threads
  BY DEF Woken
<1>3. IsFiniteSet(Woken)
  BY <1>2, PoolAssumption, FS_Subset
<1> QED
  BY <1>1, <1>3, FS_CardinalityType DEF PoolTypeOK

\* A worker that gets an engine, or waits, was at most one of the woken ones.
LEMMA LeavesWoken ==
    ASSUME PoolTypeOK, NEW t \in Threads, NEW where \in Workers \ {"woken"},
           MoveWorker(t, where)
    PROVE  /\ Cardinality(Woken') \in Nat
           /\ Cardinality(Woken') >= Cardinality(Woken) - 1
<1>1. Woken' = Woken \ {t}
  BY DEF Woken, MoveWorker, PoolTypeOK
<1>2. Cardinality(Woken \ {t}) = IF t \in Woken THEN Cardinality(Woken) - 1
                                               ELSE Cardinality(Woken)
  BY Finite, FS_RemoveElement
<1>3. IsFiniteSet(Woken \ {t})
  BY Finite, FS_RemoveElement
<1>4. Cardinality(Woken \ {t}) \in Nat
  BY <1>3, FS_CardinalityType
<1> QED
  BY <1>1, <1>2, <1>4, Finite

\* A worker that is woken up was not.
LEMMA JoinsWoken ==
    ASSUME PoolTypeOK, NEW w \in Waiting, Woken' = Woken \cup {w}
    PROVE  Cardinality(Woken') = Cardinality(Woken) + 1
<1>1. w \notin Woken
  BY DEF Woken, Waiting
<1> QED
  BY <1>1, Finite, FS_AddElement

-----------------------------------------------------------------------------
(* What lock_engine() does to the two lists *)

LEMMA TakeFacts ==
    ASSUME PoolTypeOK, NEW k \in 0 .. Len(free) - 1,
           free' = SubSeq(free, k + 2, Len(free))
    PROVE  /\ k \in Nat /\ k + 1 \in DOMAIN free /\ free[k + 1] \in Engines
           /\ free' \in Seq(Engines)
           /\ Len(free') = Len(free) - k - 1
           /\ DOMAIN free' = 1 .. Len(free) - k - 1
           /\ \A i \in DOMAIN free' :
                 i + k + 1 \in DOMAIN free /\ free'[i] = free[i + k + 1]
<1>1. DOMAIN free = 1 .. Len(free) /\ Len(free) \in Nat
  BY DEF PoolTypeOK
<1>2. \A i \in 1 .. Len(free) : free[i] \in Engines
  BY DEF PoolTypeOK
<1>3. k \in Nat /\ k + 1 \in DOMAIN free /\ k + 2 \in Int /\ Len(free) \in Int
  BY <1>1
<1>4. \A i \in (k + 2) .. Len(free) : free[i] \in Engines
  BY <1>1, <1>2, <1>3
<1>5. /\ free' \in Seq(Engines)
      /\ Len(free') = IF k + 2 <= Len(free) THEN Len(free) - (k + 2) + 1 ELSE 0
      /\ \A i \in 1 .. Len(free) - (k + 2) + 1 : free'[i] = free[(k + 2) + i - 1]
  BY <1>3, <1>4, SubSeqProperties
<1>6. Len(free') = Len(free) - k - 1
  <2>1. k \in Int /\ Len(free) \in Int /\ k <= Len(free) - 1
    BY <1>1
  <2> QED
    BY <1>5, <2>1
<1>7. DOMAIN free' = 1 .. Len(free) - k - 1
  BY <1>5, <1>6
<1>8. ASSUME NEW i \in DOMAIN free'
      PROVE  i + k + 1 \in DOMAIN free /\ free'[i] = free[i + k + 1]
  BY <1>8, <1>7, <1>5, <1>3, <1>1
<1> QED
  BY <1>1, <1>2, <1>3, <1>5, <1>6, <1>7, <1>8

-----------------------------------------------------------------------------
(* Types *)

LEMMA PoolTypeInit == PoolInit => PoolTypeOK
BY PoolAssumption DEF PoolInit, PoolTypeOK, Workers

LEMMA Modulo == \A a \in Nat : a % Width \in 0 .. Width - 1
BY PoolAssumption

LEMMA PoolTypeStep ==
    ASSUME PoolTypeOK, EnginesOwned, PoolBounded, [PoolNext]_poolVars
    PROVE  PoolTypeOK'
<1> USE DEF PoolTypeOK, Workers, MoveWorker
<1>1. CASE UNCHANGED poolVars
  BY <1>1 DEF poolVars
<1>2. CASE FlushEngines
  BY <1>2, PoolAssumption DEF FlushEngines
<1>3. ASSUME NEW t \in Threads, Request(t) \/ Spurious(t) \/ Wait(t)
      PROVE  PoolTypeOK'
  BY <1>3 DEF Request, Spurious, Wait
<1>4. ASSUME NEW t \in Threads, Take(t) PROVE PoolTypeOK'
  <2>1. PICK k \in 0 .. Len(free) - 1 :
           /\ free' = SubSeq(free, k + 2, Len(free))
           /\ busy' = busy \cup {free[k + 1]}
           /\ engine' = [engine EXCEPT ![t] = free[k + 1]]
           /\ n' = n - k
           /\ cycles' = [e \in Engines |-> IF e \in First(k) THEN Freed ELSE cycles[e]]
           /\ Drop(k)
    BY <1>4 DEF Take
  <2>2. n' \in Nat
    BY <2>1, Finite DEF PoolBounded
  <2>3. dropped' \in 0 .. Width - 1
    <3>1. dropped \in Nat /\ k \in Nat
      BY PoolAssumption, Finite
    <3> QED
      BY <2>1, <3>1, Modulo DEF Drop
  <2> QED
    BY <1>4, <2>1, <2>2, <2>3, TakeFacts DEF Take
<1>5. ASSUME NEW t \in Threads, NEW e \in Engines, NewEngine(t, e)
      PROVE  PoolTypeOK'
  <2>1. n' \in Nat
    BY <1>5, Finite DEF PoolBounded, NewEngine
  <2>2. dropped' \in 0 .. Width - 1 /\ created' \in 0 .. Width - 1
    <3>1. dropped \in Nat /\ created \in Nat /\ Len(free) \in Nat
      BY PoolAssumption, Finite
    <3> QED
      BY <1>5, <3>1, Modulo DEF Drop, NewEngine
  <2> QED
    BY <1>5, <2>1, <2>2 DEF NewEngine
<1>6. ASSUME NEW t \in Threads, Unlock(t) PROVE PoolTypeOK'
  <2>1. engine[t] \in busy /\ engine[t] \in Engines
    BY <1>6 DEF EnginesOwned, Unlock
  <2>2. free' \in Seq(Engines)
    BY <1>6, <2>1, AppendProperties DEF Unlock
  <2>3. cycles' \in [Engines -> Nat \cup {Freed}]
    <3>1. cycles[engine[t]] \in Nat
      BY <2>1 DEF EnginesOwned
    <3> QED
      BY <1>6, <2>1, <3>1 DEF Unlock, Used
  <2>4. worker' \in [Threads -> Workers]
    BY <1>6 DEF Unlock, Signal
  <2> QED
    BY <1>6, <2>2, <2>3, <2>4 DEF Unlock
<1> QED
  BY <1>1, <1>2, <1>3, <1>4, <1>5, <1>6 DEF PoolNext, LockEngine

-----------------------------------------------------------------------------
(* Every engine is free once, or in one worker's hands *)

LEMMA OwnedTake ==
    ASSUME PoolTypeOK, EnginesOwned, NEW t \in Threads, Take(t)
    PROVE  EnginesOwned'
<1> PICK k \in 0 .. Len(free) - 1 :
        /\ free' = SubSeq(free, k + 2, Len(free))
        /\ busy' = busy \cup {free[k + 1]}
        /\ engine' = [engine EXCEPT ![t] = free[k + 1]]
        /\ cycles' = [e \in Engines |-> IF e \in First(k) THEN Freed ELSE cycles[e]]
  BY DEF Take
<1> DEFINE taken == free[k + 1]
<1>1. /\ k \in Nat /\ k + 1 \in DOMAIN free /\ taken \in Engines
      /\ DOMAIN free = 1 .. Len(free) /\ Len(free) \in Nat
      /\ DOMAIN free' = 1 .. Len(free) - k - 1
      /\ \A i \in DOMAIN free' :
            i + k + 1 \in DOMAIN free /\ free'[i] = free[i + k + 1]
  BY TakeFacts DEF PoolTypeOK
<1>2. taken \notin busy /\ \A u \in Threads : engine[u] # taken
  <2>1. taken \notin busy
    BY <1>1 DEF EnginesOwned
  <2> QED
    BY <2>1, <1>1, PoolAssumption DEF EnginesOwned
<1>3. worker[t] # "holding" /\ engine[t] = Null
  BY DEF Take, Locking, EnginesOwned
<1>4. worker' = [worker EXCEPT ![t] = "holding"]
  BY DEF Take, MoveWorker
<1>5. \A i \in DOMAIN free' : free'[i] \notin First(k) /\ free'[i] # taken
  <2> TAKE i \in DOMAIN free'
  <2>1. i + k + 1 \in DOMAIN free /\ free'[i] = free[i + k + 1] /\ i \in Nat /\ i >= 1
    BY <1>1
  <2>2. \A j \in 1 .. k + 1 : j \in DOMAIN free /\ j # i + k + 1
    BY <1>1, <2>1
  <2>3. \A j \in 1 .. k + 1 : free[j] # free[i + k + 1]
    BY <2>1, <2>2 DEF EnginesOwned
  <2>4. free'[i] \notin First(k)
    <3>1. \A j \in 1 .. k : j \in 1 .. k + 1
      BY <1>1
    <3> QED
      BY <2>1, <2>3, <3>1 DEF First
  <2>5. free'[i] # taken
    <3>1. k + 1 \in 1 .. k + 1
      BY <1>1
    <3> QED
      BY <2>1, <2>3, <3>1
  <2> QED
    BY <2>4, <2>5
<1>6. taken \notin First(k)
  <2>1. \A j \in 1 .. k : j \in DOMAIN free /\ j # k + 1
    BY <1>1
  <2> QED
    BY <2>1, <1>1 DEF First, EnginesOwned
<1>7. \A e \in Engines : (cycles[e] # Freed)' <=>
          e \in busy' \/ \E i \in DOMAIN free' : free'[i] = e
  <2> TAKE e \in Engines
  <2>1. \A j \in DOMAIN free :
            \/ free[j] \in First(k) \/ free[j] = taken
            \/ \E i \in DOMAIN free' : free'[i] = free[j]
    <3> TAKE j \in DOMAIN free
    <3>1. CASE j <= k
      BY <3>1, <1>1 DEF First
    <3>2. CASE j = k + 1
      BY <3>2
    <3>3. CASE j > k + 1
      <4>1. j - k - 1 \in DOMAIN free' /\ (j - k - 1) + k + 1 = j
        BY <3>3, <1>1
      <4> QED
        BY <4>1, <1>1
    <3> QED
      BY <3>1, <3>2, <3>3, <1>1
  <2>2. \A i \in 1 .. k : free[i] \notin busy
    BY <1>1 DEF EnginesOwned
  <2>3. First(k) \cap busy' = {}
    BY <2>2, <1>6 DEF First
  <2>4. \A i \in DOMAIN free' : \E j \in DOMAIN free : free'[i] = free[j]
    BY <1>1
  <2>5. CASE e \in First(k)
    <3>1. cycles'[e] = Freed /\ e \notin busy'
      BY <2>3, <2>5
    <3> QED
      BY <3>1, <2>5, <1>5
  <2>6. CASE e \notin First(k)
    <3>1. cycles'[e] = cycles[e]
      BY <2>6
    <3>2. e \in busy' <=> e \in busy \/ e = taken
      OBVIOUS
    <3>3. (\E j \in DOMAIN free : free[j] = e) <=>
             e = taken \/ \E i \in DOMAIN free' : free'[i] = e
      BY <1>1, <2>1, <2>4, <2>6
    <3> QED
      BY <3>1, <3>2, <3>3 DEF EnginesOwned
  <2> QED
    BY <2>5, <2>6
<1>8. \A i, j \in DOMAIN free' : free'[i] = free'[j] => i = j
  <2> TAKE i, j \in DOMAIN free'
  <2>1. free'[i] = free'[j] => i + k + 1 = j + k + 1
    BY <1>1 DEF EnginesOwned
  <2> QED
    BY <2>1, <1>1
<1>9. \A i \in DOMAIN free' : free'[i] \notin busy'
  BY <1>1, <1>5 DEF EnginesOwned
<1>10. /\ \A e \in busy' : \E u \in Threads : engine'[u] = e
       /\ \A u \in Threads : worker'[u] = "holding" => engine'[u] \in busy'
       /\ \A u \in Threads : worker'[u] # "holding" => engine'[u] = Null
       /\ \A u, v \in Threads : engine'[u] = engine'[v] /\ engine'[u] # Null => u = v
  <2>1. \A u \in Threads : u # t => engine'[u] = engine[u] /\ worker'[u] = worker[u]
    BY <1>4 DEF PoolTypeOK
  <2>2. engine'[t] = taken /\ worker'[t] = "holding" /\ taken # Null
    BY <1>1, <1>4, PoolAssumption DEF PoolTypeOK
  <2>3. busy' = busy \cup {taken}
    OBVIOUS
  <2>4. Null \notin busy
    BY PoolAssumption DEF PoolTypeOK
  <2>5. \A u \in Threads : engine[u] # taken
    BY <1>2
  <2> HIDE DEF taken
  <2>6. \A e \in busy' : \E u \in Threads : engine'[u] = e
    BY <1>3, <2>1, <2>2, <2>3, <2>4 DEF EnginesOwned
  <2>7. \A u \in Threads : worker'[u] = "holding" => engine'[u] \in busy'
    BY <2>1, <2>2, <2>3 DEF EnginesOwned
  <2>8. \A u \in Threads : worker'[u] # "holding" => engine'[u] = Null
    BY <2>1, <2>2 DEF EnginesOwned
  <2>9. \A u, v \in Threads : engine'[u] = engine'[v] /\ engine'[u] # Null => u = v
    BY <2>1, <2>2, <2>5 DEF EnginesOwned
  <2> QED
    BY <2>6, <2>7, <2>8, <2>9
<1> QED
  BY <1>7, <1>8, <1>9, <1>10 DEF EnginesOwned

LEMMA OwnedNew ==
    ASSUME PoolTypeOK, EnginesOwned, NEW t \in Threads, NEW e \in Engines,
           NewEngine(t, e)
    PROVE  EnginesOwned'
<1>1. DOMAIN free = 1 .. Len(free) /\ Len(free) \in Nat
  BY DEF PoolTypeOK
<1>2. /\ free' = <<>> /\ busy' = busy \cup {e}
      /\ engine' = [engine EXCEPT ![t] = e]
      /\ worker' = [worker EXCEPT ![t] = "holding"]
      /\ worker[t] # "holding"
  BY DEF NewEngine, MoveWorker, Locking
<1>3. DOMAIN free' = {}
  BY <1>2
<1>4. First(Len(free)) = {free[i] : i \in DOMAIN free}
  BY <1>1 DEF First
<1>5. e \notin busy
  BY <1>4 DEF NewEngine, EnginesOwned
<1>6. \A x \in Engines : cycles'[x] # Freed <=> x \in busy'
  BY <1>2, <1>4, <1>5, PoolAssumption DEF NewEngine, EnginesOwned
<1>7. /\ \A x \in busy' : \E u \in Threads : engine'[u] = x
      /\ \A u \in Threads : worker'[u] = "holding" => engine'[u] \in busy'
      /\ \A u \in Threads : worker'[u] # "holding" => engine'[u] = Null
      /\ \A u, v \in Threads : engine'[u] = engine'[v] /\ engine'[u] # Null => u = v
  <2>1. \A u \in Threads : engine[u] # e
    BY <1>5, PoolAssumption DEF EnginesOwned
  <2>2. \A u \in Threads : u # t => engine'[u] = engine[u] /\ worker'[u] = worker[u]
    BY <1>2 DEF PoolTypeOK
  <2>3. engine'[t] = e /\ worker'[t] = "holding" /\ e # Null /\ engine[t] = Null
    BY <1>2, PoolAssumption DEF PoolTypeOK, EnginesOwned
  <2>4. Null \notin busy
    BY PoolAssumption DEF PoolTypeOK
  <2> QED
    BY <1>2, <2>1, <2>2, <2>3, <2>4 DEF EnginesOwned
<1> QED
  BY <1>3, <1>6, <1>7 DEF EnginesOwned

LEMMA OwnedUnlock ==
    ASSUME PoolTypeOK, EnginesOwned, NEW t \in Threads, Unlock(t)
    PROVE  EnginesOwned'
<1> DEFINE mine == engine[t]
<1>1. worker[t] = "holding" /\ mine \in busy /\ mine \in Engines
  BY DEF Unlock, EnginesOwned, PoolTypeOK
<1>2. /\ DOMAIN free = 1 .. Len(free) /\ Len(free) \in Nat
      /\ DOMAIN free' = 1 .. Len(free) + 1
      /\ \A i \in DOMAIN free : free'[i] = free[i]
      /\ free'[Len(free) + 1] = mine
  BY <1>1, AppendProperties DEF Unlock, PoolTypeOK
<1>3. /\ busy' = busy \ {mine} /\ engine' = [engine EXCEPT ![t] = Null]
      /\ cycles' = [cycles EXCEPT ![mine] = Used(@)]
  BY DEF Unlock
<1>4. Used(cycles[mine]) # Freed
  <2>1. cycles[mine] \in Nat
    BY <1>1 DEF EnginesOwned, PoolTypeOK
  <2> QED
    BY <2>1, PoolAssumption DEF Used
<1>5. \A i \in DOMAIN free : free[i] # mine
  BY <1>1 DEF EnginesOwned
<1>6. \A i \in DOMAIN free' : i \in DOMAIN free \/ i = Len(free) + 1
  BY <1>2
<1>7. \A i \in DOMAIN free : i \in DOMAIN free'
  BY <1>2
<1>8. \A x \in Engines : cycles'[x] # Freed <=>
          x \in busy' \/ \E i \in DOMAIN free' : free'[i] = x
  <2>1. CASE \A x \in Engines : x # mine
    BY <1>1, <2>1
  <2>2. Len(free) + 1 \in DOMAIN free'
    BY <1>2
  <2>3. ASSUME NEW x \in Engines, x # mine
        PROVE  cycles'[x] # Freed <=>
                 x \in busy' \/ \E i \in DOMAIN free' : free'[i] = x
    BY <2>3, <1>2, <1>3, <1>6, <1>7 DEF EnginesOwned, PoolTypeOK
  <2>4. cycles'[mine] # Freed /\ \E i \in DOMAIN free' : free'[i] = mine
    BY <1>1, <1>2, <1>3, <1>4, <2>2 DEF PoolTypeOK
  <2> QED
    BY <2>3, <2>4
<1>9. \A i, j \in DOMAIN free' : free'[i] = free'[j] => i = j
  BY <1>2, <1>5, <1>6 DEF EnginesOwned
<1>10. \A i \in DOMAIN free' : free'[i] \notin busy'
  BY <1>2, <1>3, <1>6 DEF EnginesOwned
<1>11. \A u \in Threads : worker'[u] = "holding" <=> worker[u] = "holding" /\ u # t
  <2>1. CASE Waiting = {}
    BY <2>1 DEF Unlock, Signal, MoveWorker, PoolTypeOK
  <2>2. CASE Waiting # {}
    <3>1. PICK w \in Waiting :
             worker' = [worker EXCEPT ![t] = "idle", ![w] = "woken"]
      BY <2>2 DEF Unlock, Signal
    <3> QED
      BY <3>1, <1>1 DEF Waiting, PoolTypeOK
  <2> QED
    BY <2>1, <2>2
<1>12. /\ \A x \in busy' : \E u \in Threads : engine'[u] = x
       /\ \A u \in Threads : worker'[u] = "holding" => engine'[u] \in busy'
       /\ \A u \in Threads : worker'[u] # "holding" => engine'[u] = Null
       /\ \A u, v \in Threads : engine'[u] = engine'[v] /\ engine'[u] # Null => u = v
  <2>1. \A u \in Threads : u # t => engine'[u] = engine[u]
    BY <1>3 DEF PoolTypeOK
  <2>2. engine'[t] = Null
    BY <1>3 DEF PoolTypeOK
  <2>3. \A u \in Threads : engine[u] = mine => u = t
    BY <1>1, PoolAssumption DEF EnginesOwned
  <2> QED
    BY <1>1, <1>3, <1>11, <2>1, <2>2, <2>3 DEF EnginesOwned
<1> QED
  BY <1>8, <1>9, <1>10, <1>12 DEF EnginesOwned

LEMMA OwnedStep ==
    ASSUME PoolTypeOK, EnginesOwned, [PoolNext]_poolVars
    PROVE  EnginesOwned'
<1>1. CASE UNCHANGED poolVars
  BY <1>1 DEF poolVars, EnginesOwned
<1>2. CASE FlushEngines
  <2>1. busy = {}
    BY <1>2, PoolAssumption DEF FlushEngines, EnginesOwned, PoolTypeOK
  <2>2. DOMAIN free' = {}
    BY <1>2 DEF FlushEngines
  <2> QED
    BY <1>2, <2>1, <2>2 DEF FlushEngines, EnginesOwned
<1>3. ASSUME NEW t \in Threads, Request(t) \/ Spurious(t) \/ Wait(t)
      PROVE  EnginesOwned'
  BY <1>3 DEF Request, Spurious, Wait, Locking, MoveWorker, EnginesOwned,
              PoolTypeOK
<1> QED
  BY <1>1, <1>2, <1>3, OwnedTake, OwnedNew, OwnedUnlock DEF PoolNext, LockEngine

-----------------------------------------------------------------------------
(* The bound of the pool *)

LEMMA BoundedStep ==
    ASSUME PoolTypeOK, EnginesOwned, PoolBounded, [PoolNext]_poolVars
    PROVE  PoolBounded'
<1> USE PoolAssumption, Finite
<1>1. CASE UNCHANGED poolVars
  BY <1>1 DEF poolVars, PoolBounded
<1>2. CASE FlushEngines
  BY <1>2, FS_EmptySet DEF FlushEngines, PoolBounded
<1>3. ASSUME NEW t \in Threads, Request(t) \/ Spurious(t) \/ Wait(t)
      PROVE  PoolBounded'
  BY <1>3 DEF Request, Spurious, Wait, PoolBounded
<1>4. ASSUME NEW t \in Threads, Take(t) PROVE PoolBounded'
  <2>1. PICK k \in 0 .. Len(free) - 1 :
           /\ free' = SubSeq(free, k + 2, Len(free))
           /\ busy' = busy \cup {free[k + 1]}
           /\ n' = n - k
    BY <1>4 DEF Take
  <2>2. free[k + 1] \notin busy /\ Len(free') = Len(free) - k - 1 /\ k \in Nat
    BY <2>1, TakeFacts DEF EnginesOwned
  <2>3. Cardinality(busy') = Cardinality(busy) + 1
    BY <2>1, <2>2, FS_AddElement
  <2>4. /\ Len(free) \in Nat /\ Cardinality(busy) \in Nat
        /\ n = Len(free) + Cardinality(busy) /\ n <= MaxEngines
    BY FS_CardinalityType DEF PoolBounded, PoolTypeOK
  <2>5. n' = n - k /\ n' <= MaxEngines
    BY <2>1, <2>2, <2>4
  <2>6. n' = Len(free') + Cardinality(busy')
    BY <2>2, <2>3, <2>4, <2>5
  <2> QED
    BY <2>5, <2>6 DEF PoolBounded
<1>5. ASSUME NEW t \in Threads, NEW e \in Engines, NewEngine(t, e)
      PROVE  PoolBounded'
  <2>1. e \notin busy
    <3>1. DOMAIN free = 1 .. Len(free)
      BY DEF PoolTypeOK
    <3> QED
      BY <1>5, <3>1 DEF NewEngine, First, EnginesOwned
  <2>2. Cardinality(busy') = Cardinality(busy) + 1
    BY <1>5, <2>1, FS_AddElement DEF NewEngine
  <2>3. Len(free') = 0 /\ n' = n - Len(free) + 1 /\ n - Len(free) < MaxEngines
    BY <1>5 DEF NewEngine, Room
  <2> QED
    BY <2>2, <2>3 DEF PoolBounded, PoolTypeOK
<1>6. ASSUME NEW t \in Threads, Unlock(t) PROVE PoolBounded'
  <2>1. engine[t] \in busy /\ engine[t] \in Engines
    BY <1>6 DEF Unlock, EnginesOwned, PoolTypeOK
  <2>2. Cardinality(busy') = Cardinality(busy) - 1
    BY <1>6, <2>1, FS_RemoveElement DEF Unlock
  <2>3. Len(free') = Len(free) + 1 /\ n' = n
    BY <1>6, <2>1, AppendProperties DEF Unlock, PoolTypeOK
  <2> QED
    BY <2>2, <2>3 DEF PoolBounded, PoolTypeOK
<1> QED
  BY <1>1, <1>2, <1>3, <1>4, <1>5, <1>6 DEF PoolNext, LockEngine

-----------------------------------------------------------------------------
(* The pool is an allocator *)

\* The engines alive are as many as the lists hold, at most.
LEMMA AliveBounded ==
    ASSUME PoolTypeOK, EnginesOwned, PoolBounded
    PROVE  Cardinality(Alive) <= MaxEngines
<1> DEFINE listed == {free[i] : i \in DOMAIN free}
<1>1. DOMAIN free = 1 .. Len(free) /\ Len(free) \in Nat /\ free \in [1 .. Len(free) -> Engines]
  BY DEF PoolTypeOK
<1>2. free \in Surjection(1 .. Len(free), listed)
  BY <1>1 DEF Surjection
<1>3. IsFiniteSet(1 .. Len(free)) /\ Cardinality(1 .. Len(free)) = Len(free)
  BY <1>1, FS_Interval
<1>4. IsFiniteSet(listed) /\ Cardinality(listed) <= Len(free)
  BY <1>2, <1>3, FS_Surjection
<1>5. listed \cap busy = {}
  BY DEF EnginesOwned
<1>6. Alive = listed \cup busy
  BY <1>1 DEF Alive, EnginesOwned, PoolTypeOK
<1> HIDE DEF listed
<1>7. /\ Cardinality(listed \cap busy) = 0
      /\ Cardinality(listed) \in Nat /\ Cardinality(busy) \in Nat
  BY <1>4, <1>5, Finite, FS_EmptySet, FS_CardinalityType
<1>8. Cardinality(listed \cup busy) =
        Cardinality(listed) + Cardinality(busy) - Cardinality(listed \cap busy)
  BY <1>4, Finite, FS_Union
<1> QED
  BY <1>1, <1>4, <1>6, <1>7, <1>8, PoolAssumption DEF PoolBounded, PoolTypeOK

\* What workers have is what the list of busy engines holds.
LEMMA HeldIsBusy ==
    ASSUME PoolTypeOK, EnginesOwned
    PROVE  Alloc!Held = busy
BY PoolAssumption DEF Alloc!Held, EnginesOwned, PoolTypeOK

LEMMA ListedAlive ==
    ASSUME PoolTypeOK, EnginesOwned
    PROVE  /\ Alive \subseteq Engines
           /\ \A i \in DOMAIN free : free[i] \in Alive \ busy
<1>1. \A i \in DOMAIN free : free[i] \in Engines
  BY DEF PoolTypeOK
<1> QED
  BY <1>1 DEF Alive, EnginesOwned

\* The allocator's copy of FiniteSets is the one the pool uses.
LEMMA SameCardinality == \A S : Alloc!Cardinality(S) = Cardinality(S)
BY DEF Alloc!Cardinality, Cardinality

LEMMA AllocStep ==
    ASSUME PoolTypeOK, EnginesOwned, Cardinality(Alive') <= MaxEngines,
           [PoolNext]_poolVars
    PROVE  [Alloc!AllocNext]_(Alloc!allocVars)
<1> USE DEF PoolTypeOK
<1>1. CASE UNCHANGED poolVars
  BY <1>1 DEF poolVars, Alloc!allocVars, Alive
<1>2. CASE FlushEngines
  <2>1. busy = {}
    BY <1>2, PoolAssumption DEF FlushEngines, EnginesOwned
  <2>2. Alive' = {}
    BY <1>2 DEF FlushEngines, Alive, EnginesOwned
  <2> QED
    BY <1>2, <2>1, <2>2, HeldIsBusy
    DEF FlushEngines, Alloc!AllocNext, Alloc!Flush
<1>3. ASSUME NEW t \in Threads, Request(t) \/ Spurious(t) \/ Wait(t)
      PROVE  UNCHANGED Alloc!allocVars
  BY <1>3 DEF Request, Spurious, Wait, Alloc!allocVars, Alive
<1>4. ASSUME NEW t \in Threads, Take(t)
      PROVE  Alloc!AllocNext
  <2>1. PICK k \in 0 .. Len(free) - 1 :
           /\ free' = SubSeq(free, k + 2, Len(free))
           /\ engine' = [engine EXCEPT ![t] = free[k + 1]]
           /\ cycles' = [e \in Engines |-> IF e \in First(k) THEN Freed ELSE cycles[e]]
    BY <1>4 DEF Take
  <2>2. /\ k \in Nat /\ k + 1 \in DOMAIN free /\ free[k + 1] \in Engines
        /\ DOMAIN free = 1 .. Len(free) /\ Len(free) \in Nat
    BY <2>1, TakeFacts
  <2>3. \A i \in 1 .. k : i \in DOMAIN free /\ i # k + 1
    BY <2>2
  <2>4. First(k) \subseteq Alive \ busy /\ First(k) \in SUBSET Engines
    BY <2>3, ListedAlive DEF First
  <2>5. free[k + 1] \in Alive /\ free[k + 1] \notin busy /\ free[k + 1] \notin First(k)
    <3>1. \A i \in 1 .. k : free[i] # free[k + 1]
      BY <2>2, <2>3 DEF EnginesOwned
    <3> QED
      BY <2>2, <3>1, ListedAlive DEF First
  <2>6. Alive' = (Alive \ First(k)) \cup {free[k + 1]}
    <3>1. \A x \in Engines :
             (cycles[x] # Freed)' <=> cycles[x] # Freed /\ x \notin First(k)
      BY <2>1
    <3>2. free[k + 1] \in Engines /\ Alive \subseteq Engines
      BY <2>2 DEF Alive
    <3>3. Alive' = Alive \ First(k)
      BY <3>1, <3>2 DEF Alive
    <3> QED
      BY <2>5, <3>3
  <2>7. engine[t] = Null
    BY <1>4 DEF Take, Locking, EnginesOwned
  <2>8. Alloc!Acquire(t, free[k + 1], First(k))
    BY <2>1, <2>4, <2>5, <2>6, <2>7, HeldIsBusy, SameCardinality DEF Alloc!Acquire
  <2> QED
    BY <2>2, <2>4, <2>8 DEF Alloc!AllocNext
<1>5. ASSUME NEW t \in Threads, NEW e \in Engines, NewEngine(t, e)
      PROVE  Alloc!AllocNext
  <2> DEFINE all == First(Len(free))
  <2>1. all = {free[i] : i \in DOMAIN free}
    <3>1. DOMAIN free = 1 .. Len(free)
      OBVIOUS
    <3> QED
      BY <3>1 DEF First
  <2>2. all \subseteq Alive \ busy /\ all \in SUBSET Engines
    BY <2>1, ListedAlive
  <2>3. e \notin busy
    BY <1>5, <2>2 DEF NewEngine, EnginesOwned
  <2>4. Alive' = (Alive \ all) \cup {e}
    <3>1. \A x \in Engines :
             (cycles[x] # Freed)' <=> x = e \/ (cycles[x] # Freed /\ x \notin all)
      BY <1>5, PoolAssumption DEF NewEngine
    <3> QED
      BY <3>1 DEF Alive
  <2>5. engine[t] = Null /\ engine' = [engine EXCEPT ![t] = e]
    BY <1>5 DEF NewEngine, Locking, EnginesOwned
  <2>6. Alloc!Acquire(t, e, all)
    BY <2>2, <2>3, <2>4, <2>5, HeldIsBusy, SameCardinality DEF Alloc!Acquire
  <2> QED
    BY <2>2, <2>6 DEF Alloc!AllocNext
<1>6. ASSUME NEW t \in Threads, Unlock(t)
      PROVE  Alloc!AllocNext
  <2>1. engine[t] \in busy /\ engine[t] \in Engines /\ cycles[engine[t]] \in Nat
    BY <1>6 DEF EnginesOwned, Unlock
  <2>2. Used(cycles[engine[t]]) # Freed
    BY <2>1, PoolAssumption DEF Used
  <2>3. Alive' = Alive
    BY <1>6, <2>1, <2>2 DEF Unlock, Alive, EnginesOwned
  <2>4. engine[t] # Null /\ engine' = [engine EXCEPT ![t] = Null]
    BY <1>6, <2>1, PoolAssumption DEF Unlock
  <2>5. Alloc!Release(t)
    BY <2>3, <2>4 DEF Alloc!Release
  <2> QED
    BY <2>5 DEF Alloc!AllocNext
<1> QED
  BY <1>1, <1>2, <1>3, <1>4, <1>5, <1>6 DEF PoolNext, LockEngine

-----------------------------------------------------------------------------
(* No lost wake-up *)

LEMMA WakeupStep ==
    ASSUME PoolTypeOK, EnginesOwned, PoolBounded, NoLostWakeup,
           [PoolNext]_poolVars
    PROVE  NoLostWakeup'
<1> USE PoolAssumption, Finite
<1>1. CASE UNCHANGED poolVars
  BY <1>1 DEF poolVars, NoLostWakeup, Waiting, Woken
<1>2. CASE FlushEngines
  BY <1>2 DEF FlushEngines, NoLostWakeup, Waiting
<1>3. ASSUME NEW t \in Threads, Request(t) PROVE NoLostWakeup'
  <2>1. Waiting' = Waiting /\ Woken' = Woken
    BY <1>3 DEF Request, MoveWorker, Waiting, Woken, PoolTypeOK
  <2> QED
    BY <1>3, <2>1 DEF Request, NoLostWakeup
<1>4. ASSUME NEW t \in Threads, Wait(t) PROVE NoLostWakeup'
  <2>1. Cardinality(Woken') \in Nat
    BY <1>4, LeavesWoken DEF Wait, Workers
  <2>2. Len(free') = 0 /\ n' = n /\ ~(n < MaxEngines) /\ n \in Nat
    BY <1>4 DEF Wait, Room, PoolTypeOK
  <2> QED
    BY <2>1, <2>2 DEF NoLostWakeup
<1>5. ASSUME NEW t \in Threads, Spurious(t) PROVE NoLostWakeup'
  <2>1. Woken' = Woken \cup {t} /\ t \in Waiting
    BY <1>5 DEF Spurious, MoveWorker, Waiting, Woken, PoolTypeOK
  <2>2. Cardinality(Woken') = Cardinality(Woken) + 1
    BY <2>1, JoinsWoken
  <2> QED
    BY <1>5, <2>1, <2>2 DEF Spurious, NoLostWakeup, PoolTypeOK
<1>6. ASSUME NEW t \in Threads, Take(t) PROVE NoLostWakeup'
  <2>1. Cardinality(Woken') \in Nat /\ Cardinality(Woken') >= Cardinality(Woken) - 1
    BY <1>6, LeavesWoken DEF Take, Workers
  <2>2. PICK k \in 0 .. Len(free) - 1 :
           free' = SubSeq(free, k + 2, Len(free)) /\ n' = n - k
    BY <1>6 DEF Take
  <2>3. Len(free') = Len(free) - k - 1 /\ k \in Nat
    BY <2>2, TakeFacts
  <2>4. Waiting' = Waiting
    BY <1>6 DEF Take, Locking, MoveWorker, Waiting, PoolTypeOK
  <2> QED
    BY <2>1, <2>2, <2>3, <2>4 DEF NoLostWakeup, PoolTypeOK
<1>7. ASSUME NEW t \in Threads, NEW e \in Engines, NewEngine(t, e)
      PROVE  NoLostWakeup'
  <2>1. Cardinality(Woken') \in Nat /\ Cardinality(Woken') >= Cardinality(Woken) - 1
    BY <1>7, LeavesWoken DEF NewEngine, Workers
  <2>2. Len(free') = 0 /\ n' = n - Len(free) + 1
    BY <1>7 DEF NewEngine
  <2>3. Waiting' = Waiting
    BY <1>7 DEF NewEngine, Locking, MoveWorker, Waiting, PoolTypeOK
  <2> QED
    BY <2>1, <2>2, <2>3 DEF NoLostWakeup, PoolTypeOK
<1>8. ASSUME NEW t \in Threads, Unlock(t) PROVE NoLostWakeup'
  <2>1. CASE Waiting = {}
    <3>1. Waiting' = {}
      BY <1>8, <2>1 DEF Unlock, Signal, MoveWorker, Waiting, PoolTypeOK
    <3> QED
      BY <3>1 DEF NoLostWakeup
  <2>2. CASE Waiting # {}
    <3>1. PICK w \in Waiting :
             worker' = [worker EXCEPT ![t] = "idle", ![w] = "woken"]
      BY <1>8, <2>2 DEF Unlock, Signal
    <3>2. Woken' = Woken \cup {w}
      BY <1>8, <3>1 DEF Unlock, Waiting, Woken, PoolTypeOK
    <3>3. Cardinality(Woken') = Cardinality(Woken) + 1
      BY <3>2, JoinsWoken
    <3>4. Len(free') = Len(free) + 1 /\ n' = n
      <4>1. engine[t] \in Engines
        BY <1>8 DEF Unlock, EnginesOwned, PoolTypeOK
      <4> QED
        BY <1>8, <4>1, AppendProperties DEF Unlock, PoolTypeOK
    <3> QED
      BY <2>2, <3>3, <3>4 DEF NoLostWakeup, PoolTypeOK
  <2> QED
    BY <2>1, <2>2
<1> QED
  BY <1>1, <1>2, <1>3, <1>4, <1>5, <1>6, <1>7, <1>8 DEF PoolNext, LockEngine

-----------------------------------------------------------------------------
(* Cycles *)

LEMMA CyclesStep ==
    ASSUME PoolTypeOK, EnginesOwned, WithinCycles, [PoolNext]_poolVars
    PROVE  WithinCycles'
<1> SUFFICES ASSUME MaxCycles > 0
             PROVE  /\ \A e \in Engines : cycles'[e] # Freed => cycles'[e] <= MaxCycles
                    /\ \A e \in busy' : cycles'[e] < MaxCycles
  BY DEF WithinCycles
<1> USE PoolAssumption DEF WithinCycles
<1>1. CASE UNCHANGED poolVars
  BY <1>1 DEF poolVars
<1>2. CASE FlushEngines
  BY <1>2 DEF FlushEngines, PoolTypeOK
<1>3. ASSUME NEW t \in Threads, Request(t) \/ Spurious(t) \/ Wait(t)
      PROVE  UNCHANGED <<cycles, busy>>
  BY <1>3 DEF Request, Spurious, Wait
<1>4. ASSUME NEW t \in Threads, Take(t)
      PROVE  /\ \A e \in Engines : cycles'[e] # Freed => cycles'[e] <= MaxCycles
             /\ \A e \in busy' : cycles'[e] < MaxCycles
  <2>1. PICK k \in 0 .. Len(free) - 1 :
           /\ free' = SubSeq(free, k + 2, Len(free))
           /\ Drops(k)
           /\ busy' = busy \cup {free[k + 1]}
           /\ cycles' = [e \in Engines |-> IF e \in First(k) THEN Freed ELSE cycles[e]]
    BY <1>4 DEF Take
  <2>2. /\ k \in Nat /\ k + 1 \in DOMAIN free /\ free[k + 1] \in Engines
        /\ DOMAIN free = 1 .. Len(free) /\ Len(free) \in Nat
    BY <2>1, TakeFacts DEF PoolTypeOK
  <2>3. \A i \in 1 .. k : i \in DOMAIN free /\ i # k + 1
    BY <2>2
  <2>4. First(k) \cap busy' = {}
    BY <2>1, <2>2, <2>3 DEF First, EnginesOwned
  <2>5. cycles[free[k + 1]] \in Nat /\ cycles[free[k + 1]] < MaxCycles
    <3>1. cycles[free[k + 1]] \in Nat
      BY <2>2 DEF EnginesOwned, PoolTypeOK
    <3>2. k < Len(free)
      BY <2>2
    <3> QED
      BY <2>1, <3>1, <3>2 DEF Drops, Expired
  <2>6. busy \subseteq Engines
    BY DEF PoolTypeOK
  <2> QED
    BY <2>1, <2>2, <2>4, <2>5, <2>6
<1>5. ASSUME NEW t \in Threads, NEW e \in Engines, NewEngine(t, e)
      PROVE  /\ \A x \in Engines : cycles'[x] # Freed => cycles'[x] <= MaxCycles
             /\ \A x \in busy' : cycles'[x] < MaxCycles
  <2>1. \A x \in busy : x \in Engines /\ x \notin First(Len(free))
    BY DEF First, EnginesOwned, PoolTypeOK
  <2> QED
    BY <1>5, <2>1 DEF NewEngine
<1>6. ASSUME NEW t \in Threads, Unlock(t)
      PROVE  /\ \A e \in Engines : cycles'[e] # Freed => cycles'[e] <= MaxCycles
             /\ \A e \in busy' : cycles'[e] < MaxCycles
  <2>1. engine[t] \in busy /\ cycles[engine[t]] \in Nat
    BY <1>6 DEF Unlock, EnginesOwned, PoolTypeOK
  <2>2. cycles' = [cycles EXCEPT ![engine[t]] = @ + 1]
    <3>1. \A c : Used(c) = c + 1
      BY DEF Used
    <3> QED
      BY <1>6, <3>1 DEF Unlock
  <2>3. busy' = busy \ {engine[t]}
    BY <1>6 DEF Unlock
  <2> QED
    BY <2>1, <2>2, <2>3 DEF PoolTypeOK
<1> QED
  BY <1>1, <1>2, <1>3, <1>4, <1>5, <1>6 DEF PoolNext, LockEngine

-----------------------------------------------------------------------------
(* The statistics, modulo Width *)

LEMMA ModuloIs ==
    ASSUME NEW a \in Int, NEW q \in Int, NEW r \in 0 .. Width - 1, a = Width * q + r
    PROVE  a % Width = r
BY PoolAssumption

LEMMA ModuloQuotient ==
    ASSUME NEW a \in Int
    PROVE  \E q \in Int, r \in 0 .. Width - 1 : a = Width * q + r /\ a % Width = r
<1>1. /\ a = Width * (a \div Width) + (a % Width)
      /\ a % Width \in 0 .. Width - 1 /\ a \div Width \in Int
  BY PoolAssumption
<1> QED
  BY <1>1

\* Whole turns of a counter do not show.
LEMMA ModuloShift ==
    ASSUME NEW a \in Int, NEW q \in Int
    PROVE  (a + Width * q) % Width = a % Width
<1>1. PICK p \in Int, r \in 0 .. Width - 1 : a = Width * p + r /\ a % Width = r
  BY ModuloQuotient
<1>2. a + Width * q = Width * (p + q) + r
  BY <1>1, PoolAssumption
<1>3. p + q \in Int /\ a + Width * q \in Int
  BY PoolAssumption
<1>4. (a + Width * q) % Width = r
  BY <1>2, <1>3, ModuloIs
<1> QED
  BY <1>1, <1>4

\* A counter goes on from where it wrapped around.
LEMMA ModuloNext ==
    ASSUME NEW a \in Int, NEW k \in Int
    PROVE  ((a % Width) + k) % Width = (a + k) % Width
<1>1. PICK p \in Int, r \in 0 .. Width - 1 : a = Width * p + r /\ a % Width = r
  BY ModuloQuotient
<1>2. a + k = (r + k) + Width * p /\ r + k \in Int
  BY <1>1, PoolAssumption
<1> QED
  BY <1>1, <1>2, ModuloShift

\* So does one that is multiplied and added to others.
LEMMA ModuloTimes ==
    ASSUME NEW d \in Int, NEW m \in Int, NEW c \in Int
    PROVE  (c + (d % Width) * m) % Width = (c + d * m) % Width
<1>1. PICK p \in Int, r \in 0 .. Width - 1 : d = Width * p + r /\ d % Width = r
  BY ModuloQuotient
<1>2. r \in Int /\ Width \in Int
  BY PoolAssumption
<1>3. c + d * m = (c + r * m) + Width * (p * m)
  BY <1>1, <1>2
<1>4. c + r * m \in Int /\ p * m \in Int
  BY <1>2
<1> QED
  BY <1>1, <1>3, <1>4, ModuloShift

LEMMA CountedStep ==
    ASSUME PoolTypeOK, EnginesOwned, PoolBounded, EnginesCounted, [PoolNext]_poolVars
    PROVE  EnginesCounted'
<1> USE DEF EnginesCounted
<1>0. n \in Int /\ dropped \in Int /\ created \in Int /\ Len(free) \in Int
  BY PoolAssumption DEF PoolTypeOK
<1>1. CASE UNCHANGED poolVars
  BY <1>1 DEF poolVars
<1>2. CASE FlushEngines
  <2>1. 0 % Width = 0
    BY PoolAssumption, ModuloIs
  <2> QED
    BY <1>2, <2>1 DEF FlushEngines
<1>3. ASSUME NEW t \in Threads, Request(t) \/ Spurious(t) \/ Wait(t) \/ Unlock(t)
      PROVE  EnginesCounted'
  BY <1>3 DEF Request, Spurious, Wait, Unlock
<1>4. ASSUME NEW t \in Threads, Take(t) PROVE EnginesCounted'
  <2>1. PICK k \in 0 .. Len(free) - 1 : n' = n - k /\ dropped' = (dropped + k) % Width
    BY <1>4 DEF Take, Drop
  <2>2. k \in Int
    BY <1>0
  <2>3. (dropped' + (n - k)) % Width = ((dropped + k) + (n - k)) % Width
    BY <1>0, <2>1, <2>2, ModuloNext
  <2>4. dropped' \in Int
    BY <1>0, <2>1, <2>2, PoolAssumption
  <2>5. /\ dropped' + (n - k) = n' + dropped'
        /\ (dropped + k) + (n - k) = n + dropped
    BY <1>0, <2>1, <2>2, <2>4
  <2> QED
    BY <1>4, <2>3, <2>5 DEF Take
<1>5. ASSUME NEW t \in Threads, NEW e \in Engines, NewEngine(t, e)
      PROVE  EnginesCounted'
  <2> DEFINE k == Len(free)
  <2>1. /\ n' = n - k + 1 /\ dropped' = (dropped + k) % Width
        /\ created' = (created + 1) % Width
    BY <1>5 DEF NewEngine, Drop
  <2> HIDE DEF k
  <2>2. k \in Int
    BY <1>0 DEF k
  <2>3. (dropped' + (n - k + 1)) % Width = ((dropped + k) + (n - k + 1)) % Width
    BY <1>0, <2>1, <2>2, ModuloNext
  <2>4. created' = ((n + dropped) + 1) % Width
    BY <1>0, <2>1, ModuloNext
  <2>5. dropped' \in Int
    BY <1>0, <2>1, <2>2, PoolAssumption
  <2>6. /\ dropped' + (n - k + 1) = n' + dropped'
        /\ (dropped + k) + (n - k + 1) = (n + dropped) + 1
    BY <1>0, <2>1, <2>2, <2>5
  <2> QED
    BY <2>3, <2>4, <2>6
<1> QED
  BY <1>1, <1>2, <1>3, <1>4, <1>5 DEF PoolNext, LockEngine

-----------------------------------------------------------------------------
(* Theorems *)

\* The inductive invariant of the pool.
THEOREM PoolInvariance == PoolSpec => []PoolInv
<1>1. PoolInit => PoolInv
  <2> SUFFICES ASSUME PoolInit PROVE PoolInv
    OBVIOUS
  <2>1. PoolTypeOK
    BY PoolTypeInit
  <2>2. EnginesOwned /\ NoLostWakeup /\ WithinCycles
    BY DEF PoolInit, EnginesOwned, NoLostWakeup, WithinCycles, Waiting
  <2>3. PoolBounded
    BY FS_EmptySet, PoolAssumption DEF PoolInit, PoolBounded
  <2> QED
    BY <2>1, <2>2, <2>3 DEF PoolInv
<1>2. PoolInv /\ [PoolNext]_poolVars => PoolInv'
  BY PoolTypeStep, OwnedStep, BoundedStep, WakeupStep, CyclesStep DEF PoolInv
<1> QED
  BY <1>1, <1>2, PTL DEF PoolSpec

\* No engine runs two scripts at a time, leaks, or is freed in use.
THEOREM EnginesNeverShared == PoolSpec => []EnginesOwned
BY PoolInvariance, PTL DEF PoolInv

\* max_engines bounds the engines alive.
THEOREM PoolStaysBounded == PoolSpec => []PoolBounded
BY PoolInvariance, PTL DEF PoolInv

\* No worker waits while an engine could be had and nobody was told.
THEOREM NoWakeupLost == PoolSpec => []NoLostWakeup
BY PoolInvariance, PTL DEF PoolInv

\* No engine is used more than max_cycles times.
THEOREM CyclesRespected == PoolSpec => []WithinCycles
BY PoolInvariance, PTL DEF PoolInv

\* The engines created are those alive and those dropped, however often the
\* counters wrapped around.
THEOREM EnginesAddUp == PoolSpec => []EnginesCounted
<1>1. PoolInit => EnginesCounted
  BY PoolAssumption, ModuloIs DEF PoolInit, EnginesCounted
<1>2. PoolInv /\ EnginesCounted /\ [PoolNext]_poolVars => EnginesCounted'
  BY CountedStep DEF PoolInv
<1> QED
  BY <1>1, <1>2, PoolInvariance, PTL DEF PoolSpec

\* Whoever executes scripts may take the pool for an allocator that hands out,
\* in one step, engines nobody has.
THEOREM PoolImplementsAllocator == PoolSpec => ImplementsAllocator
<1>1. PoolInit => Alloc!AllocInit
  BY DEF PoolInit, Alloc!AllocInit, Alive
<1>2. ASSUME PoolInv, PoolInv', [PoolNext]_poolVars
      PROVE  [Alloc!AllocNext]_(Alloc!allocVars)
  <2>1. (Cardinality(Alive) <= MaxEngines)'
    BY <1>2, AliveBounded, PTL DEF PoolInv
  <2> QED
    BY <1>2, <2>1, AllocStep DEF PoolInv
<1> QED
  BY <1>1, <1>2, PoolInvariance, PTL
  DEF PoolSpec, ImplementsAllocator, Alloc!AllocSpec

=============================================================================
