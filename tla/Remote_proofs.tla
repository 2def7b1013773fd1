---------------------------- MODULE Remote_proofs ----------------------------
(* Theorems about Remote, for every value of its constants. *)
EXTENDS Remote, TLAPS

USE DEF object, outside, args

(* Facts about the constants, so that no proof below opens these sets. *)
LEMMA DocFacts ==
    /\ Versions \subseteq Docs /\ Empty \in Docs /\ Torn \in Docs
    /\ Freed \notin Docs /\ Absent \notin Docs
    /\ Torn \notin Versions /\ Empty \notin Versions /\ Torn # Empty
    /\ 1 \in Versions
BY RemoteAssumption DEF Versions, Docs, Empty

LEMMA AgeFacts ==
    /\ Stale \in 0 .. Stale /\ 0 \in 0 .. Stale
    /\ \A a \in 0 .. Stale : a < Stale => a + 1 \in 0 .. Stale
BY RemoteAssumption DEF Stale

(* Every variable keeps its type. *)
LEMMA TypeInit == Init => TypeOK
BY DocFacts, AgeFacts DEF Init, TypeOK, Labels

LEMMA TypeStep == TypeOK /\ BackupHandled /\ [Next]_vars => TypeOK'
<1> SUFFICES ASSUME TypeOK, BackupHandled, [Next]_vars PROVE TypeOK'
    OBVIOUS
<1> USE DocFacts DEF TypeOK, Labels, Goto
<1>1. CASE UNCHANGED vars
      BY <1>1 DEF vars
<1>2. CASE Tick
      BY <1>2, AgeFacts DEF Tick
<1>3. CASE NewVersion
      BY <1>3, RemoteAssumption DEF NewVersion, Versions
<1>4. CASE Fini
      BY <1>4 DEF Fini, FreeRemote, FreeUnlessNull, Free
<1>5. CASE Crash
      BY <1>5, AgeFacts DEF Crash, Readable
<1>6. ASSUME NEW t \in Threads, Create(t) \/ Enter(t) PROVE TypeOK'
      BY <1>6, AgeFacts DEF Create, Enter, Reload, CheckFresh, CheckStale
<1>7. ASSUME NEW t \in Threads, Leave(t) PROVE TypeOK'
      BY <1>7 DEF Leave, Return, Created, ClearArgs, FreeRemote,
                  FreeUnlessNull, Free
<1>8. ASSUME NEW t \in Threads, Proceed(t) PROVE TypeOK'
  <2>1. CASE Win(t) \/ Lose(t) \/ Finish(t)
        BY <2>1, AgeFacts DEF Win, Lose, Finish
  <2>2. CASE Publish(t)
        BY <2>2 DEF Publish, PublishMoves, FreeUnlessNull, Free, Forget
  <2>3. CASE OpenBackup(t) \/ OpenBackupFails(t) \/ StatBackup(t)
        BY <2>3 DEF OpenBackup, OpenBackupFails, StatBackup, Forget
  <2>4. CASE WriteBackup(t)
        BY <2>4 DEF WriteBackup, Written, Forget, BackupHandled
  <2>5. CASE ReadFails(t) \/ ReadBackupFails(t)
        BY <2>5 DEF ReadFails, ReadBackupFails
  <2>6. ASSUME NEW b \in Bufs, NEW doc \in {origin, Empty},
               ReadLocation(t, b, doc)
        PROVE  TypeOK'
        BY <2>6 DEF ReadLocation, Alloc
  <2>7. ASSUME NEW b \in Bufs, ReadBackup(t, b)
        PROVE  TypeOK'
        BY <2>7 DEF ReadBackup, Alloc, Readable, BackupHandled
  <2> QED
      BY <1>8, <2>1, <2>2, <2>3, <2>4, <2>5, <2>6, <2>7 DEF Proceed
<1>9. ASSUME NEW t \in Threads, Callback(t) PROVE TypeOK'
      BY <1>9 DEF Callback, CallbackAccepts, CallbackRejects, Free, Forget
<1> QED
    BY <1>1, <1>2, <1>3, <1>4, <1>5, <1>6, <1>7, <1>8, <1>9 DEF Next

(* An object that is gone is at rest; its creator is alone with it. *)
LEMMA LifeStep == Inv /\ [Next]_vars => Life'
<1> SUFFICES ASSUME Inv, [Next]_vars PROVE Life'
    OBVIOUS
<1> USE DEF Life, Goto
<1>a. TypeOK /\ Life /\ OneWinner
      BY DEF Inv
<1> USE <1>a
<1>1. CASE UNCHANGED vars
      BY <1>1 DEF vars
<1>2. CASE Tick \/ NewVersion \/ Fini \/ Crash
      BY <1>2 DEF TypeOK, Tick, NewVersion, Fini, Crash, FreeRemote,
                  OneWinner, LoadLabels, Labels
<1>3. ASSUME NEW t \in Threads, Create(t) \/ Enter(t) PROVE Life'
      BY <1>3 DEF TypeOK, Create, Enter, Reload, CheckFresh, CheckStale
<1>4. ASSUME NEW t \in Threads, Leave(t) PROVE Life'
      BY <1>4 DEF TypeOK, Leave, Return, Created, ClearArgs, FreeRemote,
                  OneWinner, LoadLabels, Labels
<1>5. ASSUME NEW t \in Threads, Proceed(t) PROVE Life'
      BY <1>5 DEF TypeOK, Proceed, Win, Lose, Finish, Publish, PublishMoves,
                  OpenBackup, OpenBackupFails,
                  WriteBackup, StatBackup, ReadFails, ReadBackupFails,
                  ReadLocation, ReadBackup
<1>6. ASSUME NEW t \in Threads, Callback(t) PROVE Life'
      BY <1>6 DEF TypeOK, Callback, CallbackAccepts, CallbackRejects
<1> QED
    BY <1>1, <1>2, <1>3, <1>4, <1>5, <1>6 DEF Next

(* The flag and the winner come and go together. *)
LEMMA OneWinnerStep == Inv /\ [Next]_vars => OneWinner'
<1> SUFFICES ASSUME Inv, [Next]_vars PROVE OneWinner'
    OBVIOUS
<1> USE DEF OneWinner, Goto, LoadLabels, Labels
<1>a. TypeOK /\ Life /\ OneWinner
      BY DEF Inv
<1> USE <1>a
<1>1. CASE UNCHANGED vars
      BY <1>1 DEF vars
<1>2. CASE Tick \/ NewVersion \/ Fini \/ Crash
      BY <1>2 DEF TypeOK, Tick, NewVersion, Fini, Crash, FreeRemote
<1>3. ASSUME NEW t \in Threads, Create(t) \/ Enter(t) PROVE OneWinner'
      BY <1>3 DEF TypeOK, Life, Create, Enter, Reload, CheckFresh, CheckStale
<1>4. ASSUME NEW t \in Threads, Leave(t) PROVE OneWinner'
      BY <1>4 DEF TypeOK, Leave, Return, Created, ClearArgs, FreeRemote
<1>5. ASSUME NEW t \in Threads, Proceed(t) PROVE OneWinner'
  <2>1. CASE Win(t)
        BY <2>1 DEF TypeOK, Win
  <2>2. CASE Finish(t)
        BY <2>2 DEF TypeOK, Finish
  <2>3. CASE Lose(t)
        BY <2>3 DEF TypeOK, Lose
  <2>4. CASE ~(Win(t) \/ Finish(t) \/ Lose(t))
        BY <1>5, <2>4
        DEF TypeOK, Proceed, Publish, PublishMoves, OpenBackup,
            OpenBackupFails, WriteBackup,
            StatBackup, ReadFails, ReadBackupFails, ReadLocation, ReadBackup
  <2> QED
      BY <2>1, <2>2, <2>3, <2>4
<1>6. ASSUME NEW t \in Threads, Callback(t) PROVE OneWinner'
      BY <1>6 DEF TypeOK, Callback, CallbackAccepts, CallbackRejects
<1> QED
    BY <1>1, <1>2, <1>3, <1>4, <1>5, <1>6 DEF Next

(* The backup file exists, and the buffer written to it is one. *)
LEMMA BackupHandledStep == Inv /\ [Next]_vars => BackupHandled'
<1> SUFFICES ASSUME Inv, [Next]_vars PROVE BackupHandled'
    OBVIOUS
<1> USE DEF BackupHandled, Goto
<1>a. TypeOK /\ BackupHandled /\ BuffersOwned
      BY DEF Inv
<1> USE <1>a
<1>1. CASE UNCHANGED vars
      BY <1>1 DEF vars
<1>2. CASE Tick \/ NewVersion \/ Fini \/ Crash
      BY <1>2 DEF TypeOK, Tick, NewVersion, Fini, Crash, FreeRemote
<1>3. ASSUME NEW t \in Threads, Create(t) \/ Enter(t) \/ Leave(t) PROVE BackupHandled'
      BY <1>3 DEF TypeOK, Create, Enter, Reload, CheckFresh, CheckStale,
                  Leave, Return, Created, ClearArgs, FreeRemote
<1>4. ASSUME NEW t \in Threads, Proceed(t) PROVE BackupHandled'
  <2>1. CASE Publish(t)
        BY <2>1 DEF TypeOK, Publish, PublishMoves, BuffersOwned, Owners, Forget
  <2>2. CASE WriteBackup(t) \/ OpenBackup(t)
        BY <2>2, DocFacts, RemoteAssumption
           DEF TypeOK, WriteBackup, OpenBackup, Written, Forget
  <2>3. CASE ~(Publish(t) \/ WriteBackup(t) \/ OpenBackup(t))
        BY <1>4, <2>3
        DEF TypeOK, Proceed, Win, Lose, Finish, OpenBackupFails, StatBackup,
            Forget, Alloc,
            ReadFails, ReadBackupFails, ReadLocation, ReadBackup
  <2> QED
      BY <2>1, <2>2, <2>3
<1>5. ASSUME NEW t \in Threads, Callback(t) PROVE BackupHandled'
      BY <1>5 DEF TypeOK, Callback, CallbackAccepts, CallbackRejects, Forget
<1> QED
    BY <1>1, <1>2, <1>3, <1>4, <1>5 DEF Next

(* Every buffer has one owner. *)
LEMMA BuffersOwnedStep == Inv /\ [Next]_vars => BuffersOwned'
<1> SUFFICES ASSUME Inv, [Next]_vars PROVE BuffersOwned'
    OBVIOUS
<1> USE RemoteAssumption, DocFacts DEF BuffersOwned, Owners, Goto
<1>a. TypeOK /\ Life /\ BackupHandled /\ BuffersOwned
      BY DEF Inv
<1> USE <1>a
<1>1. CASE UNCHANGED vars
      BY <1>1 DEF vars
<1>2. CASE Tick \/ NewVersion
      BY <1>2 DEF TypeOK, Tick, NewVersion
<1>3. CASE Fini
      BY <1>3 DEF TypeOK, Fini, FreeRemote, FreeUnlessNull, Free
<1>4. CASE Crash
      BY <1>4 DEF TypeOK, Crash
<1>5. ASSUME NEW t \in Threads, Create(t) \/ Enter(t) PROVE BuffersOwned'
      BY <1>5 DEF TypeOK, Life, Create, Enter, Reload, CheckFresh, CheckStale
<1>6. ASSUME NEW t \in Threads, Leave(t) PROVE BuffersOwned'
      BY <1>6 DEF TypeOK, Life, Leave, Return, Created, ClearArgs, FreeRemote,
                  FreeUnlessNull, Free
<1>7. ASSUME NEW t \in Threads, Proceed(t) PROVE BuffersOwned'
  <2>1. CASE Publish(t)
        BY <2>1 DEF TypeOK, Publish, PublishMoves, FreeUnlessNull, Free, Forget
  <2>2. ASSUME NEW b \in Bufs, NEW doc \in {origin, Empty},
               ReadLocation(t, b, doc)
        PROVE  BuffersOwned'
        BY <2>2 DEF TypeOK, ReadLocation, Alloc
  <2>3. ASSUME NEW b \in Bufs, ReadBackup(t, b)
        PROVE  BuffersOwned'
        BY <2>3 DEF TypeOK, ReadBackup, Alloc, Readable
  <2>4. CASE Win(t) \/ Lose(t) \/ Finish(t) \/ ReadFails(t) \/ ReadBackupFails(t)
             \/ OpenBackup(t) \/ StatBackup(t)
        BY <2>4 DEF TypeOK, Win, Lose, Finish, ReadFails, ReadBackupFails,
                    OpenBackup, StatBackup
  <2>5. CASE OpenBackupFails(t) \/ WriteBackup(t)
        BY <2>5 DEF TypeOK, OpenBackupFails, WriteBackup, Forget
  <2> QED
      BY <1>7, <2>1, <2>2, <2>3, <2>4, <2>5 DEF Proceed
<1>8. ASSUME NEW t \in Threads, Callback(t) PROVE BuffersOwned'
  <2>1. CASE CallbackAccepts(t)
        BY <2>1 DEF TypeOK, CallbackAccepts
  <2>2. CASE CallbackRejects(t)
        BY <2>2 DEF TypeOK, CallbackRejects, Free, Forget
  <2> QED
      BY <1>8, <2>1, <2>2 DEF Callback
<1> QED
    BY <1>1, <1>2, <1>3, <1>4, <1>5, <1>6, <1>7, <1>8 DEF Next

(* A result is never claimed without a document. *)
LEMMA ResultsStep == Inv /\ [Next]_vars => Results'
<1> SUFFICES ASSUME Inv, [Next]_vars PROVE Results'
    OBVIOUS
<1> USE RemoteAssumption DEF Results, LiveMeansLoaded, Goto
<1>a. TypeOK /\ Life /\ BackupHandled /\ BuffersOwned /\ Results
      BY DEF Inv
<1> USE <1>a
<1>1. CASE UNCHANGED vars
      BY <1>1 DEF vars
<1>2. CASE Tick \/ NewVersion \/ Fini \/ Crash
      BY <1>2 DEF TypeOK, Tick, NewVersion, Fini, Crash, FreeRemote
<1>3. ASSUME NEW t \in Threads, Create(t) \/ Enter(t) PROVE Results'
      BY <1>3 DEF TypeOK, Life, Create, Enter, Reload, CheckFresh, CheckStale
<1>4. ASSUME NEW t \in Threads, Leave(t) PROVE Results'
      BY <1>4 DEF TypeOK, Life, Leave, Return, Created, ClearArgs, FreeRemote
<1>5. ASSUME NEW t \in Threads, Proceed(t) PROVE Results'
  <2>1. CASE Publish(t)
        BY <2>1 DEF TypeOK, Publish, PublishMoves, BuffersOwned, Owners
  <2>2. CASE Finish(t) \/ Win(t) \/ Lose(t)
        BY <2>2 DEF TypeOK, Life, Finish, Win, Lose
  <2>3. CASE ~(Publish(t) \/ Finish(t) \/ Win(t) \/ Lose(t))
        BY <1>5, <2>3
        DEF TypeOK, Proceed, OpenBackup, OpenBackupFails, WriteBackup,
            StatBackup,
            ReadFails, ReadBackupFails, ReadLocation, ReadBackup
  <2> QED
      BY <2>1, <2>2, <2>3
<1>6. ASSUME NEW t \in Threads, Callback(t) PROVE Results'
      BY <1>6 DEF TypeOK, Callback, CallbackAccepts, CallbackRejects
<1> QED
    BY <1>1, <1>2, <1>3, <1>4, <1>5, <1>6 DEF Next

(* A published document is an accepted one. *)
LEMMA AcceptedParsesStep == Inv /\ [Next]_vars => AcceptedParses'
<1> SUFFICES ASSUME Inv, [Next]_vars PROVE AcceptedParses'
    OBVIOUS
<1> USE RemoteAssumption DEF AcceptedParses, PublishedParses, Goto
<1>a. TypeOK /\ Life /\ BackupHandled /\ BuffersOwned /\ AcceptedParses
      BY DEF Inv
<1> USE <1>a
<1>1. CASE UNCHANGED vars
      BY <1>1 DEF vars
<1>2. CASE Tick \/ NewVersion \/ Fini \/ Crash
      BY <1>2 DEF TypeOK, Tick, NewVersion, Fini, Crash, FreeRemote
<1>3. ASSUME NEW t \in Threads, Create(t) \/ Enter(t) PROVE AcceptedParses'
      BY <1>3 DEF TypeOK, Life, Create, Enter, Reload, CheckFresh, CheckStale
<1>4. ASSUME NEW t \in Threads, Leave(t) PROVE AcceptedParses'
      BY <1>4 DEF TypeOK, Life, Leave, Return, Created, ClearArgs, FreeRemote
<1>5. ASSUME NEW t \in Threads, Proceed(t) PROVE AcceptedParses'
  <2>1. CASE Publish(t)
        BY <2>1 DEF TypeOK, Publish, PublishMoves, BuffersOwned, Owners,
                    FreeUnlessNull, Free, Forget
  <2>2. ASSUME NEW b \in Bufs, NEW doc, Alloc(t, b, doc), UNCHANGED contents,
               Goto(t, "callback") \/ Goto(t, "callbackbackup")
        PROVE  AcceptedParses'
        BY <2>2 DEF TypeOK, Alloc, BuffersOwned, Owners
  <2>3. CASE Win(t) \/ Lose(t) \/ Finish(t) \/ ReadFails(t) \/ ReadBackupFails(t)
             \/ OpenBackup(t) \/ StatBackup(t) \/ OpenBackupFails(t) \/ WriteBackup(t)
        BY <2>3 DEF TypeOK, Win, Lose, Finish, ReadFails, ReadBackupFails,
                    OpenBackup, StatBackup, OpenBackupFails, WriteBackup, Forget
  <2> QED
      BY <1>5, <2>1, <2>2, <2>3 DEF Proceed, ReadLocation, ReadBackup
<1>6. ASSUME NEW t \in Threads, Callback(t) PROVE AcceptedParses'
  <2>1. CASE CallbackAccepts(t)
        BY <2>1 DEF TypeOK, CallbackAccepts
  <2>2. CASE CallbackRejects(t)
        BY <2>2 DEF TypeOK, CallbackRejects, Free, Forget, BuffersOwned, Owners
  <2> QED
      BY <1>6, <2>1, <2>2 DEF Callback
<1> QED
    BY <1>1, <1>2, <1>3, <1>4, <1>5, <1>6 DEF Next

LEMMA InvInit == Init => Inv
<1> SUFFICES ASSUME Init PROVE Inv
    OBVIOUS
<1>1. TypeOK
      BY TypeInit
<1>2. BackupHandled /\ Life /\ OneWinner /\ BuffersOwned /\ Results
      /\ AcceptedParses
      BY RemoteAssumption
      DEF Init, BackupHandled, Life, OneWinner, BuffersOwned, Owners, Results,
          LiveMeansLoaded, AcceptedParses, PublishedParses
<1> QED
    BY <1>1, <1>2 DEF Inv

LEMMA InvStep == Inv /\ [Next]_vars => Inv'
BY TypeStep, BackupHandledStep, LifeStep, OneWinnerStep, BuffersOwnedStep,
   ResultsStep, AcceptedParsesStep DEF Inv

(* Inv holds of every reachable state. *)
THEOREM Invariance == Spec => []Inv
BY InvInit, InvStep, PTL DEF Spec

(* Every variable keeps its type. *)
THEOREM TypeCorrect == Spec => []TypeOK
BY Invariance, PTL DEF Inv

(* The reloading flag cannot leak, nor can two threads win. *)
THEOREM WinnerUnique == Spec => []OneWinner
BY Invariance, PTL DEF Inv

(* No buffer leaks, or is freed twice, or is used by its owner once freed. *)
THEOREM NoLeak == Spec => []BuffersOwned
BY Invariance, PTL DEF Inv

(* Only accepted documents are published. *)
THEOREM PublishedAccepted == Spec => []PublishedParses
BY Invariance, PTL DEF Inv, AcceptedParses

(* An object that may not ignore failures is never used without settings. *)
THEOREM StrictObjectsLoaded == Spec => []LiveMeansLoaded
BY Invariance, PTL DEF Inv, Results

(* A living object never loses its document. *)
THEOREM NeverUnloaded == Spec => LastGoodKept
<1> DEFINE Kept == contents # Null /\ contents' = Null => phase' = "none"
<1>1. Inv /\ [Next]_vars => [Kept]_vars
  <2> SUFFICES ASSUME Inv, Next, contents # Null, contents' = Null
               PROVE  phase' = "none"
      BY DEF vars
  <2> USE DEF Inv
  <2>1. CASE Tick \/ NewVersion \/ Fini \/ Crash
        BY <2>1 DEF Tick, NewVersion, Fini, Crash, FreeRemote
  <2>2. ASSUME NEW t \in Threads, Create(t) \/ Enter(t) \/ Leave(t)
        PROVE  phase' = "none"
        BY <2>2 DEF Create, Enter, Reload, CheckFresh, CheckStale, Leave,
                    Return, Created, FreeRemote, Life
  <2>3. ASSUME NEW t \in Threads, Proceed(t)
        PROVE  phase' = "none"
    <3>1. ~Publish(t)
          BY RemoteAssumption DEF Publish, PublishMoves, BuffersOwned, Owners
    <3> QED
        BY <2>3, <3>1
        DEF Proceed, Win, Lose, ReadLocation, ReadBackup, ReadFails,
            ReadBackupFails, OpenBackup, OpenBackupFails, WriteBackup,
            StatBackup, Finish
  <2>4. ASSUME NEW t \in Threads, Callback(t)
        PROVE  phase' = "none"
        BY <2>4 DEF Callback, CallbackAccepts, CallbackRejects
  <2> QED
      BY <2>1, <2>2, <2>3, <2>4 DEF Next
<1> QED
    BY <1>1, Invariance, PTL DEF Spec, LastGoodKept

----------------------------------------------------------------------------
(* Objects that VCL never reloads by force *)

LEMMA OneLoader ==
    ASSUME Inv, SoleLoader, NEW t \in Threads, NEW u \in Threads,
           pc[t] \in LoadLabels, pc[u] \in LoadLabels
    PROVE  t = u
BY DEF Inv, SoleLoader, OneWinner, Life, LoadLabels, Labels

LEMMA SoleLoaderStep ==
    ASSUME OnlyPeriodical, Inv, SoleLoader, [Next]_vars
    PROVE  SoleLoader'
<1> USE DEF SoleLoader, BackupFromPublished, LoadLabels, Labels, Goto
<1>a. TypeOK /\ Life /\ OneWinner
      BY DEF Inv
<1> USE <1>a
<1>1. CASE UNCHANGED vars
      BY <1>1 DEF vars
<1>2. CASE Tick \/ NewVersion \/ Fini \/ Crash
      BY <1>2 DEF TypeOK, Tick, NewVersion, Fini, Crash, FreeRemote
<1>3. ASSUME NEW t \in Threads, Create(t) \/ Enter(t) PROVE SoleLoader'
      BY <1>3 DEF TypeOK, Life, Create, Enter, Reload, CheckFresh, CheckStale,
                  OnlyPeriodical
<1>4. ASSUME NEW t \in Threads, Leave(t) PROVE SoleLoader'
      BY <1>4 DEF TypeOK, Life, Leave, Return, Created, ClearArgs, FreeRemote
<1>5. ASSUME NEW t \in Threads, Proceed(t) PROVE SoleLoader'
  <2>1. CASE Publish(t)
    <3>1. \A u \in Threads : pc[u] \in {"open", "write"} => FALSE
          BY <2>1, OneLoader DEF Publish, PublishMoves
    <3> QED
        BY <2>1, <3>1 DEF TypeOK, Publish, PublishMoves, Forget
  <2>2. CASE Win(t) \/ Lose(t)
        BY <2>2 DEF TypeOK, Win, Lose
  <2>3. CASE Finish(t)
        BY <2>3 DEF TypeOK, Finish
  <2>4. CASE OpenBackup(t) \/ OpenBackupFails(t) \/ WriteBackup(t)
        BY <2>4 DEF TypeOK, OpenBackup, OpenBackupFails, WriteBackup, Forget
  <2>5. CASE StatBackup(t) \/ ReadFails(t) \/ ReadBackupFails(t)
        BY <2>5 DEF TypeOK, StatBackup, ReadFails, ReadBackupFails
  <2>6. ASSUME NEW b \in Bufs, NEW doc, ReadLocation(t, b, doc)
        PROVE  SoleLoader'
        BY <2>6 DEF TypeOK, ReadLocation, Alloc
  <2>7. ASSUME NEW b \in Bufs, ReadBackup(t, b)
        PROVE  SoleLoader'
        BY <2>7 DEF TypeOK, ReadBackup, Alloc
  <2> QED
      BY <1>5, <2>1, <2>2, <2>3, <2>4, <2>5, <2>6, <2>7 DEF Proceed
<1>6. ASSUME NEW t \in Threads, Callback(t) PROVE SoleLoader'
      BY <1>6 DEF TypeOK, Callback, CallbackAccepts, CallbackRejects, Forget
<1> QED
    BY <1>1, <1>2, <1>3, <1>4, <1>5, <1>6 DEF Next

(* Without forced reloads, the backup is written from live memory. *)
THEOREM BackupSound == OnlyPeriodical /\ Spec => []BackupFromPublished
<1> SUFFICES ASSUME OnlyPeriodical PROVE Spec => []BackupFromPublished
    OBVIOUS
<1>1. Init => SoleLoader
      BY DEF Init, SoleLoader, BackupFromPublished, LoadLabels, Labels
<1>2. Inv /\ SoleLoader /\ [Next]_vars => SoleLoader'
      BY SoleLoaderStep
<1> QED
    BY <1>1, <1>2, Invariance, PTL DEF Spec, SoleLoader

LEMMA FollowsStep ==
    ASSUME OnlyPeriodical, BackupWorks, Inv, SoleLoader, Follows, [Next]_vars
    PROVE  Follows'
<1> USE RemoteAssumption, DocFacts DEF Follows, Served, NotOlder, Goto
<1>a. /\ TypeOK /\ Life /\ BuffersOwned /\ BackupHandled /\ AcceptedParses
      /\ BackupFromPublished
      BY DEF Inv, SoleLoader
<1>b. origin \in Nat /\ \A v \in Versions : v \in Nat
      BY <1>a DEF TypeOK, Versions
<1> USE <1>a
<1>1. CASE UNCHANGED vars
      BY <1>1 DEF vars
<1>2. CASE Tick
      BY <1>2 DEF TypeOK, Tick
<1>3. CASE NewVersion
  <2>1. \A v \in Versions : v <= origin => v <= origin'
        BY <1>3, <1>b DEF NewVersion
  <2> QED
      BY <1>3, <2>1 DEF TypeOK, NewVersion
<1>4. CASE Fini
      BY <1>4 DEF TypeOK, Fini, FreeRemote, FreeUnlessNull, Free
<1>5. CASE Crash
      BY <1>5 DEF TypeOK, Crash, Readable
<1>6. ASSUME NEW t \in Threads, Create(t) \/ Enter(t) PROVE Follows'
      BY <1>6 DEF TypeOK, Create, Enter, Reload, CheckFresh, CheckStale,
                  OnlyPeriodical
<1>7. ASSUME NEW t \in Threads, Leave(t) PROVE Follows'
      BY <1>7 DEF TypeOK, Leave, Return, Created, ClearArgs, FreeRemote,
                  FreeUnlessNull, Free, Life
<1>8. ASSUME NEW t \in Threads, Proceed(t) PROVE Follows'
  <2>a. \A u \in Threads : pc[t] \in LoadLabels /\ u # t => pc[u] \notin LoadLabels
        BY OneLoader
  <2> USE <2>a DEF LoadLabels, Labels
  <2>1. CASE Publish(t)
        BY <2>1 DEF TypeOK, Publish, PublishMoves, FreeUnlessNull, Free,
                    Forget, Owners,
                    BuffersOwned, WantsBackup, BackupWorks
  <2>2. ASSUME NEW b \in Bufs, NEW doc \in {origin, Empty},
               ReadLocation(t, b, doc)
        PROVE  Follows'
        BY <2>2, <1>b DEF TypeOK, ReadLocation, Alloc, BuffersOwned
  <2>3. ASSUME NEW b \in Bufs, ReadBackup(t, b)
        PROVE  Follows'
        BY <2>3 DEF TypeOK, ReadBackup, Alloc, BuffersOwned, Readable
  <2>4. CASE Win(t) \/ Lose(t) \/ Finish(t)
        BY <2>4 DEF TypeOK, Win, Lose, Finish
  <2>5. CASE ReadFails(t) \/ ReadBackupFails(t) \/ StatBackup(t)
        BY <2>5 DEF TypeOK, ReadFails, ReadBackupFails, StatBackup
  <2>6. CASE OpenBackup(t) \/ OpenBackupFails(t)
        BY <2>6 DEF TypeOK, OpenBackup, OpenBackupFails, BackupWorks
  <2>7. CASE WriteBackup(t)
    <3>1. buf[t] = contents /\ heap[contents] # Freed /\ contents \in Bufs
          BY <2>7 DEF WriteBackup, BackupFromPublished, BuffersOwned,
                      BackupHandled
    <3>2. backup' = heap[contents]
          BY <2>7, <3>1 DEF WriteBackup, Written, BackupWorks
    <3> QED
        BY <2>7, <3>1, <3>2 DEF TypeOK, WriteBackup, Forget
  <2> QED
      BY <1>8, <2>1, <2>2, <2>3, <2>4, <2>5, <2>6, <2>7 DEF Proceed
<1>9. ASSUME NEW t \in Threads, Callback(t) PROVE Follows'
  <2>1. CASE CallbackAccepts(t)
        BY <2>1 DEF TypeOK, CallbackAccepts
  <2>2. CASE CallbackRejects(t)
        BY <2>2 DEF TypeOK, CallbackRejects, Free, Forget, BuffersOwned, Owners
  <2> QED
      BY <1>9, <2>1, <2>2 DEF Callback
<1> QED
    BY <1>1, <1>2, <1>3, <1>4, <1>5, <1>6, <1>7, <1>8, <1>9 DEF Next

(* With periodical reloads only and a backup that works, one thread loads    *)
(* at a time, and document, buffers in flight and backup keep their order.   *)
THEOREM PeriodicInvariance ==
    ASSUME OnlyPeriodical, BackupWorks
    PROVE  Spec => []PeriodicInv
<1>1. Init => SoleLoader /\ Follows
      BY RemoteAssumption, DocFacts
      DEF Init, SoleLoader, BackupFromPublished, LoadLabels, Labels, Follows,
          Served, Versions
<1>2. Inv /\ SoleLoader /\ [Next]_vars => SoleLoader'
      BY SoleLoaderStep
<1>3. Inv /\ SoleLoader /\ Follows /\ [Next]_vars => Follows'
      BY FollowsStep
<1> QED
    BY <1>1, <1>2, <1>3, Invariance, PTL DEF Spec, PeriodicInv

(* At rest the backup file holds the document in use. *)
THEOREM BackupKeptCurrent ==
    OnlyPeriodical /\ BackupWorks /\ Spec => []BackupCurrent
<1> SUFFICES ASSUME OnlyPeriodical, BackupWorks PROVE Spec => []BackupCurrent
    OBVIOUS
<1>1. PeriodicInv => BackupCurrent
      BY DEF PeriodicInv, Follows, BackupCurrent, Quiet, LoadLabels, Labels
<1> QED
    BY <1>1, PeriodicInvariance, PTL

(* No load installs an older document. *)
THEOREM NeverOlder == OnlyPeriodical /\ BackupWorks /\ Spec => NoRegress
<1> SUFFICES ASSUME OnlyPeriodical, BackupWorks PROVE Spec => NoRegress
    OBVIOUS
<1> DEFINE Newer ==
        contents # contents' /\ contents # Null /\ contents' # Null
          => \/ heap'[contents'] = heap[contents]
             \/ heap[contents] = Torn
             \/ heap'[contents'] \in Versions /\ heap'[contents'] > heap[contents]
<1>1. PeriodicInv /\ [Next]_vars => [Newer]_vars
  <2> SUFFICES ASSUME PeriodicInv, Next, contents # contents', contents # Null,
                      contents' # Null
               PROVE  Newer
      BY DEF vars
  <2> USE DEF PeriodicInv, Inv
  <2>1. PICK t \in Threads : Publish(t)
    <3>1. ~(Tick \/ NewVersion \/ Fini \/ Crash)
          BY DEF Tick, NewVersion, Fini, Crash, FreeRemote
    <3>2. \A t \in Threads : ~(Create(t) \/ Enter(t) \/ Leave(t))
          BY DEF Create, Enter, Reload, CheckFresh, CheckStale, Leave, Return,
                 Created, FreeRemote
    <3>3. \A t \in Threads : Proceed(t) => Publish(t)
          BY DEF Proceed, Win, Lose, ReadLocation, ReadBackup, ReadFails,
                 ReadBackupFails, OpenBackup, OpenBackupFails, WriteBackup,
                 StatBackup, Finish
    <3>4. \A t \in Threads : ~Callback(t)
          BY DEF Callback, CallbackAccepts, CallbackRejects
    <3> QED
        BY <3>1, <3>2, <3>3, <3>4 DEF Next
  <2>2. /\ buf[t] \in Bufs /\ contents \in Bufs /\ buf[t] # contents
        /\ heap'[contents'] = heap[buf[t]]
        BY <2>1 DEF Publish, PublishMoves, FreeUnlessNull, Free, TypeOK,
                    BuffersOwned, Owners
  <2>3. Parses(heap[buf[t]]) /\ Parses(heap[contents])
        BY <2>1, <2>2 DEF Publish, PublishMoves, AcceptedParses, PublishedParses
  <2>4. CASE pc[t] = "publish"
    <3>1. heap[buf[t]] \in Versions
          BY <2>3, <2>4, DocFacts DEF Follows, Parses
    <3>2. heap[contents] \in Versions \ Broken => heap[buf[t]] >= heap[contents]
          BY <2>4, <3>1 DEF Follows, NotOlder
    <3> QED
        BY <2>2, <2>3, <3>1, <3>2, RemoteAssumption DEF Parses, Versions
  <2>5. CASE pc[t] = "publishbackup"
    <3>1. \A u \in Threads : pc[u] \notin {"open", "write"}
          BY <2>5, OneLoader DEF LoadLabels, Labels
    <3>2. heap[buf[t]] = heap[contents]
          BY <2>5, <3>1 DEF Follows
    <3> QED
        BY <2>2, <3>2
  <2> QED
      BY <2>1, <2>4, <2>5 DEF Publish, PublishMoves
<1> QED
    BY <1>1, PeriodicInvariance, PTL DEF Spec, NoRegress

=============================================================================
