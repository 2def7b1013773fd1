--------------------------- MODULE Settings_proofs ---------------------------
(* Theorems about the file and the rules objects, for every value of the     *)
(* constants.  They are steps of Remote first: its invariant carries over.   *)
EXTENDS File, Rules, Remote_proofs

USE DEF object, outside, args, settingsVars, cell, reading

(* What a method does after check_remote() does not touch the rest. *)
LEMMA FrameIsStutter == UNCHANGED <<vars, cell, retired>> => [Next]_vars
OBVIOUS

(* A step of an object is a step of the machine of Remote. *)
LEMMA SharedIsRemote ==
    ASSUME Environment \/ \E t \in Threads : SharedStep(t)
    PROVE  [Next]_vars
<1>1. CASE Environment
      BY <1>1 DEF Environment, Next, Discard, Kill
<1>2. ASSUME NEW t \in Threads, RemoteStep(t) \/ CreatedSettings(t) \/ ReturnSettings(t)
      PROVE  [Next]_vars
      BY <1>2 DEF Next, RemoteStep, Callback, Leave, CreatedSettings,
                  ReturnSettings
<1>3. ASSUME NEW t \in Threads, NEW o \in Objs, Install(t, o) \/ CreateSettings(t, o)
      PROVE  [Next]_vars
      BY <1>3 DEF Next, Callback, Install, CreateSettings
<1>4. ASSUME NEW t \in Threads, Flush(t) \/ RdLock(t) \/ Inspect(t)
      PROVE  [Next]_vars
      BY <1>4 DEF Flush, RdLock, Inspect
<1> QED
    BY <1>1, <1>2, <1>3, <1>4 DEF SharedStep

LEMMA FileIsRemote == [FileNext]_allVars => [Next]_vars
BY SharedIsRemote DEF FileNext, CopyEntry, RdUnlock, allVars

LEMMA RulesIsRemote == [RulesNext]_allVars => [Next]_vars
BY SharedIsRemote DEF RulesNext, UnlockNoMatch, UnlockMatch, CopyValue, allVars

(* The file object implements the reload machine. *)
THEOREM FileImplementsRemote == FileSpec => Spec
BY FileIsRemote, PTL DEF FileSpec, Spec, SettingsInit

(* The rules object implements the reload machine. *)
THEOREM RulesImplementsRemote == RulesSpec => Spec
BY RulesIsRemote, PTL DEF RulesSpec, Spec, SettingsInit

----------------------------------------------------------------------------
(* The invariant of the settings *)

Steady == UNCHANGED <<vars, cell, retired>>

LEMMA SettingsTypeStep ==
    ASSUME Inv, SettingsInv, [Next]_vars,
           Environment \/ \E t \in Threads : SharedStep(t)
    PROVE  SettingsTypeOK'
<1> USE SettingsAssumption, DocFacts DEF SettingsTypeOK, Stages, MoveTo
<1>a. TypeOK /\ TypeOK' /\ SettingsTypeOK /\ BuffersOwned
      BY TypeStep DEF Inv, SettingsInv
<1> USE <1>a
<1>1. CASE Environment
      BY <1>1 DEF Environment, Discard, Kill, FiniSettings, FlushObj,
                  SettingsInv, SettingsOwned, Fini
<1>2. ASSUME NEW t \in Threads, RemoteStep(t) PROVE SettingsTypeOK'
      BY <1>2 DEF RemoteStep
<1>3. ASSUME NEW t \in Threads, NEW o \in Objs, CreateSettings(t, o)
      PROVE  SettingsTypeOK'
      BY <1>3 DEF CreateSettings
<1>4. ASSUME NEW t \in Threads, NEW o \in Objs, Install(t, o)
      PROVE  SettingsTypeOK'
      BY <1>4 DEF Install, TypeOK, CallbackAccepts, BuffersOwned, Owners
<1>5. ASSUME NEW t \in Threads, Flush(t) PROVE SettingsTypeOK'
      BY <1>5 DEF Flush, FlushObj
<1>6. ASSUME NEW t \in Threads, CreatedSettings(t) PROVE SettingsTypeOK'
      BY <1>6 DEF CreatedSettings, FiniSettings, FlushObj, SettingsInv,
                  SettingsOwned, Created
<1>7. ASSUME NEW t \in Threads, RdLock(t) \/ Inspect(t) \/ ReturnSettings(t)
      PROVE  SettingsTypeOK'
      BY <1>7 DEF RdLock, Inspect, ReturnSettings, TypeOK, BuffersOwned, Owners
<1> QED
    BY <1>1, <1>2, <1>3, <1>4, <1>5, <1>6, <1>7 DEF SharedStep

LEMMA RetiringStep ==
    ASSUME Inv, SettingsInv, Environment \/ \E t \in Threads : SharedStep(t)
    PROVE  Retiring'
<1> USE DEF Retiring, Goto
<1>a. TypeOK /\ SettingsTypeOK /\ Retiring
      BY DEF Inv, SettingsInv
<1> USE <1>a DEF TypeOK, SettingsTypeOK
<1>1. CASE Environment
      BY <1>1 DEF Environment, Tick, NewVersion, Discard, Fini, Kill
<1>2. ASSUME NEW t \in Threads, RemoteStep(t) PROVE Retiring'
  <2>1. \A u \in Threads : u # t => pc'[u] = pc[u]
        BY <1>2 DEF RemoteStep, Enter, Reload, CheckFresh, CheckStale,
                    Proceed, Win, Lose,
            ReadLocation, ReadBackup, ReadFails, ReadBackupFails, Publish, PublishMoves,
            OpenBackup, OpenBackupFails, WriteBackup, StatBackup, Finish,
            CallbackRejects
  <2> QED
      BY <1>2, <2>1 DEF RemoteStep
<1>3. ASSUME NEW t \in Threads, NEW o \in Objs, CreateSettings(t, o)
      PROVE  Retiring'
      BY <1>3 DEF CreateSettings, Create, Inv, Life
<1>4. ASSUME NEW t \in Threads, NEW o \in Objs, Install(t, o)
      PROVE  Retiring'
      BY <1>4 DEF Install, CallbackAccepts
<1>5. ASSUME NEW t \in Threads, Flush(t) PROVE Retiring'
      BY <1>5 DEF Flush, vars
<1>6. ASSUME NEW t \in Threads, CreatedSettings(t) \/ ReturnSettings(t)
      PROVE  Retiring'
      BY <1>6 DEF CreatedSettings, Created, ReturnSettings, Return, ClearArgs
<1>7. ASSUME NEW t \in Threads, RdLock(t) \/ Inspect(t)
      PROVE  Retiring'
      BY <1>7 DEF RdLock, Inspect, vars
<1> QED
    BY <1>1, <1>2, <1>3, <1>4, <1>5, <1>6, <1>7 DEF SharedStep

(* No parsed object leaks or is flushed twice. *)
LEMMA SettingsOwnedStep ==
    ASSUME Inv, SettingsInv, Environment \/ \E t \in Threads : SharedStep(t)
    PROVE  SettingsOwned'
<1> USE SettingsAssumption, DocFacts DEF SettingsOwned
<1>a. TypeOK /\ Life /\ BuffersOwned /\ SettingsTypeOK /\ Retiring /\ SettingsOwned
      BY DEF Inv, SettingsInv
<1> USE <1>a DEF SettingsTypeOK
<1>1. CASE Environment
  <2>1. CASE (Tick \/ NewVersion) /\ UNCHANGED settingsVars
        BY <2>1 DEF Tick, NewVersion
  <2>2. CASE Discard
        BY <2>2 DEF Discard, Fini, FreeRemote, FiniSettings, FlushObj, Retiring
  <2>3. CASE Kill
        BY <2>3 DEF Kill, Crash
  <2> QED
      BY <1>1, <2>1, <2>2, <2>3 DEF Environment
<1>2. ASSUME NEW t \in Threads, RemoteStep(t) PROVE SettingsOwned'
  <2>1. UNCHANGED phase
        BY <1>2 DEF RemoteStep, Enter, Reload, CheckFresh, CheckStale,
                    Proceed, Win, Lose,
            ReadLocation, ReadBackup, ReadFails, ReadBackupFails, Publish, PublishMoves,
            OpenBackup, OpenBackupFails, WriteBackup, StatBackup, Finish,
            CallbackRejects
  <2> QED
      BY <1>2, <2>1 DEF RemoteStep
<1>3. ASSUME NEW t \in Threads, NEW o \in Objs, CreateSettings(t, o)
      PROVE  SettingsOwned'
      BY <1>3 DEF CreateSettings, Create
<1>4. ASSUME NEW t \in Threads, NEW o \in Objs, Install(t, o)
      PROVE  SettingsOwned'
  <2>1. /\ heap[buf[t]] # Freed /\ retired[t] = Null /\ current # Null
        /\ UNCHANGED phase
        BY <1>4 DEF Install, CallbackAccepts, BuffersOwned, Owners, Retiring,
                    Life
  <2> QED
      BY <1>4, <2>1 DEF Install
<1>5. ASSUME NEW t \in Threads, Flush(t) PROVE SettingsOwned'
      BY <1>5 DEF Flush, FlushObj, vars
<1>6. ASSUME NEW t \in Threads, CreatedSettings(t) PROVE SettingsOwned'
  <2>1. \A u \in Threads : retired[u] = Null
        BY <1>6 DEF CreatedSettings, Created, Life, Retiring
  <2> QED
      BY <1>6, <2>1 DEF CreatedSettings, Created, FreeRemote, FiniSettings,
                        FlushObj
<1>7. ASSUME NEW t \in Threads, RdLock(t) \/ Inspect(t) \/ ReturnSettings(t)
      PROVE  SettingsOwned'
      BY <1>7 DEF RdLock, Inspect, ReturnSettings, Return, vars
<1> QED
    BY <1>1, <1>2, <1>3, <1>4, <1>5, <1>6, <1>7 DEF SharedStep

LEMMA ReadingStep ==
    ASSUME Inv, SettingsInv, Environment \/ \E t \in Threads : SharedStep(t)
    PROVE  Reading'
<1> USE DEF Reading, InMethod, MoveTo, Goto
<1>a. TypeOK /\ Life /\ SettingsTypeOK /\ Retiring /\ SettingsOwned /\ Reading
      BY DEF Inv, SettingsInv
<1> USE <1>a DEF TypeOK, SettingsTypeOK, Stages
<1>1. CASE Environment
  <2>1. CASE (Tick \/ NewVersion) /\ UNCHANGED settingsVars
        BY <2>1 DEF Tick, NewVersion
  <2>2. CASE Discard
        BY <2>2 DEF Discard, Fini, FiniSettings
  <2>3. CASE Kill
        BY <2>3 DEF Kill, Crash
  <2> QED
      BY <1>1, <2>1, <2>2, <2>3 DEF Environment
<1>2. ASSUME NEW t \in Threads, RemoteStep(t) PROVE Reading'
  <2>1. /\ UNCHANGED phase /\ pc[t] # "done"
        /\ \A u \in Threads \ {t} :
              pc'[u] = pc[u] /\ forceLoad'[u] = forceLoad[u]
        BY <1>2 DEF RemoteStep, Enter, Reload, CheckFresh, CheckStale,
                    Proceed, Win, Lose,
            ReadLocation, ReadBackup, ReadFails, ReadBackupFails, Publish, PublishMoves,
            OpenBackup, OpenBackupFails, WriteBackup, StatBackup, Finish,
            CallbackRejects
  <2> QED
      BY <1>2, <2>1 DEF RemoteStep
<1>3. ASSUME NEW t \in Threads, NEW o \in Objs, CreateSettings(t, o)
      PROVE  Reading'
      BY <1>3 DEF CreateSettings, Create, Life
<1>4. ASSUME NEW t \in Threads, NEW o \in Objs, Install(t, o)
      PROVE  Reading'
      BY <1>4 DEF Install, CallbackAccepts
<1>5. ASSUME NEW t \in Threads, Flush(t) PROVE Reading'
      BY <1>5 DEF Flush, vars
<1>6. ASSUME NEW t \in Threads, CreatedSettings(t) PROVE Reading'
  <2>1. \A u \in Threads : stage[u] = "check"
        BY <1>6 DEF CreatedSettings, Created
  <2> QED
      BY <1>6, <2>1 DEF CreatedSettings
<1>7. ASSUME NEW t \in Threads, RdLock(t) \/ Inspect(t)
      PROVE  Reading'
      BY <1>7 DEF RdLock, Inspect, vars, SettingsOwned
<1>8. ASSUME NEW t \in Threads, ReturnSettings(t)
      PROVE  Reading'
      BY <1>8 DEF ReturnSettings, Return, ClearArgs
<1> QED
    BY <1>1, <1>2, <1>3, <1>4, <1>5, <1>6, <1>7, <1>8 DEF SharedStep

LEMMA SettingsInitInv == SettingsInit => Inv /\ SettingsInv
<1> SUFFICES ASSUME SettingsInit PROVE Inv /\ SettingsInv
    OBVIOUS
<1>1. Inv
      BY InvInit DEF SettingsInit
<1>2. SettingsTypeOK
      BY <1>1, SettingsAssumption DEF Inv, SettingsInit, SettingsTypeOK, Stages
<1>3. SettingsOwned /\ Retiring /\ Reading
      BY SettingsAssumption
      DEF SettingsInit, Init, SettingsOwned, Retiring, Reading
<1> QED
    BY <1>1, <1>2, <1>3 DEF SettingsInv

(* The steps File and Rules share preserve everything. *)
LEMMA SharedKeeps ==
    ASSUME Inv, SettingsInv, Environment \/ \E t \in Threads : SharedStep(t)
    PROVE  Inv' /\ SettingsInv'
<1>1. [Next]_vars
      BY SharedIsRemote
<1>2. Inv'
      BY <1>1, InvStep
<1>3. SettingsTypeOK'
      BY <1>1, SettingsTypeStep
<1> QED
    BY <1>2, <1>3, SettingsOwnedStep, RetiringStep, ReadingStep DEF SettingsInv

(* The reading steps of a method change nothing else. *)
LEMMA SteadyKeeps ==
    ASSUME Inv, SettingsInv, Steady, SettingsTypeOK', Reading'
    PROVE  Inv' /\ SettingsInv'
<1>1. Inv'
      BY InvStep DEF Steady
<1>2. SettingsOwned' /\ Retiring'
      BY DEF Steady, vars, SettingsInv, SettingsOwned, Retiring
<1> QED
    BY <1>1, <1>2 DEF SettingsInv

LEMMA FileStep == Inv /\ SettingsInv /\ [FileNext]_allVars => Inv' /\ SettingsInv'
<1> SUFFICES ASSUME Inv, SettingsInv, [FileNext]_allVars
             PROVE  Inv' /\ SettingsInv'
    OBVIOUS
<1>1. CASE Environment \/ \E t \in Threads : SharedStep(t)
      BY <1>1, SharedKeeps
<1>2. ASSUME NEW t \in Threads, CopyEntry(t) PROVE Inv' /\ SettingsInv'
  <2>1. Steady /\ t \in readers /\ held[t] \in Objs
        BY <1>2, SettingsAssumption
        DEF Steady, CopyEntry, SettingsInv, Reading, SettingsOwned, InMethod,
            SettingsTypeOK
  <2>2. SettingsTypeOK' /\ Reading'
        BY <1>2, <2>1 DEF CopyEntry, Copy, SettingsInv, SettingsTypeOK, Reading,
                          InMethod, TypeOK, vars
  <2> QED
      BY <2>1, <2>2, SteadyKeeps
<1>3. ASSUME NEW t \in Threads, RdUnlock(t) PROVE Inv' /\ SettingsInv'
  <2>1. Steady /\ SettingsTypeOK' /\ Reading'
        BY <1>3 DEF RdUnlock, MoveTo, SettingsInv, SettingsTypeOK, Reading,
                    Stages,
                    Steady, InMethod, TypeOK, vars
  <2> QED
      BY <2>1, SteadyKeeps
<1>4. CASE UNCHANGED allVars
  <2>1. Steady /\ SettingsTypeOK' /\ Reading'
        BY <1>4 DEF allVars, vars, SettingsInv, SettingsTypeOK, Reading,
                    TypeOK, InMethod, Steady
  <2> QED
      BY <2>1, SteadyKeeps
<1> QED
    BY <1>1, <1>2, <1>3, <1>4 DEF FileNext

LEMMA RulesStep == Inv /\ SettingsInv /\ [RulesNext]_allVars => Inv' /\ SettingsInv'
<1> SUFFICES ASSUME Inv, SettingsInv, [RulesNext]_allVars
             PROVE  Inv' /\ SettingsInv'
    OBVIOUS
<1>1. CASE Environment \/ \E t \in Threads : SharedStep(t)
      BY <1>1, SharedKeeps
<1>2. ASSUME NEW t \in Threads, UnlockNoMatch(t) \/ UnlockMatch(t)
      PROVE  Inv' /\ SettingsInv'
  <2>1. Steady /\ SettingsTypeOK' /\ Reading'
        BY <1>2 DEF UnlockNoMatch, UnlockMatch, MoveTo, SettingsInv,
                    SettingsTypeOK, Reading, Stages,
                    Steady, InMethod, TypeOK, vars
  <2> QED
      BY <2>1, SteadyKeeps
<1>3. ASSUME NEW t \in Threads, CopyValue(t) PROVE Inv' /\ SettingsInv'
  <2>1. Steady /\ SettingsTypeOK' /\ Reading'
        BY <1>3 DEF CopyValue, Copy, MoveTo, SettingsInv, SettingsTypeOK,
                    Reading, Stages,
                    Steady, InMethod, TypeOK, vars
  <2> QED
      BY <2>1, SteadyKeeps
<1>4. CASE UNCHANGED allVars
  <2>1. Steady /\ SettingsTypeOK' /\ Reading'
        BY <1>4 DEF allVars, vars, SettingsInv, SettingsTypeOK, Reading,
                    TypeOK, InMethod, Steady
  <2> QED
      BY <2>1, SteadyKeeps
<1> QED
    BY <1>1, <1>2, <1>3, <1>4 DEF RulesNext

(* The inductive invariant of the file object: who has which parsed          *)
(* settings, on top of that of the reload machine.                           *)
THEOREM FileInvariance == FileSpec => [](Inv /\ SettingsInv)
BY SettingsInitInv, FileStep, PTL DEF FileSpec

LEMMA RulesInvariance == RulesSpec => [](Inv /\ SettingsInv)
BY SettingsInitInv, RulesStep, PTL DEF RulesSpec

(* Parsed settings of the file object never leak, nor are they freed twice. *)
THEOREM FileSettingsOwned == FileSpec => []SettingsOwned
BY FileInvariance, PTL DEF SettingsInv

(* Parsed rules never leak, nor are they freed twice. *)
THEOREM RulesSettingsOwned == RulesSpec => []SettingsOwned
BY RulesInvariance, PTL DEF SettingsInv

(* Under the read lock, the rules matched are the rules in use. *)
THEOREM RulesLockedLive == RulesSpec => []LockedSettingsLive
<1>1. Inv /\ SettingsInv => LockedSettingsLive
      BY DEF SettingsInv, Reading, SettingsOwned, LockedSettingsLive, InMethod,
             SettingsTypeOK
<1> QED
    BY <1>1, RulesInvariance, PTL

----------------------------------------------------------------------------
(* Answers of the file object *)

LEMMA FileAnswersStep ==
    ASSUME Inv, SettingsInv, FileAnswers, [FileNext]_allVars
    PROVE  FileAnswers'
<1> USE DEF FileAnswers, AnswerFromOneDocument
<1>a. /\ TypeOK /\ BuffersOwned /\ SettingsTypeOK /\ SettingsOwned /\ Reading
      /\ Retiring
      BY DEF Inv, SettingsInv
<1> USE <1>a DEF SettingsTypeOK
<1>1. CASE Environment
  <2>1. CASE (Tick \/ NewVersion) /\ UNCHANGED settingsVars
        BY <2>1
  <2>2. CASE Discard
        BY <2>2 DEF Discard, Fini, Reading, InMethod
  <2>3. CASE Kill
        BY <2>3 DEF Kill
  <2> QED
      BY <1>1, <2>1, <2>2, <2>3 DEF Environment
<1>2. ASSUME NEW t \in Threads, SharedStep(t) PROVE FileAnswers'
  <2>1. CASE RemoteStep(t)
        BY <2>1 DEF RemoteStep
  <2>2. ASSUME NEW o \in Objs, CreateSettings(t, o) PROVE FileAnswers'
        BY <2>2 DEF CreateSettings, Create, Reading, InMethod
  <2>3. ASSUME NEW o \in Objs, Install(t, o) PROVE FileAnswers'
        BY <2>3 DEF Install
  <2>4. CASE Flush(t)
        BY <2>4 DEF Flush, FlushObj, SettingsOwned
  <2>5. CASE CreatedSettings(t)
        BY <2>5 DEF CreatedSettings, Created, Reading, InMethod
  <2>6. CASE RdLock(t)
        BY <2>6 DEF RdLock, Reading, MoveTo
  <2>7. CASE Inspect(t)
    <3>1. contents # Null => heap[contents] # Freed
          BY DEF TypeOK, BuffersOwned
    <3> QED
        BY <2>7, <3>1 DEF Inspect, Reading
  <2>8. CASE ReturnSettings(t)
        BY <2>8 DEF ReturnSettings
  <2> QED
      BY <1>2, <2>1, <2>2, <2>3, <2>4, <2>5, <2>6, <2>7, <2>8 DEF SharedStep
<1>3. ASSUME NEW t \in Threads, CopyEntry(t) PROVE FileAnswers'
  <2>1. /\ t \in readers /\ held[t] = current /\ current \in Objs
        /\ store[current] # Freed
        BY <1>3 DEF CopyEntry, Reading, SettingsOwned, InMethod
  <2> QED
      BY <1>3, <2>1 DEF CopyEntry, Copy
<1>4. ASSUME NEW t \in Threads, RdUnlock(t) PROVE FileAnswers'
      BY <1>4 DEF RdUnlock
<1>5. CASE UNCHANGED allVars
      BY <1>5 DEF allVars
<1> QED
    BY <1>1, <1>2, <1>3, <1>4, <1>5 DEF FileNext

(* What a method has seen of the settings is of those it holds the lock on,  *)
(* which are live.                                                           *)
THEOREM FileAnswersInvariance == FileSpec => []FileAnswers
<1>1. SettingsInit => FileAnswers
      BY DEF SettingsInit, FileAnswers, AnswerFromOneDocument
<1>2. Inv /\ SettingsInv /\ FileAnswers /\ [FileNext]_allVars => FileAnswers'
      BY FileAnswersStep
<1> QED
    BY <1>1, <1>2, FileInvariance, PTL DEF FileSpec

(* An answer of a file object comes from one document, never from freed      *)
(* memory, however reloads overlap.                                          *)
THEOREM FileAnswersSound == FileSpec => []AnswerFromOneDocument
BY FileAnswersInvariance, PTL DEF FileAnswers

----------------------------------------------------------------------------
(* Objects that VCL never reloads by force *)

LEMMA AgreementStep ==
    ASSUME OnlyPeriodical, Inv, SettingsInv, SoleLoader, Agreement,
           Environment \/ \E t \in Threads : SharedStep(t)
    PROVE  Agreement'
<1> USE RemoteAssumption, SettingsAssumption DEF Agreement, Goto
<1>a. /\ TypeOK /\ Life /\ BuffersOwned /\ SettingsTypeOK /\ SettingsOwned
      /\ Retiring
      BY DEF Inv, SettingsInv
<1> USE <1>a DEF TypeOK, SettingsTypeOK
<1>1. CASE Environment
  <2>1. CASE (Tick \/ NewVersion) /\ UNCHANGED settingsVars
        BY <2>1 DEF Tick, NewVersion
  <2>2. CASE Discard
        BY <2>2 DEF Discard, Fini, FreeRemote, FiniSettings
  <2>3. CASE Kill
        BY <2>3 DEF Kill, Crash
  <2> QED
      BY <1>1, <2>1, <2>2, <2>3 DEF Environment
<1>2. ASSUME NEW t \in Threads, RemoteStep(t) PROVE Agreement'
  <2> USE <1>2 DEF RemoteStep
  <2>a. UNCHANGED store /\ UNCHANGED current
        OBVIOUS
  <2>1. CASE Enter(t)
        BY <2>1, <2>a DEF Enter, Reload, CheckFresh, CheckStale
  <2>2. CASE CallbackRejects(t)
        BY <2>2, <2>a DEF CallbackRejects, Free, Forget, BuffersOwned, Owners
  <2>3. CASE Publish(t)
    <3>1. \A u \in Threads : u # t => pc[u] \notin LoadLabels
          BY <2>3, OneLoader DEF Publish, PublishMoves, LoadLabels, Labels
    <3>2. /\ buf[t] \in Bufs /\ buf[t] # contents
          /\ contents' = buf[t] /\ heap'[contents'] = heap[buf[t]]
          BY <2>3 DEF Publish, PublishMoves, FreeUnlessNull, Free,
                      BuffersOwned, Owners
    <3>3. \A u \in Threads : pc'[u] \notin {"publish", "publishbackup"}
          BY <2>3, <3>1 DEF Publish, PublishMoves, LoadLabels, Labels
    <3>4. store[current] = heap[buf[t]]
          BY <2>3 DEF Publish, PublishMoves
    <3> QED
        BY <2>a, <3>2, <3>3, <3>4
  <2>4. ASSUME NEW b \in Bufs, NEW doc, Alloc(t, b, doc), UNCHANGED contents,
               pc[t] \in {"read", "readbackup"},
               Goto(t, "callback") \/ Goto(t, "callbackbackup")
        PROVE  Agreement'
        BY <2>4, <2>a DEF Alloc, BuffersOwned, Owners
  <2>5. CASE \/ Win(t) \/ Lose(t) \/ Finish(t) \/ ReadFails(t)
             \/ ReadBackupFails(t) \/ StatBackup(t)
        BY <2>5, <2>a DEF Win, Lose, Finish, ReadFails, ReadBackupFails,
                          StatBackup
  <2>6. CASE OpenBackup(t) \/ OpenBackupFails(t) \/ WriteBackup(t)
        BY <2>6, <2>a DEF OpenBackup, OpenBackupFails, WriteBackup, Forget
  <2> QED
      BY <2>1, <2>2, <2>3, <2>4, <2>5, <2>6
      DEF Proceed, ReadLocation, ReadBackup
<1>3. ASSUME NEW t \in Threads, NEW o \in Objs, CreateSettings(t, o)
      PROVE  Agreement'
      BY <1>3 DEF CreateSettings, Create, Life
<1>4. ASSUME NEW t \in Threads, NEW o \in Objs, Install(t, o)
      PROVE  Agreement'
  <2>1. \A u \in Threads : u # t => pc[u] \notin LoadLabels
        BY <1>4, OneLoader DEF Install, CallbackAccepts, LoadLabels, Labels
  <2>2. /\ store'[current'] = heap[buf[t]] /\ UNCHANGED <<heap, buf>>
        /\ pc'[t] \in {"publish", "publishbackup"}
        BY <1>4 DEF Install, CallbackAccepts
  <2>3. \A u \in Threads : pc'[u] \in {"publish", "publishbackup"} => u = t
        BY <1>4, <2>1 DEF Install, CallbackAccepts, LoadLabels, Labels
  <2> QED
      BY <2>2, <2>3
<1>5. ASSUME NEW t \in Threads, Flush(t) PROVE Agreement'
      BY <1>5 DEF Flush, FlushObj, vars, SettingsOwned
<1>6. ASSUME NEW t \in Threads, CreatedSettings(t) PROVE Agreement'
      BY <1>6 DEF CreatedSettings, Created, FreeRemote, ClearArgs, Life,
                  FiniSettings
<1>7. ASSUME NEW t \in Threads, RdLock(t) \/ Inspect(t) PROVE Agreement'
      BY <1>7 DEF RdLock, Inspect, vars
<1>8. ASSUME NEW t \in Threads, ReturnSettings(t) PROVE Agreement'
      BY <1>8 DEF ReturnSettings, Return, ClearArgs
<1> QED
    BY <1>1, <1>2, <1>3, <1>4, <1>5, <1>6, <1>7, <1>8 DEF SharedStep

LEMMA FileAgreement ==
    ASSUME OnlyPeriodical
    PROVE  FileSpec => [](SoleLoader /\ Agreement)
<1>1. SettingsInit => SoleLoader /\ Agreement
      BY DEF SettingsInit, Init, SoleLoader, BackupFromPublished, LoadLabels,
             Labels, Agreement
<1>2. Inv /\ SettingsInv /\ SoleLoader /\ [FileNext]_allVars => SoleLoader'
      BY SoleLoaderStep, FileIsRemote
<1>3. Inv /\ SettingsInv /\ SoleLoader /\ Agreement /\ [FileNext]_allVars
        => Agreement'
  <2> SUFFICES ASSUME Inv, SettingsInv, SoleLoader, Agreement, [FileNext]_allVars
               PROVE  Agreement'
      OBVIOUS
  <2>1. CASE Environment \/ \E t \in Threads : SharedStep(t)
        BY <2>1, AgreementStep
  <2>2. CASE Steady
        BY <2>2 DEF Steady, vars, Agreement
  <2> QED
      BY <2>1, <2>2 DEF FileNext, CopyEntry, RdUnlock, Steady, allVars
<1> QED
    BY <1>1, <1>2, <1>3, FileInvariance, PTL DEF FileSpec

(* At rest, get() and inspect() of a file object speak of one document.      *)
THEOREM FileAgrees == OnlyPeriodical /\ FileSpec => []AgreeAtRest
<1> SUFFICES ASSUME OnlyPeriodical PROVE FileSpec => []AgreeAtRest
    OBVIOUS
<1>1. Agreement => AgreeAtRest
      BY DEF Agreement, AgreeAtRest, Quiet, LoadLabels, Labels
<1> QED
    BY <1>1, FileAgreement, PTL

----------------------------------------------------------------------------
(* The file object implements SettingsCell *)

USE DEF Cell!cellVars

\* A load that installs a document does not go back to an older one.
LEMMA InstallNotOlder ==
    ASSUME Inv, SettingsInv, SoleLoader, Follows, Agreement,
           NEW t \in Threads, NEW o \in Objs, Install(t, o)
    PROVE  /\ heap[buf[t]] \in Versions \cup {Torn}
           /\ Cell!Rank(heap[buf[t]]) >= Cell!Rank(store[current])
<1>1. /\ pc[t] \in {"callback", "callbackbackup"}
      /\ Parses(heap[buf[t]]) /\ phase # "none"
      BY DEF Install, CallbackAccepts, Inv, Life
<1>2. \A u \in Threads : pc[u] \notin {"publish", "publishbackup", "open", "write"}
      BY <1>1, OneLoader DEF LoadLabels, Labels
<1>3. store[current] = IF contents = Null THEN Empty ELSE heap[contents]
      BY <1>1, <1>2 DEF Agreement, SettingsInv, SettingsOwned
<1>4. heap[buf[t]] \in Versions \cup {Torn}
      BY <1>1 DEF Parses
<1>5. \A d \in Docs : Cell!Rank(d) \in Nat
      BY RemoteAssumption DEF Cell!Rank, Versions
<1>6. CASE contents = Null
      BY <1>3, <1>4, <1>5, <1>6, DocFacts DEF Cell!Rank, Versions
<1>7. CASE contents # Null /\ pc[t] = "callback"
  <2>1. heap[buf[t]] \in Versions
        BY <1>1, <1>7, DocFacts DEF Follows, Parses
  <2>2. heap[contents] \in Versions => heap[buf[t]] >= heap[contents]
        BY <1>7, <2>1 DEF Follows, NotOlder
  <2> QED
      BY <1>3, <1>4, <1>7, <2>1, <2>2, RemoteAssumption DEF Cell!Rank, Versions
<1>8. CASE contents # Null /\ pc[t] = "callbackbackup"
  <2>1. heap[buf[t]] = heap[contents]
        BY <1>2, <1>8 DEF Follows
  <2> QED
      BY <1>3, <1>4, <1>8, <2>1, RemoteAssumption DEF Cell!Rank, Versions
<1> QED
    BY <1>1, <1>6, <1>7, <1>8

LEMMA CellStep ==
    ASSUME Inv, SettingsInv, SoleLoader, Follows, Agreement, FileAnswers,
           [FileNext]_allVars
    PROVE  [Cell!CellNext]_(Cell!cellVars)
<1> USE SettingsAssumption DEF CellValue, CellAnswer
<1>a. /\ TypeOK /\ Life /\ SettingsTypeOK /\ SettingsOwned /\ Retiring
      /\ Reading
      BY DEF Inv, SettingsInv
<1> USE <1>a DEF SettingsTypeOK
<1>1. CASE Environment
  <2>1. CASE (Tick \/ NewVersion) /\ UNCHANGED settingsVars
        BY <2>1
  <2>2. CASE Discard
    <3>1. \A u \in Threads : seen[u] = {} /\ held[u] = Null
          BY <2>2 DEF Discard, Fini, Reading, InMethod
    <3>2. Cell!Disappear
          BY <2>2, <3>1 DEF Discard, Fini, FiniSettings, SettingsOwned,
                            Cell!Disappear
    <3> QED
        BY <3>2 DEF Cell!CellNext
  <2>3. CASE Kill
    <3>1. Cell!Disappear
          BY <2>3 DEF Kill, Crash, SettingsOwned, Cell!Disappear
    <3> QED
        BY <3>1 DEF Cell!CellNext
  <2> QED
      BY <1>1, <2>1, <2>2, <2>3 DEF Environment
<1>2. ASSUME NEW t \in Threads, SharedStep(t)
      PROVE  [Cell!CellNext]_(Cell!cellVars)
  <2>1. CASE RemoteStep(t)
        BY <2>1 DEF RemoteStep
  <2>2. ASSUME NEW o \in Objs, CreateSettings(t, o)
        PROVE  [Cell!CellNext]_(Cell!cellVars)
    <3>1. Cell!Appear
          BY <2>2 DEF CreateSettings, Create, SettingsOwned, Cell!Appear
    <3> QED
        BY <3>1 DEF Cell!CellNext
  <2>3. ASSUME NEW o \in Objs, Install(t, o)
        PROVE  [Cell!CellNext]_(Cell!cellVars)
    <3>1. current # Null
          BY <2>3 DEF Install, CallbackAccepts, Life, SettingsOwned
    <3>2. /\ CellValue = store[current] /\ CellValue' = heap[buf[t]]
          /\ UNCHANGED CellAnswer /\ current' # Null
          BY <2>3, <3>1 DEF Install
    <3>3. Cell!Replace
          BY <3>1, <3>2, <2>3, InstallNotOlder DEF Cell!Replace
    <3> QED
        BY <3>3 DEF Cell!CellNext
  <2>4. CASE Flush(t)
        BY <2>4 DEF Flush, FlushObj, SettingsOwned
  <2>5. CASE CreatedSettings(t)
    <3>1. \A u \in Threads : seen[u] = {} /\ held[u] = Null
          BY <2>5 DEF CreatedSettings, Created, Reading, InMethod
    <3>2. CASE phase' = "none"
      <4>1. Cell!Disappear
            BY <2>5, <3>1, <3>2 DEF CreatedSettings, Created, FiniSettings,
                                    SettingsOwned, Cell!Disappear
      <4> QED
          BY <4>1 DEF Cell!CellNext
    <3>3. CASE phase' # "none"
          BY <2>5, <3>3 DEF CreatedSettings
    <3> QED
        BY <3>2, <3>3
  <2>6. CASE RdLock(t)
        BY <2>6 DEF RdLock, Reading
  <2>7. CASE Inspect(t)
        BY <2>7 DEF Inspect, Reading
  <2>8. CASE ReturnSettings(t)
    <3>1. Cell!Done(t)
          BY <2>8 DEF ReturnSettings, Cell!Done
    <3> QED
        BY <3>1 DEF Cell!CellNext
  <2> QED
      BY <1>2, <2>1, <2>2, <2>3, <2>4, <2>5, <2>6, <2>7, <2>8 DEF SharedStep
<1>3. ASSUME NEW t \in Threads, CopyEntry(t)
      PROVE  [Cell!CellNext]_(Cell!cellVars)
  <2>1. /\ t \in readers /\ held[t] = current /\ current \in Objs
        BY <1>3 DEF CopyEntry, Reading, SettingsOwned, InMethod
  <2>2. CASE seen[t] = {}
    <3>1. Cell!Read(t)
          BY <1>3, <2>1, <2>2 DEF CopyEntry, Copy, Cell!Read
    <3> QED
        BY <3>1 DEF Cell!CellNext
  <2>3. CASE seen[t] # {}
    <3>1. seen[t] = {store[current]}
          BY <2>1, <2>3 DEF FileAnswers
    <3> QED
        BY <1>3, <2>1, <3>1 DEF CopyEntry, Copy
  <2> QED
      BY <2>2, <2>3
<1>4. ASSUME NEW t \in Threads, RdUnlock(t)
      PROVE  [Cell!CellNext]_(Cell!cellVars)
      BY <1>4 DEF RdUnlock
<1>5. CASE UNCHANGED allVars
      BY <1>5 DEF allVars
<1> QED
    BY <1>1, <1>2, <1>3, <1>4, <1>5 DEF FileNext

(* Reloaded periodically, with a backup that works, a file object is an      *)
(* atomic cell whose document never gets older.                              *)
THEOREM FileImplementsCell ==
    OnlyPeriodical /\ BackupWorks /\ FileSpec => ImplementsCell
<1> SUFFICES ASSUME OnlyPeriodical, BackupWorks PROVE FileSpec => ImplementsCell
    OBVIOUS
<1>1. SettingsInit => Cell!CellInit
      BY DEF SettingsInit, CellValue, CellAnswer, Cell!CellInit
<1>2. FileSpec => [](PeriodicInv /\ SettingsInv /\ Agreement /\ FileAnswers)
      BY FileImplementsRemote, PeriodicInvariance, FileInvariance,
         FileAgreement, FileAnswersInvariance, PTL
<1>3. PeriodicInv /\ SettingsInv /\ Agreement /\ FileAnswers /\ [FileNext]_allVars
        => [Cell!CellNext]_(Cell!cellVars)
      BY CellStep DEF PeriodicInv
<1> QED
    BY <1>1, <1>2, <1>3, PTL DEF FileSpec, ImplementsCell, Cell!CellSpec

=============================================================================
