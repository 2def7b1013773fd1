-------------------------------- MODULE File --------------------------------
(***************************************************************************)
(* The file object (src/src/vmod_cfg_file.c): the methods get(), is_set()  *)
(* and dump() copy what they answer to the workspace of the request while  *)
(* they hold the read lock.                                                *)
(***************************************************************************)
EXTENDS Settings

\* get_variable() and is_set_variable() use one entry; dump_variables() walks
\* through all of them.
CopyEntry(t) ==
    /\ stage[t] = "locked"
    /\ Copy(t)
    /\ UNCHANGED <<vars, cell, retired, readers, held, stage>>

RdUnlock(t) ==
    /\ stage[t] = "locked" /\ seen[t] # {}
    /\ readers' = readers \ {t}
    /\ MoveTo(t, "answered")
    /\ UNCHANGED <<vars, cell, retired, held, seen>>

FileNext ==
    \/ Environment
    \/ \E t \in Threads : SharedStep(t) \/ CopyEntry(t) \/ RdUnlock(t)

FileSpec == SettingsInit /\ [][FileNext]_allVars

----------------------------------------------------------------------------
(* Fairness *)

\* What a thread inside a method goes on doing, the swap of the settings apart.
Running(t) ==
    \/ /\ Proceed(t) \/ CallbackRejects(t)
       /\ retired[t] = Null
       /\ UNCHANGED settingsVars
    \/ Flush(t) \/ CreatedSettings(t) \/ ReturnSettings(t)
    \/ RdLock(t) \/ Inspect(t) \/ CopyEntry(t) \/ RdUnlock(t)

\* Readers are let in before a writer that waits: the callback gets the write
\* lock if it is free again and again.
FileFairness ==
    \A t \in Threads :
        /\ WF_allVars(Running(t))
        /\ SF_allVars(\E o \in Objs : Install(t, o))

\* Requests keep arriving, time passes, and the location is not down for ever.
FileTraffic ==
    /\ WF_allVars(Tick /\ UNCHANGED settingsVars)
    /\ \A t \in Threads :
          /\ WF_allVars(CheckStale(t) /\ UNCHANGED settingsVars)
          /\ SF_allVars(/\ \E b \in Bufs : ReadLocation(t, b, origin)
                        /\ UNCHANGED settingsVars)

FileLiveSpec == FileSpec /\ FileFairness /\ FileTraffic

----------------------------------------------------------------------------
(* Properties *)

\* Inductive: a reader has only seen the settings it holds the lock on.
FileAnswers ==
    /\ AnswerFromOneDocument
    /\ \A t \in readers : \A d \in seen[t] : d = store[current]

\* The document the methods answer from.
CellValue == IF current = Null THEN Empty ELSE store[current]

\* The requests that read do not overlap for ever.
RequestsPause == []<>(\A t \in Threads : stage[t] # "locked")

\* Every call returns, that of the thread that reloads too: no thread is left
\* waiting in check_remote(), for the read lock, or for the write lock while
\* requests go in and out with the other, as long as these do not overlap for
\* ever.
CallsReturn ==
    RequestsPause => \A t \in Threads : pc[t] # "idle" ~> pc[t] = "idle"

\* With periodical reloads, an object that stays alive ends up answering from
\* the last document of the location for good, however often the location
\* failed and the backup was loaded instead.
EventuallyFresh ==
    RequestsPause /\ <>[](phase = "live") /\ MaxVersion \notin Broken
        => <>[](origin = MaxVersion => CellValue = MaxVersion)

----------------------------------------------------------------------------
(* The file object is an atomic cell (SettingsCell) *)

\* The answers of the methods that read the settings (not of inspect()).
CellAnswer == [t \in Threads |->
    IF held[t] # Null THEN seen[t] ELSE {}]

Cell == INSTANCE SettingsCell WITH
            value <- CellValue, answer <- CellAnswer, exists <- (current # Null)

\* Readers see an atomic cell whose document never gets older: the refinement
\* of what vmod_file__init, .get(), .dump() and the reloads promise together.
ImplementsCell == Cell!CellSpec
=============================================================================
