------------------------------- MODULE Rules --------------------------------
(***************************************************************************)
(* The rules object (src/src/vmod_cfg_rules.c): get() matches the rules    *)
(* under the read lock, but copies the value of the rule that matched      *)
(* after it has released the lock.                                         *)
(***************************************************************************)
EXTENDS Settings

\* No rule matches: get() answers its fallback and keeps no pointer.
UnlockNoMatch(t) ==
    /\ stage[t] = "locked"
    /\ readers' = readers \ {t}
    /\ held' = [held EXCEPT ![t] = Null]
    /\ MoveTo(t, "answered")
    /\ UNCHANGED <<vars, cell, retired, seen>>

\* The first rule that matches: its value is part of the settings.  There is none
\* in the empty list of an object whose first load failed.
UnlockMatch(t) ==
    /\ stage[t] = "locked" /\ store[held[t]] # Empty
    /\ readers' = readers \ {t}
    /\ MoveTo(t, "unlocked")
    /\ UNCHANGED <<vars, cell, retired, held, seen>>

\* WS_Copy()
CopyValue(t) ==
    /\ stage[t] = "unlocked"
    /\ Copy(t)
    /\ MoveTo(t, "answered")
    /\ UNCHANGED <<vars, cell, retired, readers, held>>

RulesNext ==
    \/ Environment
    \/ \E t \in Threads :
          SharedStep(t) \/ UnlockNoMatch(t) \/ UnlockMatch(t) \/ CopyValue(t)

RulesSpec == SettingsInit /\ [][RulesNext]_allVars
=============================================================================
