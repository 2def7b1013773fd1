----------------------------- MODULE MCObjects -----------------------------
(* TLC instances of File and of Rules in one run; addresses are             *)
(* interchangeable.                                                         *)
EXTENDS File, Rules, TLC

AnyAddress == Permutations(Bufs) \cup Permutations(Objs)

VARIABLE kind \* of the object

ObjectsInit == SettingsInit /\ kind \in {"file", "rules"}

ObjectsNext ==
    /\ \/ kind = "file" /\ FileNext
       \/ kind = "rules" /\ RulesNext
    /\ UNCHANGED kind

ObjectsSpec == ObjectsInit /\ [][ObjectsNext]_<<allVars, kind>>

=============================================================================
