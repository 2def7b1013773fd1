---------------------------- MODULE SettingsCell ----------------------------
(***************************************************************************)
(* What a settings object promises to the VCL that reads it: a cell with   *)
(* one document in it.  A load replaces the document at once, and never by *)
(* an older one; a method answers with the document the cell has at one    *)
(* instant of the call.  The locks, the pointers, the backup file and the  *)
(* election of the thread that reloads do not show.                        *)
(***************************************************************************)
EXTENDS Naturals

CONSTANTS Threads, Versions, Empty, Torn

VARIABLES
    exists,   \* is there an object?
    value,    \* the document its settings come from
    answer    \* per thread: the documents its answer comes from, {} if none yet

cellVars == <<exists, value, answer>>

\* A document that is not a version the location served is older than those.
Rank(doc) == IF doc \in Versions THEN doc ELSE 0

CellInit ==
    /\ exists = FALSE /\ value = Empty
    /\ answer = [t \in Threads |-> {}]

Appear ==
    /\ ~exists /\ exists' = TRUE
    /\ UNCHANGED <<value, answer>>

Replace ==
    /\ exists
    /\ value' \in Versions \cup {Torn}
    /\ Rank(value') >= Rank(value)
    /\ UNCHANGED <<exists, answer>>

Read(t) ==
    /\ exists /\ answer[t] = {}
    /\ answer' = [answer EXCEPT ![t] = {value}]
    /\ UNCHANGED <<exists, value>>

Done(t) ==
    /\ answer' = [answer EXCEPT ![t] = {}]
    /\ UNCHANGED <<exists, value>>

Disappear ==
    /\ exists /\ exists' = FALSE
    /\ value' = Empty
    /\ answer' = [t \in Threads |-> {}]

CellNext ==
    \/ Appear \/ Replace \/ Disappear
    \/ \E t \in Threads : Read(t) \/ Done(t)

CellSpec == CellInit /\ [][CellNext]_cellVars
=============================================================================
