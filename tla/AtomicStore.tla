---------------------------- MODULE AtomicStore ----------------------------
(***************************************************************************)
(* What the global variables of a script object promise to the scripts:    *)
(* a store each get, set and unset of which happens at once, and where a   *)
(* worker may have a transaction, an .eval(), during which nobody else     *)
(* reads or writes.                                                        *)
(***************************************************************************)

CONSTANTS Threads, Keys, Values, Null

VARIABLES
    store, \* the value of each variable; Null: not there
    owner, \* the worker in a transaction, if any
    read   \* per worker: the last variable read, and its value

storeVars == <<store, owner, read>>

Unread == [key |-> Null, value |-> Null]
Empty == [k \in Keys |-> Null]

May(t) == owner \in {t, Null}
Forgets(t) == read' = [read EXCEPT ![t] = Unread]

StoreInit ==
    store = Empty /\ owner = Null /\ read = [t \in Threads |-> Unread]

BeginEval(t) == owner = Null /\ owner' = t /\ Forgets(t) /\ UNCHANGED store
EndEval(t) == owner = t /\ owner' = Null /\ UNCHANGED <<store, read>>

Read(t, k) ==
    /\ May(t)
    /\ read' = [read EXCEPT ![t] = [key |-> k, value |-> store[k]]]
    /\ UNCHANGED <<store, owner>>

Write(t, k, v) ==
    /\ May(t)
    /\ store' = [store EXCEPT ![k] = v]
    /\ Forgets(t)
    /\ UNCHANGED owner

\* A worker may forget what it read at any time.
Forgotten(t) == Forgets(t) /\ UNCHANGED <<store, owner>>

\* The object is gone.
Clear == owner = Null /\ store' = Empty /\ UNCHANGED <<owner, read>>

StoreNext ==
    \/ Clear
    \/ \E t \in Threads :
          \/ BeginEval(t) \/ EndEval(t) \/ Forgotten(t)
          \/ \E k \in Keys : Read(t, k)
          \/ \E k \in Keys, v \in Values \cup {Null} : Write(t, k, v)

StoreSpec == StoreInit /\ [][StoreNext]_storeVars

=============================================================================
