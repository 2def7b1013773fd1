------------------------------- MODULE RwLock -------------------------------
(***************************************************************************)
(* A pthread_rwlock_t, as the code uses it: a thread never asks for a lock *)
(* it holds.  Readers share the lock, a writer has it alone.               *)
(***************************************************************************)

Unlocked == [readers |-> {}, writers |-> {}]

CanRead(l) == l.writers = {}
CanWrite(l) == l.writers = {} /\ l.readers = {}

RdLock(l, t) == [l EXCEPT !.readers = @ \cup {t}]
WrLock(l, t) == [l EXCEPT !.writers = {t}]

\* pthread_rwlock_unlock() by t, reader or writer
RwUnlock(l, t) == [readers |-> l.readers \ {t}, writers |-> l.writers \ {t}]

HoldsLock(l, t) == t \in l.readers \cup l.writers

\* What a lock may be.
RwLockOK(l, threads) ==
    /\ l \in [readers : SUBSET threads, writers : SUBSET threads]
    /\ \A t \in l.writers : l.writers = {t} /\ l.readers = {}

=============================================================================
