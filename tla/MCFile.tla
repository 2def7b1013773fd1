------------------------------- MODULE MCFile -------------------------------
(* TLC instances of File; addresses are interchangeable. *)
EXTENDS File, TLC

AnyAddress == Permutations(Bufs) \cup Permutations(Objs)
=============================================================================
