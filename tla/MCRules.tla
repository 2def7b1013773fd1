------------------------------- MODULE MCRules ------------------------------
(* TLC instances of Rules; addresses are interchangeable. *)
EXTENDS Rules, TLC

AnyAddress == Permutations(Bufs) \cup Permutations(Objs)
=============================================================================
