------------------------------ MODULE MCStore ------------------------------
(* TLC instances of ScriptStore. *)
EXTENDS ScriptStore, TLC

AnyName == Permutations(Threads) \cup Permutations(Engines)
               \cup Permutations(Vres)

=============================================================================
