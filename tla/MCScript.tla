------------------------------ MODULE MCScript ------------------------------
EXTENDS Script, TLC

AnyName == Permutations(Threads) \cup Permutations(Engines)
                \cup Permutations(Codes \ Invalid)

=============================================================================
