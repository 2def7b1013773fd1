------------------------------- MODULE MCTask -------------------------------
EXTENDS ScriptTask, TLC

AnyArg == Permutations(Args)

=============================================================================
