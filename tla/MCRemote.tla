------------------------------ MODULE MCRemote ------------------------------
(* TLC instances of Remote: values too large for a .cfg, and symmetry. *)
EXTENDS Remote, TLC

\* Buffers are interchangeable addresses.
AnyAddress == Permutations(Bufs)
=============================================================================
