----------------------------- MODULE MCResolver -----------------------------
(***************************************************************************)
(* Resolver for TLC.                                                       *)
(***************************************************************************)
EXTENDS Resolver, TLC

Interchangeable == Permutations(Task) \cup Permutations(Address)

=============================================================================
