---------------------------- MODULE MCHostStream ----------------------------
(* HostStream with interchangeable addresses. *)
EXTENDS HostStream

AnyMac == Permutations(Mac)
=============================================================================
