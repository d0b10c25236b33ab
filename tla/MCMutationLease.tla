-------------------------- MODULE MCMutationLease --------------------------
(* Two rooms, one lease.  MaxRequests = 5 allows the handover of a lease    *)
(* that was renewed or released while a captured command is still out.      *)
EXTENDS MutationLease, TLC

Symmetry == Permutations(Rooms)
=============================================================================
