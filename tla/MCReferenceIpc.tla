--------------------------- MODULE MCReferenceIpc ---------------------------
(* Symmetry of the clients, for the runs that check no liveness.           *)
EXTENDS ReferenceIpc, TLC

MCSymmetry == Permutations(Clients)

=============================================================================
