--------------------------- MODULE MCResultClaims ---------------------------
(***************************************************************************)
(* Instances of ResultClaims for TLC.                                      *)
(***************************************************************************)
EXTENDS ResultClaims, TLC

\* Every operation, and every one but the two that no endpoint reaches.
Everything == AllFeatures
Routed == AllFeatures \ {"cancel"}

\* Handlers and row ids are interchangeable.
ClaimSymmetry ==
    Permutations(Users) \cup Permutations(ClaimIds) \cup Permutations(DisputeIds)

=============================================================================
