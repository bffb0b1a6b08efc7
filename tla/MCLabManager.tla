---------------------------- MODULE MCLabManager ----------------------------
(* Model checking LabManager: calls are interchangeable.                   *)
EXTENDS LabManager, TLC

Interchangeable == Permutations(Requests)

=============================================================================
