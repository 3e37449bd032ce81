------------------------------ MODULE MCHosted ------------------------------
(* Instances of HostedLedger for TLC. *)
EXTENDS HostedLedger, TLC

Symmetry == Permutations(Writer)

=============================================================================
