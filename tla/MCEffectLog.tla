---------------------------- MODULE MCEffectLog ----------------------------
(* Instances of EffectLog for TLC. *)
EXTENDS EffectLog, TLC

\* Calls are told apart by nothing but what they do.
Symmetric == Permutations(Call)
=============================================================================
