------------------------------- MODULE MCUndo -------------------------------
(* Instances of Undo for TLC. *)
EXTENDS Undo, TLC

Symmetry == Permutations(Undoer)

=============================================================================
