----------------------------- MODULE MCCliActions -----------------------------
(* Two entities of every domain, interchangeable. *)
EXTENDS CliActions

KeySymmetry == Permutations(Keys)
=============================================================================
