---------------------------- MODULE MCCharacters ----------------------------
(* Characters for TLC: the events are alike. *)
EXTENDS Characters, TLC

EventSymmetry == Permutations(Events)
=============================================================================
