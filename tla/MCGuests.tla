------------------------------- MODULE MCGuests -------------------------------
(* Guests for TLC: the fields of a form are alike. *)
EXTENDS Guests, TLC

NameSymmetry == Permutations(Names)
=============================================================================
