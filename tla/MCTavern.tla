------------------------------ MODULE MCTavern ------------------------------
(* Small instances of Tavern for TLC. *)
EXTENDS Tavern, TLC

Symmetric == Permutations(Accounts) \cup Permutations(Handlers) \cup Permutations(Keys)
=============================================================================
