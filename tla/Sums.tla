-------------------------------- MODULE Sums --------------------------------
(* The sum of a function's values over a finite set: of amounts, balances. *)
EXTENDS Integers, FiniteSetsExt

Total(f, S) == MapThenSumSet(LAMBDA x : f[x], S)
=============================================================================
