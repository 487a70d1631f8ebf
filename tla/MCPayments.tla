----------------------------- MODULE MCPayments -----------------------------
(* Small instances of Payments for TLC. *)
EXTENDS Payments, TLC

CONSTANTS a1, a2
StripeAndPaypal == (a1 :> "stripe") @@ (a2 :> "paypal")
=============================================================================
