----------------------------- MODULE MCBilling -----------------------------
(***************************************************************************)
(* Billing with one customer and three events: what two overlapping        *)
(* deliveries make of a deleted subscription.                              *)
(***************************************************************************)
EXTENDS Billing, TLC

Symmetry == Permutations(Webhooks)
\* A subscription on trial, its end, and an invoice that failed.
MCSays == {<<"subscription", "trialing", 1, 1>>, <<"deleted", "canceled", 0, 0>>,
           <<"failed", "past_due", 0, 2>>}
=============================================================================
