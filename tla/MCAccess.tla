------------------------------ MODULE MCAccess ------------------------------
(***************************************************************************)
(* Access on small instances.                                              *)
(***************************************************************************)
EXTENDS Access, TLC

CONSTANT o

\* The actors of one component are given the names of another's: two sets to permute.
Symmetry == Permutations(Callers) \cup Permutations(Keys)

\* Stripe's events: a subscription on trial, its end, and an invoice that failed for the
\* period to come.
MCSays == {<<"subscription", "trialing", 1, 1>>, <<"deleted", "canceled", 0, 0>>,
           <<"failed", "past_due", 0, 2>>}
=============================================================================
