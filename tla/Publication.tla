---------------------------- MODULE Publication -----------------------------
(***************************************************************************)
(* What the landing of a stream promises its readers                       *)
(* (docs/runbooks/sharpapi.md): a generation of rows is published as a     *)
(* whole, and what is read changes only with the next one.                 *)
(***************************************************************************)
EXTENDS Naturals

CONSTANT Rows

VARIABLES generation, view

Init == generation = 0 /\ view = {}
Publish == generation' > generation /\ view' \in SUBSET Rows
Spec == Init /\ [][Publish]_<<generation, view>>
=============================================================================
