--------------------------- MODULE MCOddsLeagueRun ---------------------------
(***************************************************************************)
(* OddsLeagueRun on small instances.  Invocations are interchangeable.     *)
(***************************************************************************)
EXTENDS OddsLeagueRun, TLC

Symmetry == Permutations(Invocations)

\* With StallPastLease no guard reads holders, met or the fence's readers, and
\* abandoned is never read: states that differ only there behave alike.
StalledView == <<rows, inv, aged, fence.open>>
=============================================================================
