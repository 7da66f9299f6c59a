--------------------------- MODULE MCPaperPickRun ---------------------------
(***************************************************************************)
(* PaperPickRun on small instances: invocations, events and decisions are  *)
(* interchangeable.                                                        *)
(***************************************************************************)
EXTENDS PaperPickRun, TLC

Symmetry == Permutations(Invs) \cup Permutations(Events)
              \cup Permutations(Decisions) \cup Permutations(Snapshots)
=============================================================================
