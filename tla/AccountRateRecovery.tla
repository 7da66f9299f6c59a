------------------------- MODULE AccountRateRecovery -------------------------
(***************************************************************************)
(* The shared account under an endless schedule.  Nothing but the account  *)
(* collector of the live-odds rule is sure to run: whatever state the      *)
(* consumers have left the row in, the collector alone must lead it back   *)
(* to a healthy account and a known balance in the hours between two       *)
(* landing runs.                                                           *)
(***************************************************************************)
EXTENDS AccountRateWindow

VARIABLE calm   \* the landing run is over but for what it has begun; no Lambda is
                \* killed any more, and every request gets through

liveVars == <<vars, calm>>

LiveInit == Init /\ calm = FALSE

LiveNext ==
  \/ /\ \/ \E p \in Landings : LandingStep(p) /\ (calm => ~At(p, "idle"))
        \/ \E p \in Closings : ClosingStep(p)
        \/ \E p \in Collectors : CollectorStep(p)
        \/ \E p \in Procs : Request(p)
        \/ NextWindow
        \/ ProbeLapses
     /\ UNCHANGED calm
  \/ ~calm /\ (\E p \in Procs : Fault(p)) /\ UNCHANGED calm
  \/ ~calm /\ calm' = TRUE /\ UNCHANGED vars

\* The steps of a collection that comes to its end.
Taken(p) == CollectorTake(p) /\ proc'[p].pc = "ask"
Answered(p) == ProviderAnswers(p) /\ proc'[p].pc = "publish" /\ proc'[p].answer # NoAnswer
Published(p) == PublishPut(p) /\ p \in fresh /\ proc'[p].pc = "idle"

LiveSpec == LiveInit /\ [][LiveNext]_liveVars

=============================================================================
