-------------------------- MODULE OddsLeagueRecovery --------------------------
(***************************************************************************)
(* A league under an endless schedule.  OddsLeagueRun lets each invocation *)
(* happen once; here an invocation that has ended is called again, as the  *)
(* one-minute rule does, under an identity nothing refers to any more.     *)
(* The league must always get out of what an earlier invocation left it    *)
(* in: an unresolved ambiguity, or a run that will not finish.             *)
(***************************************************************************)
EXTENDS OddsLeagueRun

VARIABLE calm   \* no Lambda is killed and no store call throws any more

liveVars == <<vars, calm>>

\* The rows and the other invocations no longer need w's identity: its run is
\* not being worked on, and if it owns the continuation its lease is over.
Forgettable(w) ==
  /\ cont.run # w /\ (cont.owner = w => ~cont.live)
  /\ \A v \in Invocations \ {w} :
       inv[v].my # w /\ inv[v].cont.run # w /\ inv[v].cont.owner # w

\* The next call, with a new random ownerId and a run id no row has.
Recall(w) ==
  /\ Ended(w)
  /\ Forgettable(w)
  /\ inv' = [inv EXCEPT ![w] = Fresh]
  /\ cont' = IF cont.owner = w THEN [cont EXCEPT !.owner = NoInv] ELSE cont
  /\ ckpt' = IF ckpt = w THEN NoInv ELSE ckpt
  /\ runs' = [runs EXCEPT ![w] = NoRun]
  /\ pages' = [pages EXCEPT ![w] = [p \in Page |-> NoPage]]
  /\ aged' = aged \ {w}
  /\ holders' = holders \ {w}
  /\ met' = [v \in Invocations |-> IF v = w THEN {} ELSE met[v] \ {w}]
  /\ abandoned' = abandoned \ {w}
  /\ fence' = [fence EXCEPT !.readers = @ \ {w}]

LiveInit == Init /\ calm = FALSE

LiveNext ==
  \/ (\E w \in Invocations : Step(w) \/ Recall(w)) /\ UNCHANGED calm
  \/ Time /\ UNCHANGED calm
  \/ ~calm /\ (\E w \in Invocations : Fault(w)) /\ UNCHANGED calm
  \/ ~calm /\ calm' = TRUE /\ UNCHANGED vars

\* EventBridge keeps calling and a call that is not killed takes its next step;
\* time passes.  Strongly fair: a request that is out ends by an answer or by a
\* transport timeout rather than by heartbeats for ever, and a league that could
\* be admitted again and again is not turned away every time.
Proceed(w) == ProviderAnswers(w) \/ ProviderFails(w) \/ Admitted(w)

Fairness ==
  /\ \A w \in Invocations :
       /\ WF_liveVars((Step(w) \/ Recall(w)) /\ UNCHANGED calm)
       /\ SF_liveVars(Proceed(w) /\ UNCHANGED calm)
       /\ WF_liveVars(RunAges(w) /\ UNCHANGED calm)
  /\ WF_liveVars(LeaseRunsOut /\ UNCHANGED calm)
  /\ WF_liveVars(AmbiguityLapses /\ UNCHANGED calm)
  /\ WF_liveVars(calm' = TRUE /\ UNCHANGED vars)

LiveSpec == LiveInit /\ [][LiveNext]_liveVars /\ Fairness

\* A recorded ambiguity does not fence the league for ever: the ceiling lets a
\* later call remove it.
AmbiguityReleased == cont.amb # "none" ~> cont.amb = "none"

\* A run past its age ceiling that has committed no evidence does not hold the
\* league for ever: some later call abandons it, or the run gets somewhere.
StaleRunReleased ==
  \A r \in Invocations :
    cont.run = r /\ r \in aged /\ ~runs[r].evid ~> cont.run # r \/ runs[r].evid

\* The league gets out of whatever an earlier invocation left it in.
LeagueRecovers == AmbiguityReleased /\ StaleRunReleased

=============================================================================
