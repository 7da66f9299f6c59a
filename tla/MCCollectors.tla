----------------------------- MODULE MCCollectors -----------------------------
(***************************************************************************)
(* The paid collectors of the live-odds rule on small instances: how the   *)
(* account collector leads the shared row back to health                   *)
(* (AccountRateRecovery), and how each collector walks its pages under its *)
(* continuation row (Collector).  A behaviour is a behaviour of one of     *)
(* them, chosen at its start, with the other at rest.                      *)
(***************************************************************************)
EXTENDS Collector

CONSTANTS Landings, Closings, Collectors, Limit, LandingReserve, ClosingReserve, CollectorReserve

VARIABLES part, row, current, proc, credit, unsent, unreserved, reserved, forgotten, refused

accountVars == <<row, current, proc, credit, unsent, unreserved, reserved, forgotten, refused>>
walkVars == <<kind, rows, inv, fresh, waits>>
allVars == <<part, calm, accountVars, walkVars>>

A == INSTANCE AccountRateRecovery WITH fresh <- current

ASSUME CollectorsAssumption ==
    /\ A!KindsAssumption /\ A!LimitAssumption /\ A!ReserveAssumption
    /\ CollectorAssumption

MCInit ==
    /\ part \in {"account", "walk"} /\ A!LiveInit /\ Init
    /\ part = "account" => kind = "account"

Account(Act) == part = "account" /\ Act /\ UNCHANGED <<part, walkVars>>
Walk(Act) == part = "walk" /\ Act /\ UNCHANGED <<part, accountVars>>

MCNext ==
    \/ Account(A!LiveNext)
    \/ Walk(Next)

\* EventBridge keeps calling and a call that is not killed takes its next step, windows begin,
\* leases and ambiguities run out, runs age, and some day nothing is killed.  Strongly fair:
\* an account collection that is possible again and again is not refused, left unanswered or
\* overtaken by another writer every single time.
Fairness ==
    /\ WF_allVars(~calm /\ calm' = TRUE /\ UNCHANGED <<part, accountVars, walkVars>>)
    /\ \A p \in Collectors :
        /\ WF_allVars(Account(A!CollectorStep(p) \/ A!Request(p)) /\ UNCHANGED calm)
        /\ SF_allVars(Account(A!Taken(p)) /\ UNCHANGED calm)
        /\ SF_allVars(Account(A!Answered(p)) /\ UNCHANGED calm)
        /\ SF_allVars(Account(A!Published(p)) /\ UNCHANGED calm)
    /\ WF_allVars(Account(A!NextWindow) /\ UNCHANGED calm)
    /\ WF_allVars(Account(A!ProbeLapses) /\ UNCHANGED calm)
    /\ \A w \in Slots : WF_allVars(Walk(Step(w)))
    /\ WF_allVars(Walk(LeaseLapses)) /\ WF_allVars(Walk(AmbiguityLapses)) /\ WF_allVars(Walk(RunAges))

MCSpec == MCInit /\ [][MCNext]_allVars /\ Fairness

\* The account comes back and so does its balance, whatever a landing run left it in; and
\* neither an ambiguity, where its window is looked at, nor an aged run of splits holds a
\* collector for ever.
Recovers ==
    /\ []<>~(part = "account" /\ row.health # "ok")
    /\ []<>~(part = "account" /\ ~row.known)
    /\ []<>~(part = "walk" /\ HeldBack)
=============================================================================
