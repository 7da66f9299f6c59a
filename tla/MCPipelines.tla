---------------------------- MODULE MCPipelines -----------------------------
(***************************************************************************)
(* The scheduled pipelines behind the provider's data on small instances:  *)
(* the three landing streams (CatalogLanding, EventLanding, OddsLanding),  *)
(* the walk of upcoming events (EventWalk) with one worker at a time, as   *)
(* its FIFO group has it, ResultGrading and OpportunityLifecycle.  They    *)
(* share no row; a behaviour is a behaviour of one of them, chosen at its  *)
(* start, with the others at rest.                                         *)
(***************************************************************************)
EXTENDS Naturals, Sequences

CONSTANTS None, MaxSweeps
CONSTANTS CatalogRows, Snapshots, TrueSnapshot, SnapshotRows, HasPlan, Chunk, CatalogFaults
CONSTANTS Leagues, EventRows, LeagueOf, Catalogs, PlanOf, PageSize, MaxPartitions, EventFaults
CONSTANTS OddsCursors, Initial, End, OddsRows, OddsFeed, OddsFaults
CONSTANTS Workers, Cursors, WalkEvents, Start, Terminal, Feed, MaxPages, WalkFaults, MaxBootstraps
CONSTANTS c1, c2, e1, e2, s1, s2, off, k1, k2
CONSTANTS Runs, LastPage, Bets, EventOf, MaxResultOf, MaxResult, GradingFaults
CONSTANTS StartsAt, PriceAge, EventAge, Statuses, LastTime, MaxCandidates, LifeFaults

VARIABLES stream, cp, rec, inv, sweeps, faults, claims, catalog, walked, refused, paid
VARIABLES position, outbox, fingerprint, fence, queue, sent, walker
VARIABLES feed, version, history, exact, current, grades, grade, checkpoint, run, settled
VARIABLES now, event, persisted, head, rank, work, retired

landingVars == <<cp, rec, inv, sweeps, claims, catalog, walked, refused, paid>>
walkVars    == <<position, outbox, fingerprint, fence, queue, sent, walker>>
gradingVars == <<feed, version, history, exact, current, grades, grade, checkpoint, run, settled>>
lifeVars    == <<now, event, persisted, head, rank, work, retired>>
vars == <<stream, faults, landingVars, walkVars, gradingVars, lifeVars>>

\* The catalog that is off has no event plan.
MCSnapshotRows == [s \in {s1, s2, off} |->
                CASE s = s1 -> <<1, 2, 3>>
                  [] s = s2 -> <<3, 1, 4>>
                  [] OTHER  -> <<1, 4>>]
MCHasPlan == [s \in {s1, s2, off} |-> s # off]
\* Catalog c1 groups two leagues in one partition of two pages; in c2 the
\* partition of two pages is a single league and the last one.
MCLeagueOf == <<1, 2, 2, 2, 3>>
MCPlanOf == [c \in {c1, c2} |-> IF c = c1 THEN <<{1, 2}, {3}>> ELSE <<{3}, {2}>>]
\* A chain of two pages that share a row, and a cursor that leads back into it.
MCOddsFeed == [p \in {Initial, k1, k2} |->
                  CASE p = Initial -> [rows |-> {1, 2}, next |-> k1]
                    [] p = k1      -> [rows |-> {2, 3}, next |-> End]
                    [] OTHER       -> [rows |-> {}, next |-> k1]]
\* Three pages; the last one is empty.
MCFeed == [p \in {Start, c1, c2} |->
              CASE p = Start -> [events |-> {e1}, next |-> c1]
                [] p = c1    -> [events |-> {e2}, next |-> c2]
                [] OTHER     -> [events |-> {}, next |-> Terminal]]
\* Both bets are on event 1, whose result is corrected; event 2 has no result yet.
MCEventOf == <<1, 1>>
MCMaxResultOf == <<2, 0>>

C == INSTANCE CatalogLanding WITH
        Rows <- CatalogRows, Truth <- TrueSnapshot, RowsOf <- SnapshotRows,
        MaxFaults <- CatalogFaults
E == INSTANCE EventLanding WITH Rows <- EventRows, MaxFaults <- EventFaults
O == INSTANCE OddsLanding WITH
        Rows <- OddsRows, Cursors <- OddsCursors, Feed <- OddsFeed, MaxFaults <- OddsFaults
W == INSTANCE EventWalk WITH
        Events <- WalkEvents, MaxFaults <- WalkFaults, checkpoint <- position, work <- walker
G == INSTANCE ResultGrading WITH MaxFaults <- GradingFaults
H == INSTANCE OpportunityLifecycle WITH MaxFaults <- LifeFaults

ASSUME PipelinesAssumption ==
    /\ C!CatalogAssumption /\ E!LandingAssumption /\ O!OddsAssumption
    /\ W!WalkAssumption /\ G!GradingAssumption /\ H!LifecycleAssumption

NotCatalog   == claims = {} /\ walked = {} /\ refused = FALSE /\ paid = {} /\ catalog = None
LandingInit ==
    \/ stream = "catalog" /\ C!Init /\ NotCatalog
    \/ stream = "events" /\ E!Init /\ paid = {}
    \/ stream = "odds" /\ O!Init /\ catalog = None /\ walked = {} /\ refused = FALSE
LandingRests == O!Init /\ NotCatalog
LifeRests    == H!Init /\ head = None
Init ==
    /\ W!Init /\ G!Init
    /\ \/ LandingInit /\ LifeRests
       \/ stream \in {"upcoming", "grading"} /\ LandingRests /\ LifeRests
       \/ stream = "opportunity" /\ LandingRests /\ H!Init

Others == UNCHANGED <<stream, walkVars, gradingVars, lifeVars>>
LandingCatalog(A) ==
    stream = "catalog" /\ A /\ Others /\ UNCHANGED <<claims, catalog, walked, refused, paid>>
LandingEvents(A) == stream = "events" /\ A /\ Others /\ UNCHANGED paid
LandingOdds(A) == stream = "odds" /\ A /\ Others /\ UNCHANGED <<catalog, walked, refused>>
Walking(A)  == stream = "upcoming" /\ A /\ UNCHANGED <<stream, landingVars, gradingVars, lifeVars>>
Grading(A)  == stream = "grading" /\ A /\ UNCHANGED <<stream, landingVars, walkVars, lifeVars>>
Expiring(A) == stream = "opportunity" /\ A /\ UNCHANGED <<stream, landingVars, walkVars, gradingVars>>

Next ==
    \/ LandingCatalog(C!Next)
    \/ LandingEvents(E!Next)
    \/ LandingOdds(O!Next)
    \/ Walking(W!Next)
    \/ Grading(G!Next)
    \/ Expiring(H!Next)

\* The schedules invoke the workers again and again, the queue delivers what nobody has
\* acknowledged, and time passes.
Fairness ==
    /\ WF_vars(LandingCatalog(C!Landing))
    /\ WF_vars(LandingEvents(E!Landing))
    /\ WF_vars(LandingOdds(O!Landing))
    /\ \A w \in Workers : WF_vars(Walking(W!Step(w)))
    /\ WF_vars(Walking(\E n \in DOMAIN outbox : W!LeaseRunsOut(n)))
    /\ \A n \in W!Epochs \ {0} :
          SF_vars(Walking(n \in queue /\ \E w \in Workers : W!Receive(w, n)))
    /\ \A w \in Runs : WF_vars(Grading(G!Work(w)))
    /\ WF_vars(Expiring(H!Tick))
    /\ WF_vars(Expiring(H!Sweep))

Spec == Init /\ [][Next]_vars /\ Fairness

\* Rows, checkpoints and runs are of their kind.
TypeOK ==
    /\ stream = "catalog" => C!TypeOK
    /\ stream = "events" => E!TypeOK
    /\ stream = "odds" => O!TypeOK
    /\ stream = "upcoming" => W!TypeOK
    /\ G!TypeOK /\ H!TypeOK

\* A sweep that is published is one snapshot of the catalog with the plan of its rows, every
\* row that the walk of events or odds counted, under positions that were each paid for once;
\* and the worker never writes a checkpoint its own store refuses, which would stop the stream.
LandedIsWhole ==
    /\ stream = "catalog" => C!CatalogIsOneSnapshot /\ C!PlanMatchesRows
    /\ stream = "events" => E!PublishedIsWhole /\ E!NoCheckpointRefused
    /\ stream = "odds" => O!OddsAreWhole /\ O!PaidUnderOnePage

\* A sweep of events completes only when it has reconciled every league of its catalog.
PublishedCoversCatalog == [][stream = "events" => E!CoversCatalog]_vars

\* Whatever its stream, what a sweep writes is read only when it is published, at once
\* (docs/runbooks/sharpapi.md: "the switch is one conditional checkpoint write"): the streams
\* implement Publication.
P == INSTANCE Publication WITH
        Rows <- CatalogRows \cup EventRows \cup OddsRows,
        generation <- IF cp = None THEN 0 ELSE IF cp.last = None THEN 0 ELSE cp.last.sweep,
        view <- IF stream = "catalog" THEN C!Current
                ELSE IF stream = "events" THEN E!Current ELSE O!Current
PublishesGenerations == P!Spec

\* Current results have their exact rows and are never replaced by one of less authority, the
\* grades of a bet are one chain of rising authority, and what a run went past stays graded.
GradesStand ==
    /\ [](G!CurrentIsExact /\ G!GradesAreAChain /\ G!SettledStaysGraded)
    /\ G!AuthorityRises

\* Readers find the head by rank as it stands; it opens only on the event it is bound to,
\* before its start, and never comes back with a candidate it had given up.
OpportunitiesEnd == []H!RankFollowsHead /\ H!OpensOnLiveEvent /\ H!NeverRevived

\* Under its schedule every pipeline gets there: a sweep of events is published when the
\* provider settles, a continuation the queue has taken is walked past, bets are graded with
\* the result the provider settles on, an overdue head is moved on and an active one ranked.
Pending ==
    \/ stream = "events" /\ E!Running
    \/ stream = "upcoming" /\ ~W!AnswerChanged /\ \E n \in sent : ~W!Past(n)
    \/ stream = "grading" /\ ~(G!Stuck \/ G!AllGraded)
    \/ stream = "opportunity" /\ (H!Overdue \/ H!Unranked)
PipelinesConverge == []<>~Pending
=============================================================================
