# TLA+ models of find-the-edge

find-the-edge is a TypeScript monorepo (AWS Lambda, DynamoDB, SQS, Step
Functions) that collects sports odds, derives evidence and opportunities from
them, and runs scouting and paper-pick jobs over the result. Almost every part
has the same shape: short-lived invocations that share rows, may be killed
between any two calls, and protect themselves with conditional writes, leases
and receipts. That is what is modelled here. Arithmetic, parsing and
presentation are tested well by unit tests; the order in which three Lambdas
meet in one row is not.

Paths below are relative to `src/`. `PROJECT.json` gives the source lines of
every definition (`map`), the runs, a mutant for every checked property, the
hazards with the properties that cover them, and the theorems.

Contents: [inventory](#inventory) · [plan](#plan) ·
[odds league run](#odds-league-run) · [account rate window](#account-rate-window) ·
[collectors](#collectors) · [scouting jobs](#scouting-jobs) ·
[access](#access) · [paper picks](#paper-picks) · [upcoming events](#upcoming-events) ·
[landing](#landing) · [results and opportunities](#results-and-opportunities) ·
[runs](#runs) · [disagreements](#disagreements-between-the-code-and-its-documentation) ·
[proofs](#proofs) · [limits](#what-is-not-modelled)

## Inventory

| Part | Where | State it keeps | Operations | Modelled |
| --- | --- | --- | --- | --- |
| Odds control-plane store | `packages/database/src/odds-control-plane.ts` | RUN, ATTEMPT, PAGE, CHECKPOINT, HEALTH, CONTINUATION, GAP rows | put under a version, claim a continuation, seal/mark/commit a page, reserve/probe/reconcile/block the account's balance | partly |
| Odds league runner | `apps/workers/src/odds-control-plane.ts` | none of its own: one call's locals | `runOddsLeague`: resume, elect, page loop, checkpoint, failure | partly: not the probe of an unhealthy league's row |
| Production collectors | `apps/workers/src/production-odds-control-plane.ts`, `live-odds-lambda.ts` | continuation, pages and checkpoint per collector, account HEALTH row | schedule, splits and account collection, closing capture, fast lane | partly: the walks and the account's row |
| Account coordination | `apps/workers/src/provider-landing.ts` (l. 300–560), `provider-landing-lambda.ts` | account HEALTH row | `reserveOnce`/`reserve`, window recovery by a probe, reconcile, pause, verdict | partly: not the per-league rows |
| Provider landing | `provider-landing.ts`, `packages/database/src/provider-landing-repository.ts` | landed records, positions, checkpoints | sweep catalog, events and odds into a slot and publish it | partly |
| Scouting jobs | `packages/database/src/*scouting-job-repository.ts`, `packages/domain/src/scouting-job.ts` | JOB, ATTEMPT, OUTBOX, REQUEST receipt, ACTIVE lock | create, claim, finish, retry, complete with report, mark published | partly: not mark published |
| Scouting pipeline | `scouting-outbox-lambda.ts`, `scouting-dispatcher-lambda.ts`, `scouting-workflow.ts`, `foundation.ts` l. 1100–1390 | stream, FIFO queue, Step Functions execution | publish, dispatch, run, finalize | callers only |
| Upcoming-event ingestion | `upcoming-event-orchestrator.ts`, `dynamodb-event-ingestion.ts` | checkpoint, fingerprints, fences, outbox; identity claims, events, revisions, projections | walk a window page by page, ingest a report, bootstrap an event | partly |
| Results and paper grading | `completed-result-orchestrator.ts`, `dynamodb-result-repository.ts`, `paper-grading.ts` | results and corrections, grades | collect, correct, grade, regrade | partly |
| Paper pick runs | `dynamodb-paper-pick-run-repository.ts`, `pick-evaluation.ts`, `paper-pick-scheduler*.ts` | generation, runs, items with leases, budget, slots, evaluations | create/claim/renew/finish an item, reserve cost, release a slot; `reconcile` of the cost, which nothing calls | partly: not `reconcile` |
| Opportunities | `packages/domain/src/opportunities`, `packages/database/src/opportunities` | candidates, a head with a lifecycle, a rank row | generate, reduce, expire, rank | partly |
| Identity, entitlement, billing | `identity-repository.ts`, `identity-handler.ts`, `entitlement-repository.ts`, `billing-handler.ts` | one-time codes, budgets, sessions, subscriptions | issue/verify a code, sign out, apply a webhook, check out | partly |
| Admin access | `admin-access-repository.ts` | directory, grants, audits, login receipts | first login, grant, revoke | yes |
| Board and read projections | `games-repository`, board projector, watchlist, cohorts | derived rows | project, read | no |
| Odds mathematics | `packages/odds`, `packages/domain` | none | de-vig, edges, closing-line value | no |
| Provider adapters | `packages/providers` | none | parse and normalise payloads | no |
| Web application, API, infrastructure | `apps/web`, `apps/api`, `infra/cdk` | none | routing, presentation, deployment | no |

How they interact: EventBridge calls the live-odds Lambda every minute; it runs
the collectors, `runOddsLeague` for each due league and the closing capture.
Provider landing runs three times a day in a Lambda of its own. All of them pay
for requests out of one SharpAPI account, whose balance is one HEALTH row.
Evidence from committed pages feeds the board, opportunities and paper picks. A
user's scouting request creates a job; DynamoDB's stream leads it through a
FIFO queue into a Step Functions execution, whose worker and finalizer write
the job back.

What makes each part hard, and what makes it correct:

* **Odds league runner and store.** Overlapping invocations, a lease as long as
  the Lambda's timeout, a paid request whose outcome may be unknown, a kill
  between any two writes. Correct: nothing is paid for twice, nothing
  incomplete is checkpointed, evidence is never lost or published by two, and
  no league is stuck for ever.
* **Account coordination.** Three kinds of consumer with different code paths
  over one balance; answers that arrive after the window they speak of; a probe
  whose holder dies; verdicts (429, 401) recorded late. Correct: the balance is
  never overstated, landing leaves live odds its share, one probe at a time,
  the account recovers.
* **Scouting jobs and pipeline.** At-least-once delivery at three hops, a
  finalizer racing its own worker, retries of attempts that may still run.
  Correct: one active job per event, the lock belongs to the current attempt,
  no report from an attempt that is no longer current, every job ends.
* **Paper pick runs.** Item leases that run out under a running worker; budget
  and slots reserved by one and released by another. Correct: spend never
  exceeds the budget, slots never leak or go negative.
* **Provider landing, upcoming events.** Partial batches, positions claimed by
  two runs, checkpoints ahead of records. Correct: a checkpoint only covers
  landed records.
* **Results and grading, opportunities.** Corrections after grading, expiry
  racing confirmation. Correct: a grade follows the latest result; a settled
  opportunity stays settled.
* **Identity, billing, admin.** Replayed webhooks and codes, rate limits at
  their edge. Correct: one code is used once; the latest billing event wins; a
  revoked grant stays revoked.

## Plan

Every module takes its bounds as CONSTANTS with named assumptions and uses no
RECURSIVE operator, so that it can be proved about. Written so far:

| Part | Modules | Proofs |
| --- | --- | --- |
| odds league | `OddsLeagueRun`, `OddsLeagueRecovery`, `MCOddsLeagueRun` | `OddsLeagueRunProofs` |
| account | `AccountRateWindow`, `AccountRateRecovery`, `MCAccountRateWindow` | `AccountRateProofs` |
| collectors | `Collector`, `MCCollectors` (with `AccountRateRecovery`) | `CollectorProofs` |
| scouting jobs | `ScoutingJob`, `MCScoutingJob` | `ScoutingJobProofs` |
| access | `SignIn`, `AdminAccess`, `Billing`, their sum `Access`, `MCAccess`, `MCBilling` | `AccessProofs` |
| paper picks | `PaperPickRun`, `MCPaperPickRun` | `PaperPickProofs` |
| upcoming events | `CursorWalk` (abstract), `EventWalk`, `EventStore`, `MCEvents` | `EventWalkProofs` |
| landing | `Publication` (abstract), `CatalogLanding`, `EventLanding`, `OddsLanding`, summed in `MCPipelines` | `PipelineProofs` |
| results, opportunities | `ResultGrading`, `OpportunityLifecycle`, summed in `MCPipelines` | `PipelineProofs` |

Components that share no row are checked together as a *sum*: `Access`,
`MCCollectors`, `MCEvents` and `MCPipelines` choose at the start whose behaviour
it is and leave the others at rest. A sum has a reachable state for each of its
components' states, no product of them; and each property keeps its meaning,
because the components really do not meet.

Left, in this order:

1. `ScoutingPipeline`: outbox stream, FIFO queue, execution and finalizer around
   `ScoutingJob`, and `EventLock`, the abstract lock (one holder per event,
   released by its holder's end) that the job repository implements.
2. `LeaseFence`, an abstract "one requester, one publisher" that
   `OddsLeagueRun` and `Collector` both implement where no lease is outlived, and
   `VersionedRow`, a row whose version restarts when it is created again.
3. Pure algorithms of `packages/odds` against reference definitions over small
   grids.

## Odds league run

`OddsLeagueRun` is one league: any number of calls of `runOddsLeague`
(`apps/workers/src/odds-control-plane.ts`) over the league's rows in the store.

| Variable | Code |
| --- | --- |
| `cont` | the CONTINUATION row: run, owner, whether `leaseUntil` is ahead, `ambiguousUntil`, `evidenceCommitted` |
| `runs`, `pages`, `ckpt` | RUN rows, sealed PAGE rows with intent and commit markers, the CHECKPOINT's run |
| `inv` | the locals of each call, with the continuation as it last read it |
| `aged`, `holders`, `met` | what time has done: old runs, who was alive when the lease was extended or a call began |
| `abandoned`, `fence` | history for the properties |

One action is one store or provider call with the local code up to the next;
anything may happen between two. Reading a row and putting it back under the
version just read is one step, because the put fails if the version moved, and
a failing put is what `StoreThrows` and `Crash` stand for. `Recover` covers the
resumption of an earlier run (promotion of evidence, cursor restart, ambiguity
ceiling, fence), `Elect` cadence, health, quota and the claim, `Fetch` and
`Heartbeat` lease check, paid request, seal and recorded ambiguity, `Commit` the
evidence markers, `Finish` the checkpoint and the failure path. A page's content
is whether it holds evidence; gaps and items are a nondeterministic choice. An
invocation stands for its own owner id and for the run it may start. Runs are
the production wiring: `committer.commit` returns false, cursor restart is on.

Time is what the code can tell from it. `StallPastLease = FALSE` is the
deployment: `infra/cdk/src/foundation.ts` l. 606–698 gives the live-odds Lambda a
timeout of five minutes, the length of a lease, and a reserved concurrency of 2,
so a lease ends only after those alive at its last extension have ended. `TRUE`
lets a call sleep through its lease, which a clock skew or a longer timeout
would allow. Two invocations do overlap in the deployment: the retry of a
scheduled call and a manual one are not in the queue's message group.

`OddsLeagueRecovery` calls ended invocations again for ever, under identities no
row refers to any more, and has the liveness properties. Its fairness: every call
that is not killed takes its next step, runs age, leases and ambiguities lapse
(weak); a paid request ends in an answer or a transport timeout and a league that
is admissible again and again is not turned away every time (strong, `Proceed`);
eventually nothing more is killed or throws (`calm`). The one-minute schedule,
the transport timeout and DynamoDB's availability justify them; nothing is
assumed of the order in which invocations interleave.

Not in it: the probe of an unhealthy league's row (its own continuation and
quota), gap and metric rows, and what the committer publishes.

## Account rate window

`AccountRateWindow` is the HEALTH row `sharpapi:account:account` and everyone who
spends from it.

| Variable | Code |
| --- | --- |
| `row` | health class, `retryAt`/`cooldownUntil`, `rateWindow` (remaining, resetsAt, probeUntil) |
| `fresh` | consumers whose last read still has the row's version: the version comparison, without numbers |
| `proc` | one consumer between two calls: position, cost, clock as read, the window its reservation came from, the answer |
| `credit` | what SharpAPI will still grant in this window |
| `unsent`, `unreserved` | history of the window: reserved and not yet sent, charged without a reservation in it |
| `reserved`, `forgotten` | history of the window: reserved altogether, and what of it a collector's answer has made the row forget |
| `refused` | history: the provider or the configuration has refused the account |

`Landings` follow `reserveOnce`/`reserve` and the window recovery of
`provider-landing.ts` and `provider-landing-lambda.ts`; `Closings` the closing
capture of `live-odds-lambda.ts`; `Collectors` the account collector of
`production-odds-control-plane.ts`, which reserves through
`reserveQuotaAttempt` and publishes with a plain `putHealth`. `Reserve`,
`ClaimProbe`, `CompleteProbe`, `Reconcile`, `Block` and `Terminate` are the
store's operations of the same names. The provider grants, limits, refuses,
answers without rate headers (`NoAnswer`) or loses the answer.

The collector is the one consumer whose answer is not merged: its put replaces
the row it has just read, whatever was reserved since its request left. So the
properties say what holds with it. The row is out by at most `unreserved` and
`forgotten`, and `forgotten` is zero until a collector writes (`NeverOverstated`,
`LandingSparesLive`); and what is spent or refused is lifted by nobody but a
collector over the row as it is (`Overwrites`, in `RefusalsStand`).

Windows are relative: "past", "now", "next"; `NextWindow` ages every stamp by
one. A probe's lease outlives its window and not the next. The catalog stream
costs two requests, every other one. The ten-second guard before a reset and
`attemptedRecoveryKeys` appear as choices: each caller may recover at most once
(`second`), and close to a window's end may do so even when the balance is
known. The row exists from the start; the first collection creates it. Old rows
without `rateWindow`, per-league rows and the TTL of unhealthy rows are left out.

`AccountRateRecovery` asks whether the row recovers with nobody's help but the
account collector's, which is due every five minutes: landing runs begin three
times a day only, so after `calm` none begins. Fairness: the collector is called
and continues (weak); a collection that is possible again and again is not
refused, left unanswered or overtaken every single time (strong on `Taken`,
`Answered`, `Published`); windows pass. Without the strong part the property is
false for a dull reason: a provider that never answers. `MCCollectors` runs it beside
`Collector`.

## Collectors

`Collector` is one paid walk of `runProductionOddsControlPlane`: the schedule of a
league, the account, or the betting splits of a league (`kind` says which). All
three elect an invocation by a continuation row, look a page up, pay for it,
seal it, use it, mark it committed and go on.

| Variable | Code |
| --- | --- |
| `cont` | CONTINUATION row: run, owner, lease, recorded ambiguity, age |
| `ckpt` | CHECKPOINT row of schedule and account: what it says and whether the next walk is due |
| `pages` | PAGE rows of each run, with the conflict page of a schedule |
| `inv`, `fresh` | the locals of each invocation; who has read the checkpoint's current version |
| `waits`, `calm` | whose end a lease or ambiguity waits for; nothing is killed any more |

The kinds differ where the code does: a schedule stops at any ambiguity and
seals its conflicts, the account overwrites its checkpoint, splits keep none and
abandon an old run. A Lambda's timeout is as long as a lease, so the renewals
during a request change nothing and are not steps. A splits page beyond the
first belongs to the history; the offset page comes first. Reservations and
answers on the account's row are `AccountRateWindow`'s. Health rows per
capability, attempts, gaps and the fast lane are left out.

## Scouting jobs

`ScoutingJob` is the rows of one requester's jobs for one version of one event,
and everyone who calls the repository about them.

| Variable | Code |
| --- | --- |
| `receipt` | the REQUEST row of each idempotency key: what it was used for, the job, the expected version |
| `marker` | the lock row of the semantic digest: active, or the tombstone of the attempt that ended last |
| `job`, `attempt`, `outbox` | JOB, ATTEMPT and OUTBOX rows with status, version, attempt count, failure code |
| `binding`, `head` | the report version a job was completed with, and the latest version of the event's report |
| `current` | whether the event's pointer still shows the version the jobs are for |
| `proc` | one call between two reads or transactions: position, what it read, what it will answer |

`Clients` are requests of `scouting-handler.ts` (`StartCreate` and `StartRetry`,
then `createJob` or `retryJob` with the paths after a lost transaction),
`Workers` are invocations of `scouting-workflow.ts` (claim, run, persist the
report, or report a failure), `Finalizers` the state machine's failure branch
and the dispatcher's recovery. One action is one read or one transaction with
the code up to the next. `Promise.all` of two reads is two actions in either
order. A transaction's conditions are one operator (`Creatable`, `Retriable`,
`Claimable`, `Completable`, `Fenced` and `Mine`), its writes the `IF` branch,
the code after a lost transaction the `ELSE`. `Abort` stops a call anywhere, its
committed writes included; the commands of a worker or finalizer may be
delivered any number of times, to any of them, as soon as the outbox record
exists.

Keys stand for jobs, since a job's id is a digest of key and command, and
numbers for attempts. All jobs here have one semantic digest and so one lock;
jobs of other digests only meet these in the report, which `ForeignReport` adds
to. Abstracted: record validation; the contents of the report (whether the
material is the same is a choice); the count of report conflicts, any of which
may be the last allowed; the event that is no longer scheduled, a terminal code
of its own that nothing distinguishes from a changed version. Left out: row
expiry (`expiresAt`), the status `cancelled`, which nothing sets, and
`markOutboxPublished`, which belongs to the pipeline.

## Access

`Access` is the sum of three modules whose calls all overlap, end anywhere and
are retried.

* `SignIn`: one telephone number. `challenge`, `account`, `spent` are the OTP row,
  the account's token version and the two request budgets; `codes`, `stored`,
  `sent`, `opened`, `signedOut` record what happened to each code and token;
  `call` is a request between two store calls of `identity-handler.ts`. Time runs
  in resend windows: the code compares instants with them and with a challenge's
  life, a few windows long. A budget is the stricter of the number's and the
  source's.
* `AdminAccess`: `directory`, `identity`, `mapped`, `evidence`, `owner` are the rows
  a first login enters in one transaction, `grant` and `audits` those of an
  operator's mutation, `answers` what was answered as done, `task` the calls. The
  parallel reads of a login are taken one by one in any order; the two reads of
  `item()` are one, and one operator stands for all.
* `Billing`: `record` and `pointers` are the ENTITLEMENT row and the rows that lead
  from a Stripe customer to the account; `made`, `remembered`, `invited`,
  `second`, `emitted` are Stripe, modelled from how the code uses it: it answers
  `createCustomer` with the same customer as long as it remembers the idempotency
  key (`billing-handler.ts` l. 400–402), emits events only about customers with a
  checkout session, stamps them with a second that does not go back, and delivers
  each any number of times in any order. Events of one second are applied in the
  order they arrive, as the code has it.

`MCBilling` is `Billing` with what the webhook's comment promises, which the code
does not keep (see [disagreements](#disagreements-between-the-code-and-its-documentation)).

## Paper picks

`PaperPickRun` is one generation: the invocations of the scheduler for one
`scheduledFor` (the rule's call, Step Functions' two retries, a replay from the
failure queue) over the generation's row, its runs and their items.

| Variable | Code |
| --- | --- |
| `admitted`, `admissions`, `calls`, `conc` | EVENT rows and the generation's budget and slots |
| `run`, `item` | RUN and ITEM rows: manifest, state, owner, lease, slot |
| `claim`, `evaluated` | EVALUATION_TERMINAL rows and stored evaluations, by the odds among their inputs |
| `inv`, `at` | invocations between two calls, and their worker loops by item |

`Discover` covers candidates, admission, run and items; `Work` one item from claim
to release; `CheckpointRun` the count of the run. All money, token and call
ceilings move together by one reservation at a time, so one counter stands for
them. Kill switch, allowlist and eligibility are choices of every check. Leases
run out whenever they like: the Lambda may live two minutes, an item's lease one.
A persist that applied and whose reply was lost is a kill after it. `Reserve` is
what the transaction of `reserve` says; as written it names the item's row in a
condition check and in an update (`dynamodb-paper-pick-run-repository.ts`
l. 449–511), which DynamoDB refuses in one transaction, so the code may do less
than the model here.

## Upcoming events

`EventWalk` is the checkpointed walk of one window. Message 0 of its queue is the
scheduler's command, message n the continuation of epoch n. `checkpoint`,
`outbox`, `fingerprint` and `fence` are rows of the store, `queue` and `sent` the
FIFO queue, `work` the workers between two calls. A worker fetches a page, fences
its events, records the page's fingerprint, ingests the events and commits
checkpoint, cursor marker and the outbox row of the next continuation in one
transaction, compared with the copy of the checkpoint it read; then it claims
that row itself or publishes it. Claims of an outbox row run out while their
holder is slow (lease 120 s, visibility 180 s). `CursorWalk` says what this
promises: pages in order, each once, no cursor followed twice, no event in two
pages.

`EventStore` is `ingestEvent` and `bootstrapCanonicalEvent`: `rows` holds identity
claims, events, provider revisions, bindings and projections, each with a
version, `call` the callers between their reads and the one transaction they end
in. A call begins with its first read. `repaired` is history. Scheduled-event
reconciliation, aliases, near matches and the memory store are left out.

`MCEvents` checks both, two workers and two callers at a time.

## Landing

A sweep of catalog, events or odds fills the slot that readers do not look at and
publishes it by one conditional write of the stream's checkpoint. One invocation
runs at a time (reserved concurrency 1), stops at its deadline or dies between
any two calls, and the next one goes on from the checkpoint; so version
conditions never fail. `cp` is the checkpoint, `rec` the landed rows with the
sweep and page they were landed under, `claims` the POSITION rows of the current
sweep, `inv` the invocation.

* `CatalogLanding`: the snapshot is sealed in the checkpoint with the event plan
  derived from it and written in chunks; another snapshot restarts the sweep.
* `EventLanding`: a plan of partitions from the catalog, each walked by offset
  pages; a partition the provider rejects is halved or deferred, a total that
  changes restarts the sweep, and the catalog may be published anew meanwhile.
* `OddsLanding`: pages behind opaque cursors, each position claimed for its page
  before the paid request; a total the rows seen do not agree with restarts the
  sweep (`MismatchTotal`, a choice, as the total is the provider's).

`Publication` is what a reader may rely on: what is read changes only with a new
generation, at once. Records and their identity rows are one; evidence rows,
warnings, metrics, plans that do not fit the capacity and a catalog whose coverage
cannot be told (`eventPlanAvailable`) are left out; the published catalog is
records of the sweep, quarantined ones, which readers skip, included; a pause is
a flag that time clears; account-rate calls are `AccountRateWindow`'s.

## Results and opportunities

`ResultGrading`: `feed` and `version` are the provider's results and the canonical
event; `history`, `exact`, `current` the result rows; `grades`, `grade` the grade
rows of each bet; `checkpoint` and `run` the runs, which may overlap and share
the checkpoint of their league. A result is named by its place in the provider's
authority order, and a HISTORY or EXACT row by the version of the event it was
observed at: rows keep what they were first written with, and a run goes on with
the row it finds. The two reads before a grade is written are one, since a write
between them throws as a killed run would. Runs are those of the handler when it is enabled; the deployed
schedule is off by default (`foundation.ts` l. 853–899).

`OpportunityLifecycle`: one opportunity bound to version 1 of its event. `event` is
the event's row, whose version moves with whatever refreshes it, `persisted` the
candidates, `head` and `rank` the lifecycle head
and the row readers find it by, `work` a generation run or a sweep between its
reads and its commit, `now` the clock, `retired` history. Sweep cursors, index
lag, lists, the mathematics of ranking and an event without a row (rows of listed
events are not deleted) are left out; a candidate's status is any of the four.

`MCPipelines` is the sum of the landing streams, the walk, grading and lifecycle
under their schedules, and asks whether each gets to its end.

## Runs

Every run ends within five minutes. Deadlock is checked except in `scouting_*`,
`access`, `paper_picks`, `events`, `pipelines` and `billing_overlap`, where calls
or bounds are exhausted and nothing is left to do.

| Run | Bounds | Checks |
| --- | --- | --- |
| `odds_league_deployed` | 3 invocations, 2 at a time, 1 page, no lease outlived | `TypeOK`; one paid request; no sealed page paid for again; one publisher, past no fence; only a stale claim erases the fence |
| `odds_league_stalled` | 2 invocations, 2 pages, leases may be outlived | the checkpoint names complete runs only; sealed pages stand |
| `odds_league_recovery` | 2 slots called for ever, 1 page | a league leaves an ambiguity and a stale run behind |
| `account_shared` | limit 4, reserves 1 and 1; 1 landing with 2 closing captures, or 1 account collector with either | `TypeOK`; the balance is overstated by no more than what nobody reserved and a collector made it forget; landing spares live odds; only a collector over the row it has read undoes what is recorded |
| `collectors` | limit 1, 1 landing, 1 account collector; 2 slots, 4 run ids, 2 pages, 3 kinds | walks are paid once; account, ambiguity and old splits runs recover |
| `scouting_requests` | 2 clients, 3 keys, 1 worker, 1 finalizer, 2 attempts, in two parts | `TypeOK`; job, attempts and outbox agree; retry receipts name the failure that was retried; the lock is the active job's; nothing ended changes |
| `scouting_workers` | 1 client, 1 key, 2 workers, 1 finalizer, 1 attempt, 1 later report | one claim per attempt; completed is bound to a report version of its own |
| `access` | 2 calls of each kind; time 3, 3 codes, 2 wrong guesses; 2 people, 2 keys, 2 grants; 2 customers, 2 events, 2 seconds | `TypeOK`; codes, budgets, sessions, entries and audits; what is paid for; nothing goes back |
| `paper_picks` | 2 invocations, 1 run, 3 events of which 2 are admitted, 2 snapshots, 2 calls, 1 slot | `TypeOK`; slots and budget; one evaluation, ends stand |
| `events` | 2 workers, 3 pages, 2 cursors, 1 fault; 3 calls, 2 at a time, of 2 providers about 2 events and 2 identities, 2 revisions | `TypeOK`; the checkpoint is covered; index, events and projections agree; the walk is a `CursorWalk`; content, bindings and revisions only rise |
| `pipelines` | 2 sweeps; faults: catalog 3, events 2, odds 2, walk 3, grading 1, life 1; 2 grading runs, 2 bets, clock 2, 2 candidates of 4 statuses | `TypeOK`; what is published is whole and covers its catalog; streams implement `Publication`; grades stand; opportunities end; each pipeline gets to its end |
| `billing_overlap` | 2 webhooks, 1 checkout, 3 events | a violated statement, see below |

Why the bounds suffice. *League*: the conflicts are between two that are alive
and what a third, ended one left behind, hence three invocations of which two
overlap; each may resume any earlier run. One page shows election, request and
evidence; resumption in the middle of a walk needs two, which the stalled run
has. That run's `VIEW` drops the history no guard reads when leases do not
matter. *Account*: a behaviour has a cast (`cast`): two
captures race for one balance while the landing probes, or the collector meets a
landing or a capture; what a third consumer adds to those two is a row they find
changed, and the proofs take any number of each kind. A limit of four, of which
the first collection leaves three, is the least at which a request for two is
reserved above the reserve of one, a second reservation follows a first in one
window, and one is cut off by a reserve and one by the provider. The run's `VIEW`
drops locals and versions that nobody will read again, and the ledger that no
property of the cast reads. *Collectors*: the questions about the account are the lease,
the verdicts and who is called, which need neither reserves nor a limit above
one; a walk is resumed in its middle with two pages, and four run ids let both
slots hold one and meet two others. *Scouting*: a transaction is fenced by the
rows it read, so what can go wrong goes wrong between two callers, and what a
third left behind is a row. Two attempts give an earlier and a current one
(`SCOUTING_MAX_ATTEMPTS` is three; the third repeats the second), two creating
keys two jobs, a third key a retry of the same job under another key. One part
of `scouting_requests` creates and the other retries a job that exists. *Access*:
two calls race for one row, the third step (a second resend window, a second
grant, a second event) is what one of them has not seen. *Paper picks*: two
invocations and one slot let one take an item over from the other; the third
event meets the admission limit. *Events*: two cursors are the least whose chain
can lead back into itself, and two events two candidates for one identity.
*Pipelines*: two sweeps use both slots; the faults allow a crash within the
repetition that a first one caused.

Fairness. Liveness is asked only of `LeagueRecovers`, `Recovers` and
`PipelinesConverge`. A schedule invokes again (EventBridge rules every one, five
or sixty minutes), an invocation that is not killed takes its next step, leases
and ambiguities run out, time passes: all weak. Strong: a paid request is not
left unanswered, refused or overtaken every time, and a FIFO queue delivers again
what nobody has acknowledged. After `calm` nothing is killed in the league and
the collectors; the other pipelines have a bounded number of faults. Nothing is
assumed about the order in which invocations interleave.

## Disagreements between the code and its documentation

`billing_overlap` checks what a comment says and finds it violated
(`DeletionStands`; PROJECT.json quotes the lines): the webhook reduces an event on
a copy and saves it under a condition on the fence alone, so a newer event that
was reduced before the subscription's deletion was saved brings the boundary of
access back, though the comment has the conditional write tell the two apart.

The models contain these behaviours too. They are recorded as hazards or left to
the reader, and no run is spent on them:

* League: the age ceiling decides from flags read before the claim, so evidence
  committed in between does not stop it. A fenced league's request is sent again
  before the ceiling by an invocation that read the continuation before the
  ambiguity was recorded. The failure path puts a local
  `evidenceCommitted: false` over the RUN row's latch; the page marker survives
  and a later scan promotes the run again.
* Account: an old answer merged over an unknown balance brings its expired window
  back, and resetting it erases a live probe lease. A collector that loses a race
  for a reservation writes a terminal failure over the shared row
  (`TerminalIsVerdict`), its window replaces the row's and gives back what others
  reserved, and its 429 replaces a terminal verdict. `Recovers` shows that none
  of it lasts.
* Collectors: a schedule's walk stops at any ambiguity, whether its window is
  over or not (`production-odds-control-plane.ts` l. 1438), and a schedule or
  account run whose sealed page cannot be used stays where it is; only splits
  abandon an old run (l. 2746–2771).
* Scouting: the replay of a request that converged on another key's job fails
  every time (`ReplayIsAnswered`); a retryable failure cannot be retried once
  another job of the event has left its tombstone (`RetryableCanBeRetried`); the
  loser of a race to create or finish may fail where it could have converged.
* Access: a double sign-out raises the version twice; a code can be spent by a
  login that is then refused.
* Paper picks: a retry that meets an item which has moved on ends with a
  contradiction instead of resuming; an item taken over may be evaluated a second
  time on odds that committed late; an item that ended may keep its slot when the
  generation's row was contended, because what the release throws is swallowed.
* Upcoming events: a continuation whose publisher dies after the commit is not
  published by a redelivery of the command that committed it, only by the next
  window's command. A repair by bootstrap may leave a projection behind.
* Landing: a plan without partitions is asserted by
  `provider-landing.test.ts` l. 409 and refused by the store's own validation
  (`provider-landing-repository.ts` l. 779–843), so the branch at l. 1798–1824 is
  never reached.
* Results: evidence of another event version makes the read throw
  (`paper-grading-evidence-repository.ts` l. 89–98), and a result of equal authority with other
  content conflicts (`dynamodb-result-repository.ts` l. 61–66); either fails the
  page on every later run.
* Opportunities: a candidate of the same instant as the head's is persisted and
  never projected (`opportunity-lifecycle.ts` l. 425–429); evidence fresher than
  the run's date throws (`opportunity-lifecycle-event-evidence.ts` l. 80–82).

## Proofs

`tlapm` checks eight proof modules to the last leaf, for any number of
invocations, consumers, callers, pages, keys, attempts, people and events, any
limits and reserves. Their only assumptions are those of the constants (the null
value is nobody; at least one page, request, attempt; the kinds of caller are
disjoint; reserves are naturals), and one that some theorems state themselves:
`~StallPastLease`, which is the deployment.

* `OddsLeagueRunProofs`. `TypeCorrect`; `CheckpointCorrect`: `CheckpointSound` is
  invariant; `SealedPagesStand`: `SealedForGood`. For these nothing is assumed of
  leases: they rest on the conditional writes. `CheckpointSound` is not
  inductive, since a checkpoint names the run an invocation holds in its
  locals. `Sound` adds, for every invocation in the page loop, that it knows its
  run and that the pages behind its position there are committed, which other
  invocations cannot undo because pages only grow (`PagesOnlyGrow`).
  Its second part is about leases. With `~StallPastLease`: `OneRequestAtATime`,
  `NeverPaidTwice`, `PublisherFenced`, `AmbiguityErasedByStaleClaim`. The invariant
  says who can still believe in a lease: whoever holds it was alive at its last
  extension, a lease that ran out has outlived all of them, and a claim made from
  an older copy of the row is told from one made from the row itself.
* `AccountRateProofs`, for any number of landings, closing captures and collectors.
  `TypeCorrect`: no balance goes below zero or above the limit. `BalanceCorrect`:
  `NeverOverstated` is invariant. The strengthening (`RowInv`, `ProcInv`) is about
  what is still on its way. An answer of this window and what is still unsent come to
  at most `credit + unreserved + reserved`, so a collector that writes the answer
  over the row makes it forget no more than `reserved`, which is then
  `forgotten`. While the row does not know the
  current window (`~Current`), nothing is reserved in it that was not forgotten;
  once it knows the window, reconciliation only lowers the balance; and a probe's
  answer is written only over an unknown one. `LandingSparesCorrect` follows from
  it step by step. `RefusalsCorrect` needs `HoldInv`: whoever was limited still
  has to say so, and a probe whose copy is current sees neither a pause nor a
  verdict.
* `CollectorProofs`. `CollectorCorrect`: walks are paid once. `WalkInv` joins
  exclusion (whoever may pay holds the row's lease, or the lease has outlived
  everyone who could) and the place of each invocation on its walk (pages behind
  it committed, the one in hand sealed as it saw it).
* `ScoutingJobProofs`. `TypeCorrect`, `LockCorrect`, `RowsCorrect`,
  `BoundCorrect`, `EndsCorrect`, `OneClaimCorrect` and `ReceiptsCorrect`: all
  safety properties of the scouting runs. `TypeInv` adds to the types what a call
  knows at each position (`Fit`, `Knows`): the status it has seen, whose job it
  works on, and that a failure code goes with a failure. With it the fences say
  enough (`SawWhatIs`: a fenced caller saw exactly what is there), and every
  step is one of three (`RowCases`): the rows stay, a new attempt is queued
  (`QueuesAttempt`), or the current attempt and its job move on together
  (`Advances`). Lock, agreement, binding and ends then follow from these three
  alone. `OneClaimPerAttempt` needs in addition that a held attempt has left
  the queue (`HeldIsClaimed`) and that nobody but a claim acquires one
  (`Quiet`). `RetryReceiptsNameAFailure` needs that a job's version counts the
  changes of its attempts (`VersionsCount`: the changes are a finite set that
  grows by one element a step, so no sum is inducted over) and that a call about
  to retry or adopt names the version it has seen (`ClientsName`).
* `PaperPickProofs`. `TypeCorrect`; `BudgetCorrect` from `BudgetInv`, which counts
  the slots: as many are out as items hold one; `EndsCorrect` from `EndsInv`: what
  an evaluation's claim, the stored evaluation and an item's end say of each
  other.
* `EventWalkProofs`. `TypeCorrect`, `CheckpointCorrect`, and `Refines`: `EventWalk`
  implements `CursorWalk`, its pages read off the outbox up to the checkpoint.
  `WalkInv` is the chain of cursors, what covers the checkpoint, what was sent
  and what each worker knows. Two action lemmas carry it: `Onward`, a step of the
  checkpoint, and `SeenStands`: fingerprints and fences are written once, and no
  archived row becomes pending again while the checkpoint stays.

  About the store it has `EventsAlwaysAgree` (`EventsAgree`) and
  `EventsAlwaysRise` (`EventsRise`), for any number of callers, events,
  identities, providers and revisions and every rank of providers. Neither is
  inductive: a call decides on copies of rows that others rewrite under it.
  `StoreInv` is what makes the version conditions enough. A step raises a row's
  version or leaves the row (`Raised`), so a copy whose version still stands is
  the row (`Copied`, `RaisedCopy`); and a prepared transaction is right *if it
  holds* (`Transacting`: `Holds(plan) => Justified(l, plan)`), which no other
  caller's step can spoil (`RaisedPlan`): either it raises a row the plan
  expects, and the plan is refused, or the rows the plan was judged by are as
  they were. `Justified` says of a plan what the index needs: an event that
  takes another identity has the new claim taken and the old one released with
  it, a claim is written only beside its one candidate's event row, a pointer
  only with its event, a mapping only beside a check of the claim of its
  identity. `Weighed` is why `MaxAuthority` may be stored: an event stands under
  a revision it knows and none it knows is above (`AuthorityOrders`: authority
  is a strict total order of all revisions, whatever the ranks). `Counted`
  bounds versions: no more rows are raised than calls have ended.
* `AccessProofs`, about the sum. `BillingInv`: what the record says, Stripe has
  said, and pointers lead from every customer that may be billed. `AdminInv`:
  who is listed stays listed and was entered whole, and the audit rows are one
  for every version of a grant, by a bijection between versions and keys.
  `SignInv`: a code has one request that made it and one call that consumes it; a
  refused request's challenge outlives the call that was refused; messages sent
  and those still to be sent are within the budget spent; attempts recorded and
  those calls may still record stay below the limit and the number of callers.
  Theorems `TypeCorrect`, `CodesCorrect`, `PaidForCorrect`, `FencesCorrect`.
* `PipelineProofs`, about the sum `MCPipelines`. `OpportunitiesCorrect`:
  `OpportunitiesEnd`. What makes it inductive is what a run relies on between its
  reads and its transaction (`LifeInv`): the head it is about to replace is not
  closed and of an older candidate, or the same one if it is a sweep
  (`Overtakes`); the head a sweep set out from is still active or has a newer
  candidate (`Follows`); and a candidate that was given up is an older one, or
  the head's while it is not active (`RetiredOK`). `GradesCorrect`: `GradesStand`.
  `GradingInv` says what a run knows of the rows wherever it stands (`Knows`: its
  result is on record and has its exact row, the bets it is done with are graded
  unless it failed, and the grade it is about to write follows the one it read),
  which stays true because rows only rise (`RowsRise`); and that the grade rows
  of a bet are one chain ending in the current one (`Chain`, `ChainGrows`).

  The landing streams: `LandingCorrect` (`LandedIsWhole`), `SweepsCoverCatalog`
  (`PublishedCoversCatalog`) and `LandingRefinesPublication`
  (`PublishesGenerations`: every step is a `Publish` or leaves generation and view
  alone), all from `LandingIsConsistent`. Its invariant is one per stream
  (`CatalogInv`, `OddsInv`, `EventInv`; TLC checks them on the run's instance) and
  says what readers never see: beside a published slot that nobody writes, the
  running slot holds exactly the rows counted up to the last committed page, and
  of the next page only rows of the answer sealed in the checkpoint (`PagesOK`;
  for the catalog, chunks of the sealed snapshot, `CatalogPage`). That is what
  makes a replay harmless and the duplicates an invocation counts off the right
  ones (`LandedOK`, `Storing`, `Counting`). For events `Placed` adds where the
  sweep stands in its plan: every partition is reconciled, deferred or still
  ahead, deferred ones are listed once, and halving (`PlacedHalved`), deferring
  (`PlacedLater`) and going on (`PlacedNext`) keep it; hence a sweep that has
  nowhere to go has reconciled everything, and the store never refuses what the
  worker writes.

  `TypeCorrect`: `TypeOK` of all of them. The streams' invariants say it of
  their own rows; of the claims and reconciled leagues of an events sweep
  `EventSide` says it. For the upcoming walk it needs an invariant again, since
  a lemma of `EventWalkProofs` cannot be cited of an instance: `WalkInv` here is
  the part of that module's that bounds the epochs (no cursor is stored twice,
  and no worker names an epoch the outbox does not have).

Model-checked only: all liveness.
Liveness under fairness and ENABLED are outside this prover's reach, as are
RECURSIVE operators, of which the modules have none, and induction over data.

Two habits of the prover's translation shaped the modules: repeated updates of one
function at one index in a single EXCEPT, and `@` inside an EXCEPT of `@`, are
translated wrongly, so modules that are proved about use neither. Inductive
invariants were probed by asking for FALSE from them and each action, which must
fail.

## What is not modelled

Of the modelled parts: per-league and per-capability HEALTH rows, attempts, gaps
and metrics; the fast lane of the live-odds handler; `markOutboxPublished`;
refresh and expiry of tokens; scheduled-event reconciliation, aliases and near
matches; results whose participants cannot be resolved; sweep cursors and
the index of opportunities; landing plans beyond capacity and catalogs without a plan; `reconcile` of a paper
pick's cost. PROJECT.json has a
note for each part.

The read projections, adapters, web application and API surface keep no state
whose interleavings matter beyond the repositories they call; the odds
mathematics is arithmetic on decimals, for which the plan has reference
definitions; the infrastructure is present as constants, guards on time and
fairness. Security properties (authentication strength, injection, secrets) are
not the subject of these models.
