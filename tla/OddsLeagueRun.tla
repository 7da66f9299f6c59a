---------------------------- MODULE OddsLeagueRun ----------------------------
(***************************************************************************)
(* One league of the odds control plane: runOddsLeague() called by several *)
(* worker invocations over the rows of the DynamoDB odds-control store.    *)
(*                                                                         *)
(* An invocation is one call of runOddsLeague.  Its identity stands for    *)
(* the three things the call derives from itself: the random ownerId it    *)
(* writes into the continuation, the runId it mints when it starts a run   *)
(* of its own, and the ISO timestamps it stamps rows with.                 *)
(*                                                                         *)
(* One action is one call to the store or to the provider together with    *)
(* the local code up to the next such call; between two actions another    *)
(* invocation may do anything.  A row read and then put under the version  *)
(* just read is one atomic step: either the version still stands, or the   *)
(* put throws, which StoreThrows and Crash stand for.  So is               *)
(* putContinuationCas, which re-reads and retries up to eight times.       *)
(*                                                                         *)
(* There is no clock.  "live" says that leaseUntil is still ahead, "amb"   *)
(* whether ambiguousUntil is absent, recorded or more than 45 minutes      *)
(* past, "aged" that a run is older than 45 minutes; the environment       *)
(* actions at the end say when each may change.                            *)
(***************************************************************************)
EXTENDS Naturals, FiniteSets

CONSTANTS
  Invocations,     \* calls of runOddsLeague, each also an owner and a run id
  NoInv,           \* an absent owner or run id
  NPages,          \* pages of one provider walk, "start" first
  Concurrency,     \* reserved concurrent executions of the Lambda
  StallPastLease   \* may an invocation outlive a five-minute lease?

ASSUME NoInvAssumption == NoInv \notin Invocations
ASSUME NPagesAssumption == NPages \in Nat \ {0}
ASSUME ConcurrencyAssumption == Concurrency \in Nat \ {0}
ASSUME StallAssumption == StallPastLease \in BOOLEAN

VARIABLES
  cont,       \* CONTINUATION row of the league
  runs,       \* RUN rows by run id
  pages,      \* PAGE rows by run id and page number
  ckpt,       \* CHECKPOINT row of the league: its run id
  inv,        \* local variables of each invocation
  \* time, as far as the code can tell
  aged,       \* runs whose encoded start is more than 45 minutes past
  holders,    \* invocations alive when the lease was last extended
  met,        \* invocations alive when each invocation began
  \* history
  abandoned,  \* runs given up by the age ceiling
  fence       \* the last recorded ambiguity: still unresolved? who had begun?

rows == <<cont, runs, pages, ckpt>>
vars == <<cont, runs, pages, ckpt, inv, aged, holders, met, abandoned, fence>>

Page == 1..NPages
MaybeInv == Invocations \cup {NoInv}

\* A page's content is its digest: "full" has items or gaps, "empty" neither.
Content == {"full", "empty"}

Continuation ==
  [run: MaybeInv, owner: MaybeInv, live: BOOLEAN,
   amb: {"none", "open", "lapsed"}, evid: BOOLEAN]
NoCont == [run |-> NoInv, owner |-> NoInv, live |-> FALSE,
           amb |-> "none", evid |-> FALSE]

RunRow ==
  [status: {"none", "running", "completed", "failed", "skipped"},
   evid: BOOLEAN,      \* evidenceCommitted
   cursor: BOOLEAN]    \* failureReason is provider-rejected/invalid-response
NoRun == [status |-> "none", evid |-> FALSE, cursor |-> FALSE]

PageRow == [content: Content \cup {"none"}, intent: BOOLEAN, committed: BOOLEAN]
NoPage == [content |-> "none", intent |-> FALSE, committed |-> FALSE]

PC == {"idle", "readRun", "decide", "restartClear", "reclaimClear",
       "due", "claim", "putRun", "putCont",
       "lease", "renew", "getPage", "dispatch", "fetching", "beating",
       "postCheck", "postRenew", "seal", "settle", "recordAmb",
       "commitCheck", "mark", "commitPage", "advance",
       "missing", "checkpoint", "clear", "fail", "failClear", "done"}

Why == {"none", "recovering", "quota", "cursor", "ambiguous", "other"}

Locals ==
  [pc: PC,
   cont: Continuation,   \* the continuation as last read
   my: MaybeInv,         \* runId
   evid: BOOLEAN,        \* evidenceCommitted, this call's own idea of it
   restart: BOOLEAN,     \* the run read qualifies for a cursor restart
   page: Page,
   sealed: PageRow,      \* the local copy of the page
   ckptMoved: BOOLEAN,   \* the checkpoint's version moved on since it was read
   why: Why]             \* classified failure

Fresh == [pc |-> "idle", cont |-> NoCont, my |-> NoInv, evid |-> FALSE,
          restart |-> FALSE, page |-> 1, sealed |-> NoPage, ckptMoved |-> FALSE,
          why |-> "none"]

TypeOK ==
  /\ cont \in Continuation
  /\ runs \in [Invocations -> RunRow]
  /\ pages \in [Invocations -> [Page -> PageRow]]
  /\ ckpt \in MaybeInv
  /\ inv \in [Invocations -> Locals]
  /\ aged \in SUBSET Invocations
  /\ holders \in SUBSET Invocations
  /\ met \in [Invocations -> SUBSET Invocations]
  /\ abandoned \in SUBSET Invocations
  /\ fence \in [open: BOOLEAN, readers: SUBSET Invocations]

Init ==
  /\ cont = NoCont
  /\ runs = [r \in Invocations |-> NoRun]
  /\ pages = [r \in Invocations |-> [p \in Page |-> NoPage]]
  /\ ckpt = NoInv
  /\ inv = [w \in Invocations |-> Fresh]
  /\ aged = {}
  /\ holders = {}
  /\ met = [w \in Invocations |-> {}]
  /\ abandoned = {}
  /\ fence = [open |-> FALSE, readers |-> {}]

-----------------------------------------------------------------------------
(* Helpers *)

At(w, pc) == inv[w].pc = pc
Ended(w) == inv[w].pc = "done"
Alive == {w \in Invocations : inv[w].pc \notin {"idle", "done"}}
Row(w) == runs[inv[w].my]
PageAt(w) == pages[inv[w].my][inv[w].page]

Goto(w, pc) == inv' = [inv EXCEPT ![w].pc = pc]
Return(w) == inv' = [inv EXCEPT ![w] = [Fresh EXCEPT !.pc = "done"]]
\* The catch block of the page loop.
Fail(w, why) == inv' = [inv EXCEPT ![w] = [@ EXCEPT !.pc = "fail", !.why = why]]
\* The catch block around the paid request.
Settle(w, why) == inv' = [inv EXCEPT ![w] = [@ EXCEPT !.pc = "settle", !.why = why]]

\* activeOwner.ownerId === ownerId and its leaseUntil is still ahead
Owns(w) == cont.owner = w /\ cont.live

\* store.claimContinuation: a live lease of another owner wins; otherwise the
\* caller's whole value, built from what it read earlier, replaces the row.
ClaimableIgnoringLease(w) == TRUE   \* variant: the lease is not looked at
Claimable(w) == cont.owner \in {NoInv, w} \/ ~cont.live
ClaimRow(w, row) ==
  /\ cont' = [row EXCEPT !.owner = w, !.live = TRUE]
  /\ holders' = Alive

\* putContinuationCas with no ownerId in the patch: only the run is fenced,
\* and an absent row is created again, unowned.
PatchAllowed(w) == cont.run \in {NoInv, inv[w].my}
PatchRow(w) ==
  cont' = [cont EXCEPT !.run = inv[w].my, !.evid = inv[w].evid]

\* putContinuationCas({...activeOwner, leaseUntil}): the patch carries what the
\* lease check read, the owner included; a recorded ambiguity is kept.
RenewAllowed(w) ==
  /\ cont.run \in {NoInv, inv[w].my}
  /\ inv[w].cont.amb # "none" => cont.owner = w
RenewRow(w) ==
  /\ cont' = [run |-> inv[w].my, owner |-> w, live |-> TRUE,
              amb |-> IF cont.amb # "none" THEN cont.amb ELSE inv[w].cont.amb,
              evid |-> inv[w].cont.evid]
  /\ holders' = Alive

\* clearOwnedContinuation: the row is re-read and deleted by its exact version.
Mine(w) == cont.run = inv[w].my /\ cont.owner = w

\* putRun under the version just read
WriteRun(w, status, evid, cursor) ==
  runs' = [runs EXCEPT ![inv[w].my] =
             [status |-> status, evid |-> evid, cursor |-> cursor]]
\* The RUN leg of the two evidence transactions: a latch, not fenced.
LatchRun(w) == runs' = [runs EXCEPT ![inv[w].my].evid = TRUE]

hist == <<abandoned, fence>>
time == <<aged, holders, met>>
ages == <<aged, met>>

-----------------------------------------------------------------------------
(* Resuming what an earlier invocation left *)

\* const continuation = await store.getContinuation(policy.leagueKey)
Begin(w) ==
  /\ At(w, "idle")
  /\ Cardinality(Alive) < Concurrency
  /\ inv' = [inv EXCEPT ![w] = [@ EXCEPT !.cont = cont, !.my = cont.run,
                                         !.pc = IF cont.run = NoInv THEN "due"
                                                ELSE "readRun"]]
  /\ met' = [met EXCEPT ![w] = Alive]
  /\ UNCHANGED <<rows, aged, holders, hist>>

\* The run row and, unless it already shows evidence, its pages: an intent
\* marker on any of them promotes the run.  A failed multi-page run without
\* evidence whose cursor the provider rejected may be restarted.
ReadDurableRun(w) ==
  /\ At(w, "readRun")
  /\ LET run == Row(w)
         marked == \E p \in Page : pages[inv[w].my][p].intent
         promote == run.status # "none" /\ ~run.evid /\ marked
     IN /\ IF promote THEN WriteRun(w, run.status, TRUE, run.cursor)
                      ELSE UNCHANGED runs
        /\ inv' = [inv EXCEPT ![w] = [@ EXCEPT !.pc = "decide",
                     !.evid = run.evid \/ promote,
                     !.restart =
                        /\ run.status = "failed" /\ run.cursor
                        /\ ~run.evid /\ ~promote
                        /\ NPages > 1 /\ pages[inv[w].my][1].content # "none"]]
  /\ UNCHANGED <<cont, pages, ckpt, time, hist>>

RestartTerminalCursor(w) ==
  /\ At(w, "decide")
  /\ inv[w].restart /\ inv[w].cont.amb = "none"
  /\ ~inv[w].cont.live \/ ~cont.live
  /\ IF Claimable(w)
     THEN ClaimRow(w, inv[w].cont) /\ Goto(w, "restartClear")
     ELSE Return(w) /\ UNCHANGED <<cont, holders>>
  /\ UNCHANGED <<runs, pages, ckpt, ages, hist>>

\* Afterwards the call goes on as if there had been no continuation.
RestartClear(w) ==
  /\ At(w, "restartClear")
  /\ IF cont = NoCont \/ Mine(w)
     THEN /\ cont' = NoCont
          /\ inv' = [inv EXCEPT ![w] = [Fresh EXCEPT !.pc = "due"]]
     ELSE Return(w) /\ UNCHANGED cont
  /\ UNCHANGED <<runs, pages, ckpt, time, hist>>

\* Ambiguous for more than 45 minutes: take the row over and delete it.
FenceWithoutExit(w) ==      \* variant: the ceiling is never applied
  At(w, "decide") /\ inv[w].cont.amb = "lapsed" /\ Return(w)
    /\ UNCHANGED <<rows, time, hist>>
ReclaimAtOnce(w) ==         \* variant: the ceiling is not waited for
  /\ At(w, "decide") /\ inv[w].cont.amb # "none" /\ Claimable(w)
  /\ ClaimRow(w, inv[w].cont) /\ Goto(w, "reclaimClear")
  /\ UNCHANGED <<runs, pages, ckpt, ages, hist>>
ReclaimAmbiguity(w) ==
  /\ At(w, "decide")
  /\ inv[w].cont.amb = "lapsed"
  /\ IF Claimable(w)
     THEN ClaimRow(w, inv[w].cont) /\ Goto(w, "reclaimClear")
     ELSE Return(w) /\ UNCHANGED <<cont, holders>>
  /\ UNCHANGED <<runs, pages, ckpt, ages, hist>>

ReclaimClear(w) ==
  /\ At(w, "reclaimClear")
  /\ cont' = IF Mine(w) THEN NoCont ELSE cont
  /\ Return(w)
  /\ UNCHANGED <<runs, pages, ckpt, time, hist>>

\* Ambiguous and still within the ceiling: "provider-request-ambiguous".
FencedByAmbiguity(w) ==
  /\ At(w, "decide")
  /\ inv[w].cont.amb = "open"
  /\ Return(w)
  /\ UNCHANGED <<rows, time, hist>>

\* Neither: the call goes on to the checkpoint and the provider's health.
ResumingUnfenced(w) ==      \* variant: ambiguousUntil is not consulted
  At(w, "due") \/ At(w, "decide")
Resuming(w) ==
  \/ At(w, "due")
  \/ /\ At(w, "decide")
     /\ inv[w].cont.amb = "none"
     /\ inv[w].restart => inv[w].cont.live /\ (cont.live \/ cont = NoCont)

-----------------------------------------------------------------------------
(* Eligibility and election *)

\* The checkpoint is read and cadence, cooldown, probe and quota admit the call.
Admitted(w) ==
  /\ Resuming(w)
  /\ inv' = [inv EXCEPT ![w] = [@ EXCEPT !.ckptMoved = FALSE, !.pc = "claim"]]
  /\ UNCHANGED <<rows, time, hist>>

\* Cadence not due, cooling down or recovering: the league rows are untouched
\* (the skip is recorded under a run id nothing else refers to).
TurnedAway(w) ==
  /\ Resuming(w)
  /\ Return(w)
  /\ UNCHANGED <<rows, time, hist>>

\* Quota at its reserve: the skip is recorded under the id a new run would get.
QuotaReserveSkip(w) ==
  /\ Resuming(w)
  /\ runs' = [runs EXCEPT ![w] = [NoRun EXCEPT !.status = "skipped"]]
  /\ Return(w)
  /\ UNCHANGED <<cont, pages, ckpt, time, hist>>

\* Older than 45 minutes and, as far as this call read, without evidence.
NeverStale(w) == FALSE      \* variant: no age ceiling
StaleRun(w) ==
  inv[w].cont.run \in aged /\ ~inv[w].evid /\ ~inv[w].cont.evid

ClaimValue(w) ==
  IF inv[w].cont.run = NoInv \/ StaleRun(w)
  THEN [NoCont EXCEPT !.run = w] ELSE inv[w].cont

Claim(w) ==
  /\ At(w, "claim")
  /\ IF Claimable(w)
     THEN /\ ClaimRow(w, ClaimValue(w))
          /\ inv' = [inv EXCEPT ![w] =
                       [Fresh EXCEPT !.pc = "putRun", !.my = ClaimValue(w).run,
                                     !.evid = ClaimValue(w).evid,
                                     !.ckptMoved = inv[w].ckptMoved]]
          /\ abandoned' = IF StaleRun(w) THEN abandoned \cup {inv[w].cont.run}
                                         ELSE abandoned
     ELSE Return(w) /\ UNCHANGED <<cont, holders, abandoned>>
  /\ UNCHANGED <<runs, pages, ckpt, ages, fence>>

\* A run row that exists overrides the continuation's idea of evidence.
PutRunRunning(w) ==
  /\ At(w, "putRun")
  /\ LET evid == IF Row(w).status = "none" THEN inv[w].evid ELSE Row(w).evid
     IN /\ WriteRun(w, "running", evid, FALSE)
        /\ inv' = [inv EXCEPT ![w] = [@ EXCEPT !.pc = "putCont", !.evid = evid]]
  /\ UNCHANGED <<cont, pages, ckpt, time, hist>>

PutContinuation(w) ==
  /\ At(w, "putCont")
  /\ IF PatchAllowed(w) THEN PatchRow(w) /\ Goto(w, "lease")
                        ELSE Return(w) /\ UNCHANGED cont
  /\ UNCHANGED <<runs, pages, ckpt, time, hist>>

-----------------------------------------------------------------------------
(* One page: lease, paid request, seal *)

LeaseCheck(w, pc, next) ==
  /\ At(w, pc)
  /\ Owns(w)
  /\ inv' = [inv EXCEPT ![w] = [@ EXCEPT !.pc = next, !.cont = cont]]
  /\ UNCHANGED <<rows, time, hist>>

LeaseLost(w, pc) ==
  /\ At(w, pc)
  /\ ~Owns(w)
  /\ IF pc \in {"lease", "commitCheck"} THEN Fail(w, "recovering")
                                        ELSE Settle(w, "ambiguous")
  /\ UNCHANGED <<rows, time, hist>>

Renew(w, pc, next) ==
  /\ At(w, pc)
  /\ IF RenewAllowed(w)
     THEN /\ RenewRow(w)
          /\ inv' = [inv EXCEPT ![w] = [@ EXCEPT !.pc = next, !.cont = NoCont]]
     ELSE /\ IF pc = "renew" THEN Fail(w, "other") ELSE Settle(w, "ambiguous")
          /\ UNCHANGED <<cont, holders>>
  /\ UNCHANGED <<runs, pages, ckpt, ages, hist>>

\* Where a page goes once its sealed copy is in hand.
SealedIsEnough(page) == "advance"   \* variant: a sealed page is not committed
AfterSeal(page) == IF page.committed THEN "advance" ELSE "commitCheck"

AlwaysFetch(page) == "dispatch"     \* variant: a sealed page is fetched again
AfterGet(page) == IF page.content = "none" THEN "dispatch" ELSE AfterSeal(page)

GetPage(w) ==
  /\ At(w, "getPage")
  /\ inv' = [inv EXCEPT ![w] = [@ EXCEPT !.sealed = PageAt(w), !.pc = AfterGet(PageAt(w))]]
  /\ UNCHANGED <<rows, time, hist>>

\* reserveQuotaAttempt refuses, or the request leaves for the provider.
QuotaRefused(w) ==
  /\ At(w, "dispatch")
  /\ Fail(w, "quota")
  /\ UNCHANGED <<rows, time, hist>>

Dispatch(w) ==
  /\ At(w, "dispatch")
  /\ Goto(w, "fetching")
  /\ UNCHANGED <<rows, time, hist>>

ProviderAnswers(w) ==
  /\ At(w, "fetching")
  /\ Goto(w, "postCheck")
  /\ UNCHANGED <<rows, time, hist>>

\* A known refusal, of this cursor or otherwise, or an unknown outcome.
ProviderFails(w) ==
  /\ At(w, "fetching")
  /\ \E why \in {"cursor", "other", "ambiguous"} : Settle(w, why)
  /\ UNCHANGED <<rows, time, hist>>

\* sealPage accepts the first digest and, afterwards, only the same one.
LastWriterSeals(w, c) == TRUE       \* variant: the put is unconditional
Sealable(w, c) == PageAt(w).content \in {"none", c}

\* reconcileQuota, sealPage, completeAttempt, putHealth.  An equal digest
\* already there leaves the local copy without the page's markers.
Seal(w) ==
  /\ At(w, "seal")
  /\ \E c \in Content, late \in BOOLEAN :
       IF Sealable(w, c)
       THEN /\ pages' = [pages EXCEPT ![inv[w].my][inv[w].page].content = c]
            /\ IF late THEN Settle(w, "ambiguous")
               ELSE inv' = [inv EXCEPT ![w] = [@ EXCEPT
                              !.pc = "commitCheck", !.sealed = [NoPage EXCEPT !.content = c]]]
       ELSE Settle(w, "ambiguous") /\ UNCHANGED pages
  /\ UNCHANGED <<cont, runs, ckpt, time, hist>>

\* Whatever went wrong, a durable page settles it; otherwise an unknown
\* outcome must be recorded before the failure is reported.
SettleRequest(w) ==
  /\ At(w, "settle")
  /\ IF PageAt(w).content # "none"
     THEN inv' = [inv EXCEPT ![w] = [@ EXCEPT !.sealed = PageAt(w), !.why = "none",
                                              !.pc = AfterSeal(PageAt(w))]]
     ELSE IF inv[w].why = "ambiguous" THEN Goto(w, "recordAmb")
     ELSE Fail(w, inv[w].why)
  /\ UNCHANGED <<rows, time, hist>>

RecordAmbiguity(w) ==
  /\ At(w, "recordAmb")
  /\ IF Mine(w)
     THEN /\ cont' = [cont EXCEPT !.evid = inv[w].evid,
                        !.amb = IF @ = "none" THEN "open" ELSE @]
          /\ fence' = [open |-> TRUE,
                       readers |-> {v \in Invocations : ~At(v, "idle")}]
          /\ Fail(w, "ambiguous")
     ELSE Fail(w, "other") /\ UNCHANGED <<cont, fence>>
  /\ UNCHANGED <<runs, pages, ckpt, time, abandoned>>

-----------------------------------------------------------------------------
(* One page: evidence *)

BeginCommit(w) ==
  LeaseCheck(w, "commitCheck",
    IF inv[w].sealed.content = "full" /\ ~inv[w].sealed.intent
    THEN "mark" ELSE "commitPage")

\* markEvidenceIntent: the page leg is exclusive, the run leg a latch.  The
\* caller may not learn that its transaction was applied.
MarkEvidenceIntent(w) ==
  /\ At(w, "mark")
  /\ IF PageAt(w).intent
     THEN Fail(w, "other") /\ UNCHANGED <<runs, pages>>
     ELSE /\ pages' = [pages EXCEPT ![inv[w].my][inv[w].page].intent = TRUE]
          /\ LatchRun(w)
          /\ \/ inv' = [inv EXCEPT ![w] = [@ EXCEPT !.pc = "commitPage", !.evid = TRUE]]
             \/ Fail(w, "other")
  /\ UNCHANGED <<cont, ckpt, time, hist>>

\* committer.commit publishes the items and putGap the gaps, which the league
\* rows do not show; then commitEvidencePage or commitPage.
CommitPage(w) ==
  /\ At(w, "commitPage")
  /\ IF PageAt(w).committed
     THEN Fail(w, "other") /\ UNCHANGED <<runs, pages>>
     ELSE /\ pages' = [pages EXCEPT ![inv[w].my][inv[w].page].committed = TRUE]
          /\ \E evidence \in BOOLEAN :
               /\ IF evidence THEN LatchRun(w) ELSE UNCHANGED runs
               /\ \/ inv' = [inv EXCEPT ![w] = [@ EXCEPT !.pc = "advance",
                                                         !.evid = inv[w].evid \/ evidence]]
                  \/ Fail(w, "other")
  /\ UNCHANGED <<cont, ckpt, time, hist>>

NoLastPage(w) == FALSE              \* variant: the end of the walk is missed
LastPage(w) == inv[w].page = NPages

Advance(w) ==
  /\ At(w, "advance")
  /\ IF ~PatchAllowed(w)
     THEN Fail(w, "other") /\ UNCHANGED cont
     ELSE /\ PatchRow(w)
          /\ inv' = [inv EXCEPT ![w] = [@ EXCEPT
                       !.cont = NoCont, !.sealed = NoPage,
                       !.pc = IF LastPage(w) THEN "missing" ELSE "lease",
                       !.page = IF LastPage(w) THEN inv[w].page ELSE inv[w].page + 1]]
  /\ UNCHANGED <<runs, pages, ckpt, time, hist>>

-----------------------------------------------------------------------------
(* Finishing and failing *)

\* provider.reconcileMissing persists the reconstructed run and may find gaps
PutRunCompleted(w) ==
  /\ At(w, "missing")
  /\ \E gaps \in BOOLEAN :
       /\ WriteRun(w, "completed", inv[w].evid \/ gaps, FALSE)
       /\ inv' = [inv EXCEPT ![w] = [@ EXCEPT !.pc = "checkpoint", !.evid = inv[w].evid \/ gaps]]
  /\ UNCHANGED <<cont, pages, ckpt, time, hist>>

\* The checkpoint is fenced by the version read before the election.
PutCheckpoint(w) ==
  /\ At(w, "checkpoint")
  /\ IF ~inv[w].ckptMoved
     THEN /\ ckpt' = inv[w].my
          /\ inv' = [v \in Invocations |->
                       IF v = w THEN [inv[v] EXCEPT !.pc = "clear"]
                       ELSE IF v \in Alive THEN [inv[v] EXCEPT !.ckptMoved = TRUE]
                       ELSE inv[v]]
     ELSE Fail(w, "other") /\ UNCHANGED ckpt
  /\ UNCHANGED <<cont, runs, pages, time, hist>>

ClearContinuation(w) ==
  /\ At(w, "clear")
  /\ IF cont = NoCont \/ Mine(w)
     THEN cont' = NoCont /\ Return(w)
     ELSE Fail(w, "other") /\ UNCHANGED cont
  /\ UNCHANGED <<runs, pages, ckpt, time, hist>>

SafelySkipped(w) == ~inv[w].evid /\ inv[w].why \in {"quota", "recovering"}

\* The failure is recorded with this call's own idea of evidenceCommitted.
PutRunFailed(w) ==
  /\ At(w, "fail")
  /\ WriteRun(w, IF SafelySkipped(w) THEN "skipped" ELSE "failed",
              inv[w].evid, inv[w].why = "cursor")
  /\ IF SafelySkipped(w) /\ inv[w].why = "quota"
     THEN Goto(w, "failClear") ELSE Return(w)
  /\ UNCHANGED <<cont, pages, ckpt, time, hist>>

ClearAfterQuota(w) ==
  /\ At(w, "failClear")
  /\ cont' = IF Mine(w) THEN NoCont ELSE cont
  /\ Return(w)
  /\ UNCHANGED <<runs, pages, ckpt, time, hist>>

\* A store or committer call throws without having been applied.
StoreThrows(w) ==
  /\ \/ /\ inv[w].pc \in {"lease", "renew", "getPage", "dispatch", "settle",
                          "recordAmb", "commitCheck", "mark", "commitPage", "advance",
                          "missing", "checkpoint", "clear"}
        /\ Fail(w, "other")
     \/ /\ inv[w].pc \in {"postCheck", "postRenew", "seal"}
        /\ Settle(w, "ambiguous")
  /\ UNCHANGED <<rows, time, hist>>

\* The Lambda is killed, or a call outside every catch block throws.
Crash(w) ==
  /\ w \in Alive
  /\ Return(w)
  /\ UNCHANGED <<rows, time, hist>>

-----------------------------------------------------------------------------
(* Time.  A Lambda lives at most five minutes, as long as a lease.  Without *)
(* StallPastLease a lease therefore runs out only after everyone who was    *)
(* alive at its last extension has ended, the ambiguity ceiling passes only *)
(* after everyone who had begun when the ambiguity was recorded, and a run  *)
(* ages only after everyone who overlapped the invocation that started it.  *)

LeaseRunsOut ==
  /\ cont.live
  /\ StallPastLease \/ \A w \in holders : Ended(w)
  /\ cont' = [cont EXCEPT !.live = FALSE]
  /\ UNCHANGED <<runs, pages, ckpt, inv, time, hist>>

RunAges(r) ==
  /\ r \notin aged
  /\ StallPastLease \/ \A w \in Invocations :
       w = r \/ w \in met[r] \/ r \in met[w] => Ended(w)
  /\ ~At(r, "idle")
  /\ aged' = aged \cup {r}
  /\ UNCHANGED <<rows, inv, holders, met, hist>>

AmbiguityLapses ==
  /\ fence.open
  /\ StallPastLease \/ \A w \in fence.readers : Ended(w)
  /\ fence' = [fence EXCEPT !.open = FALSE]
  /\ cont' = IF cont.amb = "open" THEN [cont EXCEPT !.amb = "lapsed"] ELSE cont
  /\ UNCHANGED <<runs, pages, ckpt, inv, time, abandoned>>

\* No further invocation is scheduled.
AllEnded ==
  /\ \A w \in Invocations : Ended(w)
  /\ UNCHANGED vars

-----------------------------------------------------------------------------
Recover(w) ==
  \/ Begin(w) \/ ReadDurableRun(w)
  \/ RestartTerminalCursor(w) \/ RestartClear(w)
  \/ ReclaimAmbiguity(w) \/ ReclaimClear(w) \/ FencedByAmbiguity(w)

Elect(w) ==
  \/ Admitted(w) \/ TurnedAway(w) \/ QuotaReserveSkip(w) \/ Claim(w)
  \/ PutRunRunning(w) \/ PutContinuation(w)

Fetch(w) ==
  \/ LeaseCheck(w, "lease", "renew") \/ LeaseLost(w, "lease")
  \/ Renew(w, "renew", "getPage") \/ GetPage(w)
  \/ QuotaRefused(w) \/ Dispatch(w) \/ ProviderAnswers(w) \/ ProviderFails(w)
  \/ LeaseCheck(w, "postCheck", "postRenew") \/ LeaseLost(w, "postCheck")
  \/ Renew(w, "postRenew", "seal")
  \/ Seal(w) \/ SettleRequest(w) \/ RecordAmbiguity(w)

\* withPaidLeaseHeartbeat: every 30 seconds while the request is out
Heartbeat(w) ==
  \/ LeaseCheck(w, "fetching", "beating") \/ LeaseLost(w, "fetching")
  \/ Renew(w, "beating", "fetching")

Commit(w) ==
  \/ BeginCommit(w) \/ LeaseLost(w, "commitCheck")
  \/ MarkEvidenceIntent(w) \/ CommitPage(w) \/ Advance(w)

Finish(w) ==
  \/ PutRunCompleted(w) \/ PutCheckpoint(w) \/ ClearContinuation(w)
  \/ PutRunFailed(w) \/ ClearAfterQuota(w)

Step(w) == Recover(w) \/ Elect(w) \/ Fetch(w) \/ Heartbeat(w) \/ Commit(w) \/ Finish(w)
Fault(w) == StoreThrows(w) \/ Crash(w)
Time == LeaseRunsOut \/ AmbiguityLapses \/ \E r \in Invocations : RunAges(r)

Next == (\E w \in Invocations : Step(w) \/ Fault(w)) \/ Time \/ AllEnded

Spec == Init /\ [][Next]_vars

-----------------------------------------------------------------------------
(* Correctness *)

\* The checkpoint, which sets the league's next due time, only ever names a
\* run all of whose pages are committed, whoever else worked on that run.
CheckpointSound ==
  ckpt # NoInv => \A p \in Page : pages[ckpt][p].committed

\* A run whose pages carry an evidence intent is never given up for its age,
\* and a run given up for its age never gains one afterwards.  The code does not
\* keep this: the claim does not check the flags staleness was decided from.
EvidenceNeverAbandoned ==
  \A r \in abandoned, p \in Page : ~pages[r][p].intent

\* At most one paid request is outstanding for the league.
Requesting == {w \in Invocations : inv[w].pc \in {"fetching", "beating"}}
SingleRequest == \A v, w \in Requesting : v = w

\* No page is paid for again once it is sealed: while a request is out, its
\* page is not sealed.
SealedPageNotRefetched == \A w \in Requesting : PageAt(w).content = "none"

\* At most one invocation is putting evidence beyond recall.
Publishing ==
  {w \in Invocations : inv[w].pc \in {"mark", "commitPage", "missing"}}
SinglePublisher == \A v, w \in Publishing : v = w

\* Until the ceiling passes, a recorded ambiguity stops every invocation that
\* starts after it was recorded: none gets as far as claiming the league.
FenceStopsNewcomers ==
  cont.amb = "open" =>
    \A w \in Alive : w \in fence.readers \/ inv[w].pc \in {"readRun", "decide"}

\* One invocation at a time is past the lease and writes the league's page, and while a
\* fence is open those that come to it are stopped.
PublisherIsFenced == SinglePublisher /\ FenceStopsNewcomers

\* A recorded ambiguity leaves the row before its ceiling only when an
\* invocation that read the row earlier replaces it with what it read.
OnlyStaleClaimErasesFence ==
  [][cont.amb = "open" /\ fence.open /\ cont'.amb = "none" =>
       \E w \in fence.readers : At(w, "claim") /\ cont'.owner = w]_vars

\* A sealed page keeps its content and its markers, whoever races to write it.
SealedForGood ==
  [][\A r \in Invocations, p \in Page :
       /\ pages[r][p].content # "none" => pages'[r][p].content = pages[r][p].content
       /\ pages[r][p].intent => pages'[r][p].intent
       /\ pages[r][p].committed => pages'[r][p].committed]_vars

=============================================================================
