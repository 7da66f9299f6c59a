---------------------------- MODULE EventLanding ----------------------------
(***************************************************************************)
(* The landing of the provider's events                                    *)
(* (runPagedStream of apps/workers/src/provider-landing.ts over            *)
(* packages/database/src/provider-landing-repository.ts).  A sweep walks   *)
(* the partitions of a plan derived from the catalog, page by page, into   *)
(* the slot that is not published; completing it publishes the slot.  An   *)
(* answer that contradicts an earlier one restarts the sweep in the same   *)
(* slot, a partition the provider cannot answer is halved or deferred.     *)
(* One invocation runs at a time (reserved concurrency 1) and may die      *)
(* between any two calls; nothing but the checkpoint is remembered.        *)
(***************************************************************************)
EXTENDS Naturals, Sequences, FiniteSets

CONSTANTS
    Leagues, Rows,      \* numbers: a plan lists leagues, a page lists rows
    LeagueOf,           \* the league of a row
    Catalogs, PlanOf,   \* the plan of a catalog: a sequence of sets of leagues
    PageSize,           \* rows of a full page
    MaxPartitions,      \* partitions a plan may have
    MaxSweeps,          \* bound: sweeps started, restarts not counted
    MaxFaults,          \* bound: crashes, refusals, wrong answers, new catalogs
    None

Slots == {0, 1}
Ranged(s) == {s[i] : i \in DOMAIN s}

\* A plan is made of partitions of leagues, each in one of them.
ValidPlan(plan) ==
    /\ plan # <<>> /\ \A i \in DOMAIN plan : plan[i] # {}
    /\ \A i, j \in DOMAIN plan : i # j => plan[i] \cap plan[j] = {}

Page     == [rows : SUBSET Rows, more : BOOLEAN, total : Nat]
Record   == [sweep : Nat, page : Nat \ {0}]
Counters == [pages : Nat, source : Nat, landed : Nat]
Pending  == [at : Nat \X Nat \X Nat, page : Page]
Published == [sweep : Nat, slot : Slots, counts : Counters]
Checkpoint ==
    [status : {"running", "complete"}, sweep : Nat, slot : Slots,
     plan : Seq(SUBSET Leagues), of : Catalogs, part : Nat \ {0}, offset : Nat, rev : Nat,
     partRows : Nat, deferred : Seq(Nat), retrying : BOOLEAN, counts : Counters,
     pending : Pending \cup {None}, paused : BOOLEAN, last : Published \cup {None}]

LandingAssumption ==
    /\ Leagues \subseteq Nat /\ Rows \subseteq Nat
    /\ IsFiniteSet(Leagues) /\ IsFiniteSet(Rows)
    /\ LeagueOf \in [Rows -> Leagues]
    /\ PlanOf \in [Catalogs -> Seq(SUBSET Leagues)]
    /\ \A c \in Catalogs : ValidPlan(PlanOf[c])
    /\ PageSize \in Nat \ {0}
    /\ None \notin Pending /\ None \notin Record /\ None \notin Checkpoint /\ None \notin Published

VARIABLES
    cp,         \* CHECKPOINT#events
    rec,        \* rec[slot][row] : sweep and page of a landed row
    claims,     \* POSITION rows of this sweep (their keys name the sweep)
    inv,        \* the invocation: where it stands and the page it holds
    catalog,    \* the completed catalog
    sweeps,     \* sweeps begun, restarts included
    walked,     \* history: leagues reconciled in this sweep
    refused,    \* history: a checkpoint the store refused
    faults

vars == <<cp, rec, claims, inv, catalog, sweeps, walked, refused, faults>>

Idle    == [pc |-> "idle", page |-> None, dups |-> 0]
Counts  == [pages |-> 0, source |-> 0, landed |-> 0]
\* A deferred partition is listed once.
Place(s, i)   == CHOOSE k \in DOMAIN s : s[k] = i
Without(s, i) ==
    IF i \in Ranged(s) THEN SubSeq(s, 1, Place(s, i) - 1) \o SubSeq(s, Place(s, i) + 1, Len(s))
    ELSE s

-----------------------------------------------------------------------------
(* What the provider holds for a partition, and the page it should answer. *)
RowsOf(part)  == {r \in Rows : LeagueOf[r] \in part}
Before(r, S)  == Cardinality({q \in S : q < r})
Truth(part, offset) ==
    LET S == RowsOf(part) IN
    [rows  |-> {r \in S : Before(r, S) \div PageSize = offset},
     more  |-> (offset + 1) * PageSize < Cardinality(S),
     total |-> Cardinality(S)]

\* Other answers: rows that moved to another page, another total.
Answers(part) ==
    [rows : {S \in SUBSET RowsOf(part) : Cardinality(S) <= PageSize},
     more : BOOLEAN,
     total : {Cardinality(RowsOf(part)), Cardinality(RowsOf(part)) + 1}]

-----------------------------------------------------------------------------
(* validateCheckpoint, less the shape of its fields.                       *)
Position(c) == <<c.part, c.offset, c.rev>>

Valid(c) ==
    /\ ValidPlan(c.plan)
    /\ c.status = "running" =>
          /\ c.part \in DOMAIN c.plan
          /\ c.last # None => c.last.sweep # c.sweep /\ c.last.slot # c.slot
    /\ c.status = "complete" => c.last = [sweep |-> c.sweep, slot |-> c.slot, counts |-> c.counts]
    /\ Ranged(c.deferred) \subseteq DOMAIN c.plan
    /\ Cardinality(Ranged(c.deferred)) = Len(c.deferred)
    /\ c.retrying => c.part \in Ranged(c.deferred)
    /\ c.pending # None => c.status = "running" /\ c.pending.at = Position(c)
    /\ c.counts.landed <= c.counts.source

\* putCheckpoint: a checkpoint that is not valid is thrown back.
Put(c) ==
    /\ cp' = IF Valid(c) THEN c ELSE cp
    /\ refused' = (refused \/ ~Valid(c))

Goto(pc) == inv' = [inv EXCEPT !.pc = pc]
Return   == inv' = Idle

Init ==
    /\ cp = None
    /\ rec = [s \in Slots |-> [r \in Rows |-> None]]
    /\ claims = {}
    /\ inv = Idle
    /\ catalog \in Catalogs
    /\ sweeps = 0
    /\ walked = {}
    /\ refused = FALSE
    /\ faults = 0

-----------------------------------------------------------------------------
(* A sweep begins: after a completed one in the other slot ...             *)
StartSlot(prior) == IF prior = None THEN 0 ELSE 1 - prior.slot

Fresh(sweep, slot, plan, of, deferred, last) ==
    LET primary == DOMAIN plan \ Ranged(deferred) IN
    [status |-> "running", sweep |-> sweep, slot |-> slot, plan |-> plan, of |-> of,
     part |-> IF primary # {} THEN CHOOSE i \in primary : \A k \in primary : i <= k
              ELSE IF deferred # <<>> THEN Head(deferred) ELSE 1,
     offset |-> 0, rev |-> 0, partRows |-> 0,
     deferred |-> deferred, retrying |-> primary = {} /\ deferred # <<>>,
     counts |-> Counts, pending |-> None,
     paused |-> primary = {} /\ deferred # <<>>, last |-> last]

Running  == cp # None /\ cp.status = "running"
Complete == cp # None /\ cp.status = "complete"

\* The refined plan of the last sweep is kept while the catalog is the same.
StartCheckpoint ==
    /\ inv.pc = "idle"
    /\ ~Running
    /\ sweeps < MaxSweeps
    /\ Put(Fresh(sweeps + 1, StartSlot(cp),
                 IF cp # None /\ cp.of = catalog THEN cp.plan ELSE PlanOf[catalog],
                 catalog, <<>>, IF cp = None THEN None ELSE cp.last))
    /\ sweeps' = sweeps + 1
    /\ walked' = {} /\ claims' = {}
    /\ UNCHANGED <<rec, inv, catalog, faults>>

\* ... after a contradiction in the same slot, from the start.
Restart(plan, of, deferred) ==
    /\ Put(Fresh(sweeps + 1, cp.slot, plan, of, deferred, cp.last))
    /\ sweeps' = sweeps + 1
    /\ walked' = {} /\ claims' = {}

\* The catalog's plan is another: the sweep restarts with it.
MigratePlan ==
    /\ inv.pc = "idle"
    /\ Running /\ cp.of # catalog
    /\ Restart(PlanOf[catalog], catalog, <<>>)
    /\ UNCHANGED <<rec, inv, catalog, faults>>

-----------------------------------------------------------------------------
(* The position of the next paid request is claimed for its page number.   *)
PageNumber == cp.counts.pages + 1
Claims(at) == {k \in claims : k.at = at}

ClaimPosition ==
    /\ inv.pc = "idle"
    /\ Running /\ cp.of = catalog /\ ~cp.paused
    /\ LET held == Claims(Position(cp)) IN
       \/ /\ held = {}
          /\ claims' = claims \cup {[at |-> Position(cp), page |-> PageNumber]}
          /\ Goto("fetch")
          /\ UNCHANGED <<cp, sweeps, walked, refused>>
       \/ /\ \E k \in held : k.page = PageNumber
          /\ Goto("fetch")
          /\ UNCHANGED <<cp, claims, sweeps, walked, refused>>
       \/ /\ \E k \in held : k.page # PageNumber
          /\ Restart(cp.plan, cp.of, <<>>)
          /\ UNCHANGED inv
    /\ UNCHANGED <<rec, catalog, faults>>

Fault == faults < MaxFaults /\ faults' = faults + 1

\* No admission, a rate limit, an ambiguous answer or a refusal: the stream
\* pauses until a time that passes.
PauseStream ==
    /\ inv.pc = "fetch" /\ Fault
    /\ Put([cp EXCEPT !.paused = TRUE])
    /\ Return
    /\ UNCHANGED <<rec, claims, catalog, sweeps, walked>>

Elapse ==
    /\ cp # None /\ cp.paused
    /\ cp' = [cp EXCEPT !.paused = FALSE]
    /\ UNCHANGED <<rec, claims, inv, catalog, sweeps, walked, refused, faults>>

-----------------------------------------------------------------------------
(* refineOrDeferEventPartition: a partition the provider does not answer   *)
(* is halved, or put off to the end of the sweep.                          *)
FirstHalf(part) == {l \in part : Before(l, part) < (Cardinality(part) + 1) \div 2}
Halved(plan, i) ==
    SubSeq(plan, 1, i - 1) \o <<FirstHalf(plan[i]), plan[i] \ FirstHalf(plan[i])>>
      \o SubSeq(plan, i + 1, Len(plan))
MayHalve(c) == Cardinality(c.plan[c.part]) > 1 /\ Len(c.plan) < MaxPartitions

\* Partitions behind the halved one move up; both its halves are deferred if it was.
ShiftedDeferral(deferred, i) ==
    LET moved == [k \in DOMAIN deferred |->
                      IF deferred[k] > i THEN deferred[k] + 1 ELSE deferred[k]]
        at    == Place(deferred, i)
    IN  IF i \in Ranged(deferred)
        THEN SubSeq(moved, 1, at) \o <<i + 1>> \o SubSeq(moved, at + 1, Len(moved))
        ELSE moved

Settled(c) == [c EXCEPT !.pending = None, !.paused = FALSE, !.partRows = 0,
                        !.counts.pages = @ + 1]
Refined(c) == [Settled(c) EXCEPT !.plan = Halved(@, c.part), !.offset = 0, !.rev = @ + 1,
                                 !.deferred = ShiftedDeferral(@, c.part)]

\* variant: a deferred partition is not kept.
DeferralDropped(c) == [Settled(c) EXCEPT !.part = @ + 1, !.offset = 0]
DeferredOn(c) == [Settled(c) EXCEPT !.deferred = Append(Without(@, c.part), c.part),
                                    !.part = @ + 1, !.offset = 0]
DeferredLast(c) ==
    LET queue == Append(Without(c.deferred, c.part), c.part) IN
    [Settled(c) EXCEPT !.deferred = queue, !.part = Head(queue), !.offset = 0,
                       !.retrying = TRUE, !.rev = @ + 1,
                       !.paused = c.retrying \/ Len(queue) = 1]

RefineOrDefer ==
    IF MayHalve(cp) THEN Put(Refined(cp))
    ELSE IF ~cp.retrying /\ cp.part < Len(cp.plan) THEN Put(DeferredOn(cp))
    ELSE Put(DeferredLast(cp))

\* A filter rejected or a total out of reach on the first page of a
\* partition; a page sealed there before makes it a contradiction.
RejectPartition ==
    /\ inv.pc = "fetch" /\ Fault
    /\ cp.offset = 0
    /\ Return
    /\ \/ /\ cp.pending # None
          /\ Restart(cp.plan, cp.of, <<>>)
       \/ /\ cp.pending = None
          /\ RefineOrDefer
          /\ UNCHANGED <<claims, sweeps, walked>>
    /\ UNCHANGED <<rec, catalog>>

\* A total out of reach on a later page.
OutgrowPartition ==
    /\ inv.pc = "fetch" /\ Fault
    /\ cp.offset > 0
    /\ Return
    /\ IF MayHalve(cp) THEN Restart(Halved(cp.plan, cp.part), cp.of, <<>>)
       ELSE Restart(cp.plan, cp.of, <<cp.part>>)
    /\ UNCHANGED <<rec, catalog>>

\* An answer without the total of the partition.
MissTotal ==
    /\ inv.pc = "fetch" /\ Fault
    /\ Return
    /\ Restart(cp.plan, cp.of, <<>>)
    /\ UNCHANGED <<rec, catalog>>

-----------------------------------------------------------------------------
(* A page: sealed in the checkpoint, landed, and committed.                *)
Contradicts(page) == cp.pending # None /\ cp.pending.page # page

Receive(page) ==
    IF Contradicts(page)
    THEN Restart(cp.plan, cp.of, <<>>) /\ Return
    ELSE /\ Put([cp EXCEPT !.pending = [at |-> Position(cp), page |-> page]])
         /\ inv' = [inv EXCEPT !.pc = "land", !.page = page]
         /\ UNCHANGED <<claims, sweeps, walked>>

Fetch ==
    /\ inv.pc = "fetch"
    /\ \/ /\ Receive(Truth(cp.plan[cp.part], cp.offset))
          /\ UNCHANGED faults
       \/ /\ Fault
          /\ \E page \in Answers(cp.plan[cp.part]) : Receive(page)
    /\ UNCHANGED <<rec, catalog>>

\* Rows landed under another page of this sweep are quarantined.
Landed(r) == rec[cp.slot][r]
\* variant: a row landed on this page is a duplicate when it is replayed.
ReplayDuplicates(rows) == {r \in rows : Landed(r) # None /\ Landed(r).sweep = cp.sweep}
Duplicates(rows) ==
    {r \in rows : Landed(r) # None /\ Landed(r).sweep = cp.sweep /\ Landed(r).page # PageNumber}
Store(rows) ==
    rec' = [rec EXCEPT ![cp.slot] = [r \in Rows |->
               IF r \in rows THEN [sweep |-> cp.sweep, page |-> PageNumber] ELSE @[r]]]

Fits(page) == cp.partRows + Cardinality(page.rows) <= page.total

Land ==
    /\ inv.pc = "land"
    /\ \/ /\ ~Fits(inv.page)
          /\ Restart(cp.plan, cp.of, <<>>)
          /\ Return
          /\ UNCHANGED <<rec, faults>>
       \/ /\ Fits(inv.page)
          /\ LET dups == Duplicates(inv.page.rows) IN
             /\ Store(inv.page.rows \ dups)
             /\ inv' = [inv EXCEPT !.pc = "commit", !.dups = Cardinality(dups)]
          /\ UNCHANGED <<cp, refused, claims, sweeps, walked, faults>>
       \/ \* The batches are written in part and the invocation dies.
          /\ Fits(inv.page) /\ Fault
          /\ \E part \in SUBSET (inv.page.rows \ Duplicates(inv.page.rows)) : Store(part)
          /\ Return
          /\ UNCHANGED <<cp, refused, claims, sweeps, walked>>
    /\ UNCHANGED catalog

Committed ==
    [cp EXCEPT !.pending = None, !.paused = FALSE,
               !.partRows = @ + Cardinality(inv.page.rows),
               !.counts = [pages  |-> @.pages + 1,
                           source |-> @.source + Cardinality(inv.page.rows),
                           landed |-> @.landed + Cardinality(inv.page.rows) - inv.dups]]

NextPrimary == {i \in DOMAIN cp.plan : i > cp.part /\ i \notin Ranged(cp.deferred)}
FirstOf(S)  == CHOOSE i \in S : \A k \in S : i <= k
To(c, i)    == [c EXCEPT !.part = i, !.offset = 0, !.partRows = 0]

Completed(c) ==
    [c EXCEPT !.status = "complete", !.deferred = <<>>, !.retrying = FALSE, !.rev = 0,
              !.partRows = 0,
              !.last = [sweep |-> c.sweep, slot |-> c.slot, counts |-> c.counts]]

\* The checkpoint after the last page of a partition.
NextPartition(c) ==
    LET left == Without(c.deferred, c.part) IN
    IF c.retrying
    THEN IF left # <<>> THEN [To(c, Head(left)) EXCEPT !.deferred = left, !.rev = @ + 1]
         ELSE Completed(c)
    ELSE IF NextPrimary # {} THEN To(c, FirstOf(NextPrimary))
    ELSE IF c.deferred # <<>>
         THEN [To(c, Head(c.deferred)) EXCEPT !.retrying = TRUE, !.rev = @ + 1, !.paused = TRUE]
    ELSE Completed(c)

Commit ==
    /\ inv.pc = "commit"
    /\ Return
    /\ \/ /\ inv.page.more
          /\ Put([Committed EXCEPT !.offset = @ + 1])
          /\ UNCHANGED <<claims, sweeps, walked>>
       \/ /\ ~inv.page.more /\ Committed.partRows # inv.page.total
          /\ Restart(cp.plan, cp.of, <<>>)
       \/ /\ ~inv.page.more /\ Committed.partRows = inv.page.total
          /\ Put(NextPartition(Committed))
          /\ walked' = walked \cup cp.plan[cp.part]
          /\ UNCHANGED <<claims, sweeps>>
    /\ UNCHANGED <<rec, catalog, faults>>

\* The invocation times out or a call of it throws.
Die ==
    /\ inv.pc # "idle" /\ Fault
    /\ Return
    /\ UNCHANGED <<cp, rec, claims, catalog, sweeps, walked, refused>>

\* The catalog stream completes a catalog with another plan.
NewCatalog ==
    /\ inv.pc = "idle" /\ Fault
    /\ \E other \in Catalogs \ {catalog} : catalog' = other
    /\ UNCHANGED <<cp, rec, claims, inv, sweeps, walked, refused>>

-----------------------------------------------------------------------------
Landing == \/ StartCheckpoint \/ MigratePlan \/ ClaimPosition \/ Elapse \/ Fetch
           \/ Land \/ Commit
Next == \/ Landing \/ PauseStream \/ RejectPartition \/ OutgrowPartition \/ MissTotal
        \/ Die \/ NewCatalog

Spec == Init /\ [][Next]_vars
\* The schedule invokes the worker again and again, and pauses end.
FairSpec == Spec /\ WF_vars(Landing)
-----------------------------------------------------------------------------
(* isProviderLandingRecordCurrent: what a reader takes for a current row.  *)
IsCurrent(s, r) ==
    /\ cp # None /\ cp.last # None /\ rec[s][r] # None
    /\ LET now == IF cp.status = "complete" THEN cp ELSE cp.last IN
       rec[s][r].sweep = now.sweep /\ s = now.slot

Current == {r \in Rows : \E s \in Slots : IsCurrent(s, r)}

\* Rows, claims and the checkpoint are of their kind.
TypeOK ==
    /\ cp \in Checkpoint \cup {None}
    /\ rec \in [Slots -> [Rows -> {None} \cup [sweep : 1 .. sweeps, page : Nat \ {0}]]]
    /\ claims \subseteq [at : Nat \X Nat \X Nat, page : Nat \ {0}]
    /\ catalog \in Catalogs /\ walked \subseteq Leagues
    /\ inv.pc \in {"idle", "fetch", "land", "commit"}

\* Every checkpoint the worker writes is one its own store accepts: a refused
\* one would stop the stream for good (validateCheckpoint).
NoCheckpointRefused == ~refused

\* Readers see as many rows as the completed sweep counted as landed, whatever
\* the sweep that runs since has written, replayed or abandoned.
PublishedIsWhole ==
    cp # None /\ cp.last # None =>
        Cardinality(Current) = cp.last.counts.landed

\* A sweep completes only when it has reconciled every league of its catalog,
\* through whatever halving and deferring its partitions went.
CoversCatalog ==
    Complete' /\ cp # cp' => walked' = UNION Ranged(PlanOf[cp'.of])
PublishedCoversCatalog == [][CoversCatalog]_vars

\* A partition is counted once in a sweep.  The code does not keep this: the
\* primary walk goes on to the next partition after deferring one, even if that
\* one is deferred itself, and comes back to it in the end.
ReconciledOnce ==
    inv.pc = "commit" /\ ~inv.page.more => cp.plan[cp.part] \cap walked = {}

\* A sweep once begun is published when the provider answers again.
SweepIsPublished == Running ~> Complete
=============================================================================
