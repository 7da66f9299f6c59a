------------------------------ MODULE EventWalk ------------------------------
(***************************************************************************)
(* The checkpointed walk of one upcoming-event window                      *)
(* (apps/workers/src/upcoming-event-orchestrator.ts) over its store        *)
(* (packages/database/src/dynamodb-event-ingestion.ts).                    *)
(*                                                                         *)
(* A message of the FIFO queue names the window: message 0 is the          *)
(* scheduler's command, message n > 0 the continuation of epoch n, which   *)
(* is valid only while the checkpoint stands at that epoch.  A worker      *)
(* walks one page at a time: it fetches the page, fences its events, puts  *)
(* its fingerprint, ingests the events and commits checkpoint, cursor      *)
(* marker and the outbox row of the next continuation in one transaction.  *)
(* It then either claims that row itself (page budget left) or publishes   *)
(* it.  Every row but the checkpoint is put under a condition of its own.  *)
(***************************************************************************)
EXTENDS Naturals, Sequences, FiniteSets

CONSTANTS
    Workers,        \* Lambda invocations that may run at the same time
    Cursors, Events, Start, Terminal,
    None,           \* no row, no message
    Feed,           \* the page the provider has at each position
    MaxPages,       \* the page budget of the scheduler's command
    MaxFaults,      \* bound: crashes, failed calls and changed answers
    MaxBootstraps   \* bound: checkpoint writes of the bootstrap loop

Positions == Cursors \cup {Start}
Page      == [events : SUBSET Events, next : Cursors \cup {Terminal}]

ASSUME WalkAssumption ==
    /\ Start \notin Cursors \cup {Terminal} /\ Terminal \notin Cursors /\ IsFiniteSet(Cursors)
    /\ None \notin Positions \cup Page
    /\ None \notin [pos : Positions \cup {Terminal}, epoch : Nat, rev : Nat]
    /\ Feed \in [Positions -> Page]
    /\ MaxPages \in Nat \ {0} /\ MaxFaults \in Nat

VARIABLES
    checkpoint,     \* CHECKPOINT#key, compared by value: rev names the value
    outbox,         \* outbox[n] : the OUTBOX row of epoch n
    fingerprint,    \* PROVIDER_PAGE#key : the answer recorded per position
    fence,          \* PROVIDER_EVENT_FENCE#key : the page that holds an event
    queue,          \* messages not yet acknowledged
    sent,           \* epochs ever published
    work,           \* the workers' locals
    faults          \* faults so far

rows == <<checkpoint, outbox, fingerprint, fence>>
vars == <<rows, queue, sent, work, faults>>

Idle == [pc |-> "idle", msg |-> 0, active |-> 0, budget |-> 0, cp |-> None,
         page |-> None, todo |-> {}, conflict |-> FALSE,
         claimed |-> 0, version |-> 0, final |-> FALSE]

\* The row at the head of OUTBOX_PENDING#key: the lowest undelivered epoch.
Pending == {n \in DOMAIN outbox : outbox[n].state # "delivered"}
Oldest    == CHOOSE n \in Pending : \A k \in Pending : n <= k

\* The position a checkpoint read by a worker stands for.
At(cp)  == IF cp = None THEN Start ELSE cp.pos
Epoch(cp) == IF cp = None THEN 0 ELSE cp.epoch

\* CURSOR_MARKER#key: every cursor a commit has stored.
Markers == {outbox[n].cursor : n \in DOMAIN outbox}

Goto(w, pc)   == work' = [work EXCEPT ![w].pc = pc]
\* The execution returns: the record is acknowledged.
Acknowledge(w) == /\ work' = [work EXCEPT ![w] = Idle]
                  /\ queue' = queue \ {work[w].msg}
\* The execution throws: the record stays and is delivered again.
Throw(w)      == work' = [work EXCEPT ![w] = Idle] /\ UNCHANGED queue

-----------------------------------------------------------------------------
Init ==
    /\ checkpoint = None /\ outbox = <<>>
    /\ fingerprint = [p \in Positions |-> None]
    /\ fence = [e \in Events |-> None]
    /\ queue = {0} /\ sent = {} /\ faults = 0
    /\ work = [w \in Workers |-> Idle]

\* The queue delivers a record, which another worker may be working on.
Receive(w, m) ==
    /\ work[w].pc = "idle" /\ m \in queue
    /\ work' = [work EXCEPT ![w] = [Idle EXCEPT !.pc = "read", !.msg = m]]
    /\ UNCHANGED <<rows, queue, sent, faults>>

\* The checkpoint is read and the command compared with it: a continuation
\* of another epoch does nothing, the scheduler's command may not stand at a
\* cursor.
StaleContinuation(m) == /\ m > 0
                        /\ \/ checkpoint = None
                           \/ checkpoint # None /\ (\/ checkpoint.epoch # m
                                                    \/ checkpoint.pos = Terminal)
MidWalk(m) == m = 0 /\ checkpoint # None /\ checkpoint.pos \in Cursors

ReadCheckpoint(w) ==
    /\ work[w].pc = "read"
    /\ LET m == work[w].msg IN
         \/ StaleContinuation(m) /\ Acknowledge(w)
         \/ MidWalk(m) /\ Throw(w)
         \/ /\ ~StaleContinuation(m) /\ ~MidWalk(m)
            /\ work' = [work EXCEPT ![w] = [@ EXCEPT
                          !.pc = "drain", !.cp = checkpoint, !.active = m,
                          !.budget = IF m = 0 THEN MaxPages ELSE outbox[m].budget]]
            /\ UNCHANGED queue
    /\ UNCHANGED <<rows, sent, faults>>

\* claimPendingContinuation: the head of the pending rows, if it is an intent
\* or its claim has run out; the claimant is the run, the same for every
\* worker that executes the same command.
Claimable(n) == ~outbox[n].leased
\* variant: the row is archived when it is claimed.
ClaimedAsDelivered(n, run) == [outbox EXCEPT ![n] =
                                [@ EXCEPT !.state = "delivered", !.claimant = run]]
Claimed(n, run) == [outbox EXCEPT ![n] = [@ EXCEPT
                        !.state = "claimed", !.leased = TRUE, !.claimant = run,
                        !.version = outbox[n].version + 1]]

\* What follows the drain on entry, and the drain after the last commit.
Drained(w) ==
    IF work[w].final \/ At(work[w].cp) = Terminal
    THEN Acknowledge(w)
    ELSE Goto(w, "fetch") /\ UNCHANGED queue

Drain(w) ==
    /\ work[w].pc = "drain"
    /\ \/ /\ Pending # {} /\ Claimable(Oldest)
          /\ outbox' = Claimed(Oldest, work[w].active)
          /\ work' = [work EXCEPT ![w] = [@ EXCEPT !.pc = "publish", !.claimed = Oldest]]
          /\ UNCHANGED queue
       \/ /\ Pending # {} /\ ~Claimable(Oldest)
          /\ Goto(w, "blocked") /\ UNCHANGED <<outbox, queue>>
       \/ /\ Pending = {} /\ Drained(w) /\ UNCHANGED outbox
    /\ UNCHANGED <<checkpoint, fingerprint, fence, sent, faults>>

\* hasUndeliveredContinuation, read after a claim that was refused.
Blocked(w) ==
    /\ work[w].pc = "blocked"
    /\ IF Pending # {} THEN Throw(w) ELSE Drained(w)
    /\ UNCHANGED <<rows, sent, faults>>

Publish(w) ==
    /\ work[w].pc = "publish"
    /\ queue' = queue \cup {work[w].claimed}
    /\ sent' = sent \cup {work[w].claimed}
    /\ Goto(w, "mark")
    /\ UNCHANGED <<rows, faults>>

\* markContinuationDelivered: only the claimant archives a pending row; a row
\* that is archived already is left alone.
MayMark(w) == LET row == outbox[work[w].claimed] IN
    row.state = "delivered" \/ (row.state = "claimed" /\ row.claimant = work[w].active)

Mark(w) ==
    /\ work[w].pc = "mark"
    /\ IF MayMark(w)
       THEN /\ outbox' = [outbox EXCEPT ![work[w].claimed] =
                             [@ EXCEPT !.state = "delivered", !.leased = FALSE]]
            /\ work' = [work EXCEPT ![w] = [@ EXCEPT
                             !.pc = IF work[w].final THEN "end" ELSE "drain",
                             !.claimed = 0]]
            /\ UNCHANGED queue
       ELSE Throw(w) /\ UNCHANGED outbox
    /\ UNCHANGED <<checkpoint, fingerprint, fence, sent, faults>>

Return(w) ==
    /\ work[w].pc = "end" /\ Acknowledge(w)
    /\ UNCHANGED <<rows, sent, faults>>

-----------------------------------------------------------------------------
\* The provider answers with the page it has, or, if it changed its mind,
\* with another; a cursor the walk has followed is refused.
Stalled(page) == page.next \in Markers

Fetch(w, page) ==
    /\ work[w].pc = "fetch"
    /\ IF page = Feed[At(work[w].cp)] THEN UNCHANGED faults
       ELSE faults < MaxFaults /\ faults' = faults + 1
    /\ IF Stalled(page) THEN Throw(w)
       ELSE /\ work' = [work EXCEPT ![w] = [@ EXCEPT !.pc = "fences", !.page = page]]
            /\ UNCHANGED queue
    /\ UNCHANGED <<rows, sent>>

\* getProviderEventFences: no event may be held by another page.
HeldElsewhere(w) == {e \in work[w].page.events :
                        fence[e] \notin {None, At(work[w].cp)}}

ReadFences(w) ==
    /\ work[w].pc = "fences"
    /\ IF HeldElsewhere(w) # {} THEN Throw(w)
       ELSE Goto(w, "fingerprint") /\ UNCHANGED queue
    /\ UNCHANGED <<rows, sent, faults>>

\* recordProviderPageFingerprint: the first answer of a position stands.
\* variant: the last answer of a position stands.
LastAnswerStands(w) == TRUE
Matches(w) == fingerprint[At(work[w].cp)] \in {None, work[w].page}

PutFingerprint(w) ==
    /\ work[w].pc = "fingerprint"
    /\ IF Matches(w)
       THEN /\ fingerprint' = [fingerprint EXCEPT ![At(work[w].cp)] = work[w].page]
            /\ work' = [work EXCEPT ![w] = [@ EXCEPT !.pc = "ingest", !.todo = work[w].page.events,
                                                     !.conflict = FALSE]]
       ELSE Throw(w) /\ UNCHANGED fingerprint
    /\ UNCHANGED <<checkpoint, outbox, fence, queue, sent, faults>>

\* The bootstrap of identities the store does not know writes the checkpoint,
\* compared with the copy the worker holds, without moving it.
Bootstrap(w) ==
    /\ work[w].pc = "ingest"
    /\ work[w].todo = work[w].page.events /\ work[w].todo # {}
    /\ (IF checkpoint = None THEN 0 ELSE checkpoint.rev) < MaxBootstraps
    /\ IF checkpoint = work[w].cp
       THEN LET next == [pos |-> At(checkpoint), epoch |-> Epoch(checkpoint),
                         rev |-> IF checkpoint = None THEN 1 ELSE checkpoint.rev + 1]
            IN /\ checkpoint' = next
               /\ work' = [work EXCEPT ![w].cp = next]
       ELSE Throw(w) /\ UNCHANGED checkpoint
    /\ UNCHANGED <<outbox, fingerprint, fence, queue, sent, faults>>

\* ingestEvent puts the event's fence in the transaction that stores it; the
\* calls of a batch all settle before one that was refused ends the walk.
MayHold(e, pos) == fence[e] \in {None, pos}


Ingest(w, e) ==
    /\ work[w].pc = "ingest" /\ e \in work[w].todo
    /\ fence' = IF MayHold(e, At(work[w].cp))
                THEN [fence EXCEPT ![e] = At(work[w].cp)] ELSE fence
    /\ work' = [work EXCEPT ![w] = [@ EXCEPT
                        !.todo = work[w].todo \ {e},
                        !.conflict = work[w].conflict \/ ~MayHold(e, At(work[w].cp))]]
    /\ UNCHANGED <<checkpoint, outbox, fingerprint, queue, sent, faults>>

\* commitCheckpoint, one transaction: the checkpoint is still the worker's
\* copy, the cursor has no marker, the predecessor it consumes is pending
\* under the version the worker claimed.
Committable(w) ==
    /\ checkpoint = work[w].cp
    /\ work[w].page.next \notin Markers
    /\ work[w].claimed # 0 =>
           /\ outbox[work[w].claimed].state = "claimed"
           /\ outbox[work[w].claimed].version = work[w].version

Consumed(w) ==
    IF work[w].claimed = 0 THEN outbox
    ELSE [outbox EXCEPT ![work[w].claimed] = [@ EXCEPT !.state = "delivered", !.leased = FALSE]]

\* The continuation's command has one page less to walk, but at least one.
Intent(w) == [state |-> "intent", claimant |-> 0, leased |-> FALSE, version |-> 1,
              cursor |-> work[w].page.next,
              budget |-> IF work[w].budget > 1 THEN work[w].budget - 1 ELSE 1]

\* variant: the last page counts as an epoch.
CommittedCountingEnd(w) ==
    [pos |-> work[w].page.next, epoch |-> Epoch(work[w].cp) + 1,
     rev |-> IF work[w].cp = None THEN 1 ELSE work[w].cp.rev + 1]

Committed(w) ==
    [pos   |-> work[w].page.next,
     epoch |-> Epoch(work[w].cp) + (IF work[w].page.next = Terminal THEN 0 ELSE 1),
     rev   |-> IF work[w].cp = None THEN 1 ELSE work[w].cp.rev + 1]

Commit(w) ==
    /\ work[w].pc = "ingest" /\ work[w].todo = {}
    /\ IF work[w].conflict \/ ~Committable(w)
       THEN Throw(w) /\ UNCHANGED <<checkpoint, outbox>>
       ELSE /\ checkpoint' = Committed(w)
            /\ outbox' = IF work[w].page.next = Terminal THEN Consumed(w)
                         ELSE Append(Consumed(w), Intent(w))
            /\ work' = [work EXCEPT ![w] = [@ EXCEPT
                    !.cp = Committed(w), !.claimed = 0, !.final = work[w].budget = 1,
                    !.pc = IF work[w].page.next = Terminal THEN "end"
                           ELSE IF work[w].budget > 1 THEN "claim" ELSE "drain"]]
            /\ UNCHANGED queue
    /\ UNCHANGED <<fingerprint, fence, sent, faults>>

\* claimContinuationLocally: with page budget left the worker walks on under
\* the command it has just stored.  What heads the pending rows is claimed
\* before it is compared with that command.
ClaimLocally(w) ==
    /\ work[w].pc = "claim"
    /\ \/ /\ Pending # {} /\ Claimable(Oldest)
          /\ outbox' = Claimed(Oldest, work[w].active)
          /\ LET n == work[w].cp.epoch IN
             \/ /\ Oldest = n
                /\ work' = [work EXCEPT ![w] = [@ EXCEPT
                              !.pc = "fetch", !.active = n, !.claimed = n,
                              !.version = outbox[n].version + 1,
                              !.budget = outbox[n].budget]]
                /\ UNCHANGED queue
             \/ Oldest # n /\ Throw(w)
       \/ /\ ~(Pending # {} /\ Claimable(Oldest))
          /\ Throw(w) /\ UNCHANGED outbox
    /\ UNCHANGED <<checkpoint, fingerprint, fence, sent, faults>>

\* The Lambda is killed, or a call of the provider, the publisher or the
\* store fails: the locals are gone and the record is delivered again.
Crash(w) ==
    /\ work[w].pc # "idle" /\ faults < MaxFaults
    /\ Throw(w) /\ faults' = faults + 1
    /\ UNCHANGED <<rows, sent>>

\* A claim is 120 s old.
LeaseRunsOut(n) ==
    /\ outbox[n].leased
    /\ outbox' = [outbox EXCEPT ![n].leased = FALSE]
    /\ UNCHANGED <<checkpoint, fingerprint, fence, queue, sent, work, faults>>

Step(w) ==
    \/ ReadCheckpoint(w) \/ Drain(w) \/ Blocked(w) \/ Publish(w) \/ Mark(w)
    \/ \E page \in Page : Fetch(w, page)
    \/ ReadFences(w) \/ PutFingerprint(w)
    \/ \E e \in Events : Ingest(w, e)
    \/ Commit(w) \/ ClaimLocally(w) \/ Return(w)

Next == \/ \E w \in Workers : Step(w) \/ Bootstrap(w) \/ Crash(w)
        \/ \E w \in Workers, m \in queue : Receive(w, m)
        \/ \E n \in DOMAIN outbox : LeaseRunsOut(n)

Spec == Init /\ [][Next]_vars

(***************************************************************************)
(* Lambda runs an invocation it has started, a lease runs out, and the     *)
(* queue delivers a record again as long as nobody acknowledges it: the    *)
(* visibility timeout (180 s) is longer than the lease (120 s), and a head *)
(* of the FIFO group that keeps failing is set aside.                      *)
(***************************************************************************)
Epochs == 0 .. Cardinality(Cursors)

Fairness ==
    /\ \A w \in Workers : WF_vars(Step(w))
    /\ \A n \in Epochs : WF_vars(n \in DOMAIN outbox /\ LeaseRunsOut(n))
    /\ \A m \in Epochs : SF_vars(m \in queue /\ \E w \in Workers : Receive(w, m))

FairSpec == Spec /\ Fairness

-----------------------------------------------------------------------------
Row == [state : {"intent", "claimed", "delivered"}, claimant : Epochs,
        leased : BOOLEAN, version : Nat, cursor : Cursors, budget : 1 .. MaxPages]

TypeOK ==
    /\ checkpoint \in {None} \cup [pos : Positions \cup {Terminal}, epoch : Epochs, rev : Nat]
    /\ outbox \in Seq(Row) /\ Len(outbox) <= Cardinality(Cursors)
    /\ fingerprint \in [Positions -> Page \cup {None}]
    /\ fence \in [Events -> Positions \cup {None}]
    /\ queue \subseteq Epochs /\ sent \subseteq DOMAIN outbox
    /\ faults \in 0 .. MaxFaults
    /\ \A w \in Workers : work[w].cp = None \/ work[w].cp.epoch \in Epochs

\* The positions the checkpoint has left behind, in order.
Trail == <<Start>> \o [n \in DOMAIN outbox |-> outbox[n].cursor]
Left  == IF At(checkpoint) = Terminal THEN Trail ELSE SubSeq(Trail, 1, Epoch(checkpoint))

(***************************************************************************)
(* A checkpoint never runs ahead of its pages: every page it has left      *)
(* behind has its fingerprint, leads to the position that follows, and     *)
(* every event of it is stored and fenced by that page, whoever walked it  *)
(* and however often it was begun (commitCheckpoint after ingestEvent).    *)
(***************************************************************************)
CheckpointCoversPages ==
    \A i \in DOMAIN Left :
        /\ fingerprint[Left[i]] # None
        /\ fingerprint[Left[i]].next = IF i < Len(Trail) THEN Trail[i + 1] ELSE Terminal
        /\ \A e \in fingerprint[Left[i]].events : fence[e] = Left[i]

(***************************************************************************)
(* A continuation is archived only if the queue has had it or the walk has *)
(* gone past it: no epoch is lost by a drain, a local claim or a claim     *)
(* that ran out (markContinuationDelivered, the consumed predecessor).     *)
(***************************************************************************)
Past(n) == checkpoint # None /\ (checkpoint.epoch > n \/ checkpoint.pos = Terminal)

DeliveredWasSent ==
    \A n \in DOMAIN outbox :
        outbox[n].state = "delivered" => n \in sent \/ Past(n)

(***************************************************************************)
(* The walk leaves no undelivered continuation behind: a pending row is    *)
(* the one of the epoch the checkpoint stands at.                          *)
(***************************************************************************)
PendingIsCurrent ==
    Pending # {} => /\ Pending = {Epoch(checkpoint)}
                    /\ At(checkpoint) = outbox[Epoch(checkpoint)].cursor

\* The checkpoint of a window never runs ahead of its pages, no continuation is archived that
\* the queue has not had or the walk gone past, and none but the current one is pending.
CheckpointIsCovered == CheckpointCoversPages /\ DeliveredWasSent /\ PendingIsCurrent

(***************************************************************************)
(* The committed walk is a cursor walk: pages are taken in order, each     *)
(* once, no cursor twice, no event from two pages.                         *)
(***************************************************************************)
WalkedPages == [i \in DOMAIN Left |-> fingerprint[Left[i]]]
Abstract == INSTANCE CursorWalk WITH taken <- WalkedPages, position <- At(checkpoint)
IsCursorWalk == Abstract!Spec

(***************************************************************************)
(* A continuation the queue has taken is walked past, unless the provider  *)
(* did not repeat a page it had already answered with.                     *)
(***************************************************************************)
AnswerChanged == \E p \in Positions : fingerprint[p] \notin {None, Feed[p]}

SentIsWalked ==
    \A n \in Epochs \ {0} : (n \in sent) ~> (Past(n) \/ AnswerChanged)

(***************************************************************************)
(* A continuation the checkpoint depends on reaches the queue, or the walk *)
(* goes past it (spec-fte-data-002 AC 12 and 13).  The code does not keep  *)
(* this: the command that committed it is not valid any more when it is    *)
(* delivered again.                                                        *)
(***************************************************************************)
IntentIsSent ==
    \A n \in Epochs \ {0} : (n \in DOMAIN outbox) ~> (n \in sent \/ Past(n))
=============================================================================
