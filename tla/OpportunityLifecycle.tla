------------------------ MODULE OpportunityLifecycle ------------------------
(***************************************************************************)
(* The life of one opportunity: candidates that generation runs evaluate   *)
(* and persist, the head that they and the expiration sweeps move through  *)
(* its states (packages/domain/src/opportunities/opportunity-lifecycle.ts  *)
(* over packages/database/src/opportunities/                               *)
(* dynamodb-opportunity-lifecycle-repository.ts), and the rank row readers *)
(* find it by.  An opportunity is bound to version 1 of its event; a       *)
(* material change of the event is version 2.  There is one generation run *)
(* and one sweep at a time (reserved concurrency 1), each dated with the   *)
(* time it was scheduled for, which may be past when it acts.              *)
(***************************************************************************)
EXTENDS Naturals, FiniteSets

CONSTANTS
    StartsAt,       \* the event's start, as of version 1
    PriceAge,       \* a candidate's prices are good for so long
    EventAge,       \* and what is known of the event for so long
    Statuses,       \* what a candidate may say
    LastTime,       \* bound: the clock
    MaxCandidates,  \* bound: candidates evaluated
    MaxFaults,      \* bound: runs that die or start late
    None

VARIABLES
    now,        \* the clock
    event,      \* EVENT_DETAIL: version, when it was written, over or not
    persisted,  \* OPPORTUNITY_CANDIDATE rows
    head,       \* OPPORTUNITY_LIFECYCLE#..., HEAD
    rank,       \* OPPORTUNITY_RANK#..., CURRENT
    work,       \* work[a] : where a run stands and what it has read
    retired,    \* history: candidates that were active and then not
    faults

vars == <<now, event, persisted, head, rank, work, retired, faults>>
world == <<now, event, faults>>
rows  == <<head, rank, retired>>

Actors == {"generate", "sweep"}
Times  == 0 .. LastTime
Evidence == [kind : {"current", "indeterminate"}, version : {1, 2}, at : Times]
\* What a candidate says; its prices may be older than its evaluation.
Candidate == [at : Times, prices : Times, status : Statuses]
Idle == [pc |-> "idle", asOf |-> 0, candidate |-> None, from |-> 0, evidence |-> None,
         read |-> None, attempts |-> 0]

States == {"active", "suspended", "stale", "disqualified", "closed"}
Head == [state : States, version : Nat, candidate : Candidate, at : Times,
         expires : 0 .. LastTime + StartsAt + 1, evidence : Evidence,
         command : {None} \cup [by : Actors, candidate : Candidate, evidence : Evidence,
                                from : Nat, asOf : Times]]
Rank == [version : Nat, candidate : Candidate]

LifecycleAssumption ==
    /\ {StartsAt, PriceAge, EventAge, LastTime, MaxCandidates} \subseteq Nat
    /\ "qualified" \in Statuses
    /\ Statuses \subseteq {"qualified", "disqualified", "stale", "suspended"}
    /\ None \notin Candidate /\ None \notin Head /\ None \notin Rank

Min2(a, b) == IF a < b THEN a ELSE b
\* opportunityCandidateExpiresAt.
Expires(c) == Min2(c.prices + PriceAge + 1, StartsAt)

\* A head from before there were rank rows may be active without one.
Init ==
    /\ now = 0
    /\ event = [version |-> 1, at |-> 0, over |-> FALSE]
    /\ \/ persisted = {} /\ head = None
       \/ LET c == [at |-> 0, prices |-> 0, status |-> "qualified"] IN
          /\ persisted = {c}
          /\ head = [state |-> "active", version |-> 1, candidate |-> c,
                     expires |-> Expires(c), at |-> 0, command |-> None,
                     evidence |-> [kind |-> "current", version |-> 1, at |-> 0]]
    /\ rank = None
    /\ work = [a \in Actors |-> Idle]
    /\ retired = {}
    /\ faults = 0

-----------------------------------------------------------------------------
(* Time and the event ingestion.                                           *)
Tick == now < LastTime /\ now' = now + 1 /\ UNCHANGED <<event, persisted, rows, work, faults>>

\* Whatever refreshes an event, be it a report of the same content, moves its
\* version too.
ChangeEvent ==
    /\ event.version = 1
    /\ \E over \in BOOLEAN : event' = [version |-> 2, at |-> now, over |-> over]
    /\ UNCHANGED <<now, persisted, rows, work, faults>>

Fault == faults < MaxFaults /\ faults' = faults + 1
\* A run is dated with the time it was scheduled for.
Dated(asOf) ==
    \/ asOf = now /\ UNCHANGED faults
    \/ asOf + 1 = now /\ Fault

Become(a, w) == work' = [work EXCEPT ![a] = w]
Return(a)    == Become(a, Idle)

-----------------------------------------------------------------------------
(* A generation run evaluates the games it was listed as scheduled.        *)
StartGeneration ==
    /\ work["generate"].pc = "idle"
    /\ event.version = 1
    /\ \E asOf \in Times : /\ Dated(asOf) /\ asOf < StartsAt
                           /\ Become("generate", [Idle EXCEPT !.pc = "evaluate", !.asOf = asOf])
    /\ UNCHANGED <<now, event, persisted, rows>>

\* A repeated run may find other prices for its time.
PersistCandidate ==
    LET w == work["generate"] IN
    /\ w.pc = "evaluate"
    /\ \E c \in [at : {w.asOf}, prices : 0 .. w.asOf, status : Statuses] :
          /\ c \in persisted \/ Cardinality(persisted) < MaxCandidates
          /\ persisted' = persisted \cup {c}
          /\ Become("generate", [w EXCEPT !.pc = "event", !.candidate = c])
    /\ UNCHANGED <<world, rows>>

\* A sweep finds the heads that are active.
Discover ==
    /\ work["sweep"].pc = "idle"
    /\ head # None /\ head.state = "active"
    /\ \E asOf \in Times :
          /\ Dated(asOf)
          /\ Become("sweep", [Idle EXCEPT !.pc = "event", !.asOf = asOf, !.from = head.version,
                                          !.candidate = head.candidate])
    /\ UNCHANGED <<now, event, persisted, rows>>

-----------------------------------------------------------------------------
(* DynamoOpportunityLifecycleEventEvidenceSource.read: evidence from after *)
(* the date of the run is refused, old evidence of an event to come says   *)
(* nothing.                                                                *)
Read(asOf) ==
    [kind |-> IF ~event.over /\ event.at + EventAge < asOf THEN "indeterminate" ELSE "current",
     version |-> event.version, at |-> event.at]

ReadEvent(a) ==
    /\ work[a].pc = "event"
    /\ IF event.at > work[a].asOf THEN Return(a)
       ELSE Become(a, [work[a] EXCEPT !.pc = "head", !.evidence = Read(work[a].asOf)])
    /\ UNCHANGED <<world, persisted, rows>>

\* classify: the state of a candidate at a time, given the event.
Classified(c, evidence, asOf) ==
    CASE evidence.kind = "current" /\ (evidence.version > 1 \/ asOf >= StartsAt) -> "closed"
      [] evidence.kind = "indeterminate" -> "suspended"
      [] OTHER -> IF c.status # "qualified" THEN c.status
                  ELSE IF asOf >= Expires(c) THEN "stale" ELSE "active"

Command(a) ==
    LET w == work[a] IN
    [by |-> a, candidate |-> w.candidate, evidence |-> w.evidence, from |-> w.from,
     asOf |-> IF a = "sweep" THEN w.asOf ELSE 0]

\* reduceOpportunityLifecycle: a command that cannot be ...
Refused(a, old) ==
    LET w == work[a] IN
    \/ w.asOf < w.candidate.at
    \/ /\ old # None /\ old.command # Command(a) /\ old.state # "closed" /\ old.at <= w.asOf
       /\ w.candidate.at = old.candidate.at /\ w.candidate # old.candidate

\* ... one the head is ahead of ...
Outrun(a, old) ==
    \/ old.command = Command(a)
    \/ old.state = "closed"
    \/ work[a].asOf < old.at
    \/ work[a].candidate.at < old.candidate.at
    \/ a = "generate" /\ work[a].candidate = old.candidate

\* ... and the head it makes.
Successor(a, old) ==
    LET w == work[a]
        state == Classified(w.candidate, w.evidence, w.asOf)
    IN  [state |-> state, version |-> IF old = None THEN 1 ELSE old.version + 1,
         candidate |-> w.candidate, at |-> w.asOf, command |-> Command(a),
         expires |-> IF state = "active" THEN Expires(w.candidate) ELSE LastTime + 1,
         evidence |-> w.evidence]

Same(old, new) ==
    old # None /\ old.candidate = new.candidate /\ old.state = new.state
      /\ old.expires = new.expires /\ old.evidence = new.evidence

\* A replay of an active head heals its rank row.
Replayed(a, old) ==
    IF old.state = "active" /\ old.candidate = work[a].candidate
    THEN Become(a, [work[a] EXCEPT !.pc = "heal", !.read = old])
    ELSE Return(a)

ReadHead(a) ==
    /\ work[a].pc = "head"
    /\ IF Refused(a, head) THEN Return(a)
       ELSE IF head # None /\ (Outrun(a, head) \/ Same(head, Successor(a, head)))
       THEN Replayed(a, head)
       ELSE Become(a, [work[a] EXCEPT !.pc = "commit", !.read = head])
    /\ UNCHANGED <<world, persisted, rows>>

-----------------------------------------------------------------------------
(* The transaction: the event is at the version read, the head is the one  *)
(* read; the rank row is put or deleted with it.                           *)
\* variant: the event is not checked.
EventAnyway(a) == TRUE
Fence(a) == event.version = work[a].evidence.version
HeadStands(a) == head = work[a].read

RankOf(new) == IF new.state = "active"
               THEN [version |-> new.version, candidate |-> new.candidate] ELSE None

\* A sweep that lost reads the winner and tries again, twice.
Conflict(a) ==
    LET w == work[a] IN
    IF a = "sweep" /\ w.attempts < 2 /\ head # None /\ head.state = "active"
    THEN Become(a, [Idle EXCEPT !.pc = "event", !.asOf = w.asOf, !.from = head.version,
                                !.candidate = head.candidate, !.attempts = w.attempts + 1])
    ELSE Return(a)

Commit(a) ==
    /\ work[a].pc = "commit"
    /\ \/ /\ Fence(a) /\ HeadStands(a)
          /\ LET new == Successor(a, work[a].read) IN
             /\ head' = new
             /\ rank' = RankOf(new)
             /\ retired' = IF head # None /\ head.state = "active"
                              /\ (new.state # "active" \/ new.candidate # head.candidate)
                           THEN retired \cup {head.candidate} ELSE retired
          /\ Return(a)
       \/ /\ ~(Fence(a) /\ HeadStands(a))
          /\ Conflict(a)
          /\ UNCHANGED rows
    /\ UNCHANGED <<world, persisted>>

\* reconcileRankProjection.
MayHeal(a) == Fence(a) /\ HeadStands(a)

Heal(a) ==
    /\ work[a].pc = "heal"
    /\ \/ /\ MayHeal(a)
          /\ rank' = RankOf(work[a].read)
          /\ Return(a)
          /\ UNCHANGED <<head, retired>>
       \/ /\ ~MayHeal(a)
          /\ Conflict(a)
          /\ UNCHANGED rows
    /\ UNCHANGED <<world, persisted>>

Die(a) ==
    /\ work[a].pc # "idle" /\ Fault
    /\ Return(a)
    /\ UNCHANGED <<now, event, persisted, rows>>

-----------------------------------------------------------------------------
Project(a) == ReadEvent(a) \/ ReadHead(a) \/ Commit(a) \/ Heal(a)
Sweep == Discover \/ Project("sweep")
Next ==
    \/ Tick \/ ChangeEvent
    \/ StartGeneration \/ PersistCandidate \/ Discover
    \/ \E a \in Actors : Project(a) \/ Die(a)

Spec == Init /\ [][Next]_vars
\* The rule starts a sweep every five minutes, and time passes.
FairSpec == Spec /\ WF_vars(Tick) /\ WF_vars(Sweep)

-----------------------------------------------------------------------------
\* Rows and runs are of their kind.
TypeOK ==
    /\ persisted \subseteq Candidate
    /\ head \in Head \cup {None} /\ rank \in Rank \cup {None}
    /\ head # None => head.candidate \in persisted
    /\ \A a \in Actors : /\ work[a].pc \in {"idle", "evaluate", "event", "head", "commit", "heal"}
                         /\ work[a].asOf \in Times /\ work[a].attempts \in 0 .. 2
                         /\ work[a].candidate \in persisted \cup {None}

\* What readers find by rank is the head as it stands: active, at this state
\* version, for this candidate, whoever moved it and whoever healed the row.
RankFollowsHead ==
    rank # None => head # None /\ rank = RankOf(head)

\* A head opens for readers only while the event it was bound to is unchanged
\* and has not started at the date of the run, whatever was read before.
Opens == head' # None /\ head'.state = "active" /\ head' # head
OpensOnLiveEvent ==
    [][Opens => event.version = 1 /\ head'.at < StartsAt /\ head'.at < head'.expires]_vars

\* An opportunity is over when it is closed, follows ever newer candidates, and
\* never comes back with a candidate it had given up, however late a run is.
NeverRevived ==
    [][/\ head # None /\ head.state = "closed" => head' = head
       /\ head # None /\ head' # head =>
             /\ head'.version = head.version + 1
             /\ head.candidate.at <= head'.candidate.at
       /\ Opens => head'.candidate \notin retired]_vars

\* An active head is moved on once its prices or its event are too old or the
\* event is another.
Overdue == /\ head # None /\ head.state = "active"
           /\ now >= head.expires \/ event.version > 1
OverdueIsRetired == Overdue ~> ~Overdue

\* An active head is found by rank in the end, those from before the rank rows
\* too.
Unranked == head # None /\ head.state = "active" /\ rank = None
ActiveIsRanked == []<>~Unranked
=============================================================================
