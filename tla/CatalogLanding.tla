--------------------------- MODULE CatalogLanding ---------------------------
(***************************************************************************)
(* The landing of the provider's catalog (runCatalog of                    *)
(* apps/workers/src/provider-landing.ts).  The snapshot is fetched whole,  *)
(* sealed in the checkpoint together with the event plan derived from it,  *)
(* and written in chunks, each counted by the checkpoint before the next   *)
(* one.  An invocation stops at its deadline or dies, and the next one     *)
(* fetches the snapshot again and goes on where the counts stand, unless   *)
(* the snapshot is another one: then the sweep restarts in its slot.       *)
(***************************************************************************)
EXTENDS Naturals, Sequences, FiniteSets

CONSTANTS
    Rows,           \* sports, leagues and quarantined rows
    Snapshots,      \* what the provider may answer ...
    Truth,          \* ... and what it answers in the end
    RowsOf, HasPlan, \* a snapshot: its rows in order; its event plan is not empty
    Chunk,          \* rows of a chunk
    MaxSweeps,      \* bound: sweeps started, restarts not counted
    MaxFaults,      \* bound: crashes, refusals, other snapshots
    None

Slots == {0, 1}
Published  == [sweep : Nat, slot : Slots, rows : Nat]
Checkpoint ==
    [status : {"running", "complete"}, sweep : Nat, slot : Slots, counted : Nat,
     pending : Snapshots \cup {None}, plan : Snapshots \cup {None}, paused : BOOLEAN,
     last : Published \cup {None}]

CatalogAssumption ==
    /\ Truth \in Snapshots
    /\ RowsOf \in [Snapshots -> Seq(Rows)]
    /\ HasPlan \in [Snapshots -> BOOLEAN]
    /\ Chunk \in Nat \ {0}
    /\ None \notin Snapshots \cup Nat /\ None \notin Checkpoint /\ None \notin Published

VARIABLES
    cp,         \* CHECKPOINT#catalog
    rec,        \* rec[slot][row] : the sweep of a landed row
    inv,        \* the invocation: where it stands, the snapshot it holds
    sweeps,     \* sweeps begun, restarts included
    faults

vars == <<cp, rec, inv, sweeps, faults>>

Idle  == [pc |-> "idle", snap |-> None]
Min2(a, b) == IF a < b THEN a ELSE b
Running == cp # None /\ cp.status = "running"

\* validateCheckpoint: an event plan has at least one partition.
Valid(c) == c.plan # None => HasPlan[c.plan]

Return == inv' = Idle
\* putCheckpoint: a checkpoint that is not valid is thrown back.
PutAndGo(c, next) ==
    IF Valid(c) THEN cp' = c /\ inv' = next ELSE Return /\ UNCHANGED cp

Init ==
    /\ cp = None
    /\ rec = [s \in Slots |-> [r \in Rows |-> None]]
    /\ inv = Idle
    /\ sweeps = 0
    /\ faults = 0

Fresh(slot, last) ==
    [status |-> "running", sweep |-> sweeps + 1, slot |-> slot, counted |-> 0,
     pending |-> None, plan |-> None, paused |-> FALSE, last |-> last]

StartSweep ==
    /\ inv.pc = "idle"
    /\ ~Running
    /\ sweeps < MaxSweeps
    /\ cp' = IF cp = None THEN Fresh(0, None) ELSE Fresh(1 - cp.slot, cp.last)
    /\ sweeps' = sweeps + 1
    /\ UNCHANGED <<rec, inv, faults>>

Invoke ==
    /\ inv.pc = "idle"
    /\ Running /\ ~cp.paused
    /\ inv' = [inv EXCEPT !.pc = "fetch"]
    /\ UNCHANGED <<cp, rec, sweeps, faults>>

Fault == faults < MaxFaults /\ faults' = faults + 1

\* No admission, a rate limit, an ambiguous answer or a refusal.
PauseStream ==
    /\ inv.pc = "fetch" /\ Fault
    /\ cp' = [cp EXCEPT !.paused = TRUE]
    /\ Return
    /\ UNCHANGED <<rec, sweeps>>

Elapse ==
    /\ cp # None /\ cp.paused
    /\ cp' = [cp EXCEPT !.paused = FALSE]
    /\ UNCHANGED <<rec, inv, sweeps, faults>>

\* The snapshot is sealed with its plan, or contradicts the sealed one.
Contradicts(snap) == cp.pending # None /\ cp.pending # snap

Receive(snap) ==
    IF Contradicts(snap)
    THEN /\ cp' = Fresh(cp.slot, cp.last)
         /\ sweeps' = sweeps + 1
         /\ Return
    ELSE /\ IF cp.pending = None
            THEN PutAndGo([cp EXCEPT !.pending = snap, !.plan = snap],
                          [pc |-> "write", snap |-> snap])
            ELSE inv' = [pc |-> "write", snap |-> snap] /\ UNCHANGED cp
         /\ UNCHANGED sweeps

FetchCatalog ==
    /\ inv.pc = "fetch"
    /\ \/ Receive(Truth) /\ UNCHANGED faults
       \/ Fault /\ \E snap \in Snapshots : Receive(snap)
    /\ UNCHANGED rec

-----------------------------------------------------------------------------
(* The chunks: written, then counted.                                      *)
Records == RowsOf[inv.snap]
NextChunk == SubSeq(Records, cp.counted + 1, Min2(cp.counted + Chunk, Len(Records)))

\* BatchWrite may put a part of the chunk before the invocation dies.
PutRecords ==
    /\ inv.pc = "write"
    /\ cp.counted < Len(Records)
    /\ \E written \in SUBSET {NextChunk[i] : i \in DOMAIN NextChunk} :
          /\ \/ /\ written = {NextChunk[i] : i \in DOMAIN NextChunk}
                /\ inv' = [inv EXCEPT !.pc = "count"]
                /\ UNCHANGED faults
             \/ Fault /\ Return
          /\ rec' = [rec EXCEPT ![cp.slot] =
                        [r \in Rows |-> IF r \in written THEN cp.sweep ELSE @[r]]]
    /\ UNCHANGED <<cp, sweeps>>

CountChunk ==
    /\ inv.pc = "count"
    /\ cp' = [cp EXCEPT !.counted = @ + Len(NextChunk)]
    /\ inv' = [inv EXCEPT !.pc = "write"]
    /\ UNCHANGED <<rec, sweeps, faults>>

\* shouldContinue is false, the invocation times out or a call of it throws.
Stop ==
    /\ inv.pc # "idle" /\ Fault
    /\ Return
    /\ UNCHANGED <<cp, rec, sweeps>>

\* An empty catalog is not published.
Complete ==
    /\ inv.pc = "write"
    /\ cp.counted = Len(Records) /\ Records # <<>>
    /\ PutAndGo([cp EXCEPT !.status = "complete", !.pending = None, !.plan = inv.snap,
                           !.last = [sweep |-> cp.sweep, slot |-> cp.slot, rows |-> cp.counted]],
                Idle)
    /\ UNCHANGED <<rec, sweeps, faults>>

-----------------------------------------------------------------------------
Landing == \/ StartSweep \/ Invoke \/ Elapse \/ FetchCatalog \/ PutRecords \/ CountChunk
           \/ Complete
Next == Landing \/ PauseStream \/ Stop

Spec == Init /\ [][Next]_vars
\* The schedule invokes the worker again and again, and pauses end.
FairSpec == Spec /\ WF_vars(Landing)

-----------------------------------------------------------------------------
\* The records of the published sweep (isProviderLandingRecordCurrent, which
\* readers ask of them, takes a quarantined row for none).
Current == {r \in Rows : cp # None /\ cp.last # None /\ rec[cp.last.slot][r] = cp.last.sweep}

\* Rows and the checkpoint are of their kind.
TypeOK ==
    /\ cp \in Checkpoint \cup {None}
    /\ rec \in [Slots -> [Rows -> {None} \cup 1 .. sweeps]]
    /\ inv.pc \in {"idle", "fetch", "write", "count"}

\* The published catalog is one snapshot of the provider's, all of it, though
\* its chunks were written by several invocations that fetched it anew.
CatalogIsOneSnapshot ==
    cp # None /\ cp.last # None =>
        \E snap \in Snapshots : /\ Len(RowsOf[snap]) = cp.last.rows
                                /\ Current = {RowsOf[snap][i] : i \in DOMAIN RowsOf[snap]}

\* The plan published with a catalog is the plan of the rows published.
PlanMatchesRows ==
    cp # None /\ cp.status = "complete" =>
        Current = {RowsOf[cp.plan][i] : i \in DOMAIN RowsOf[cp.plan]}

\* A sweep of the catalog is published when the provider settles
\* (provider-landing.test.ts:409 expects it of a plan without partitions too).
CatalogIsPublished == Running ~> (cp # None /\ cp.status = "complete")
=============================================================================
