---------------------------- MODULE OddsLanding -----------------------------
(***************************************************************************)
(* The landing of the provider's odds: runPagedStream of                   *)
(* apps/workers/src/provider-landing.ts for a stream whose pages are       *)
(* reached by an opaque cursor and need not tell a total.  Each position   *)
(* is claimed for its page number before the paid request, so that a chain *)
(* of cursors that comes back on itself is told from a replay.             *)
(***************************************************************************)
EXTENDS Naturals, FiniteSets

CONSTANTS
    Cursors, Initial, End,  \* Initial and End are not cursors
    Rows,
    Feed,           \* the page at each position: its rows and the next cursor
    MaxSweeps,      \* bound: sweeps started, restarts not counted
    MaxFaults,      \* bound: crashes, refusals, wrong answers
    None

Positions == Cursors \cup {Initial}
Slots == {0, 1}
Page == [rows : SUBSET Rows, next : Cursors \cup {End}]
Record     == [sweep : Nat, page : Nat \ {0}]
Published  == [sweep : Nat, slot : Slots, landed : Nat]
Checkpoint ==
    [status : {"running", "complete"}, sweep : Nat, slot : Slots, cursor : Positions,
     pages : Nat, source : Nat, landed : Nat, pending : Page \cup {None},
     paused : BOOLEAN, last : Published \cup {None}]

OddsAssumption ==
    /\ Initial \notin Cursors \cup {End} /\ End \notin Cursors
    /\ Feed \in [Positions -> Page]
    /\ IsFiniteSet(Rows)
    /\ None \notin Page /\ None \notin Record /\ None \notin Checkpoint /\ None \notin Published

VARIABLES
    cp,         \* CHECKPOINT#odds
    rec,        \* rec[slot][row] : sweep and page of a landed row
    claims,     \* POSITION rows of this sweep (their keys name the sweep)
    paid,       \* history: requests of this sweep
    inv,        \* the invocation: where it stands, the page it holds
    sweeps,     \* sweeps begun, restarts included
    faults

vars == <<cp, rec, claims, paid, inv, sweeps, faults>>

Idle    == [pc |-> "idle", page |-> None, dups |-> 0]
Running == cp # None /\ cp.status = "running"
Return  == inv' = Idle

Init ==
    /\ cp = None
    /\ rec = [s \in Slots |-> [r \in Rows |-> None]]
    /\ claims = {}
    /\ paid = {}
    /\ inv = Idle
    /\ sweeps = 0
    /\ faults = 0

\* A sweep from the initial cursor; what a sweep before it claimed is not
\* looked at any more.
Begin(slot, last) ==
    /\ cp' = [status |-> "running", sweep |-> sweeps + 1, slot |-> slot, cursor |-> Initial,
              pages |-> 0, source |-> 0, landed |-> 0, pending |-> None,
              paused |-> FALSE, last |-> last]
    /\ sweeps' = sweeps + 1
    /\ claims' = {}
    /\ paid' = {}

\* variant: the next sweep writes the published slot.
PublishedSlot(c) == c.slot
OtherSlot(c) == 1 - c.slot

StartSweep ==
    /\ inv.pc = "idle"
    /\ ~Running
    /\ sweeps < MaxSweeps
    /\ IF cp = None THEN Begin(0, None) ELSE Begin(OtherSlot(cp), cp.last)
    /\ UNCHANGED <<rec, inv, faults>>

\* restartCheckpointAfterDrift.
Restart == Begin(cp.slot, cp.last)

PageNumber == cp.pages + 1

Cycle == \E k \in claims : k.cursor = cp.cursor /\ k.page # PageNumber

ClaimPosition ==
    /\ inv.pc = "idle"
    /\ Running /\ ~cp.paused
    /\ \/ /\ Cycle
          /\ Restart
          /\ UNCHANGED inv
       \/ /\ ~Cycle
          /\ claims' = claims \cup {[cursor |-> cp.cursor, page |-> PageNumber]}
          /\ paid' = paid \cup {[cursor |-> cp.cursor, page |-> PageNumber]}
          /\ inv' = [inv EXCEPT !.pc = "fetch"]
          /\ UNCHANGED <<cp, sweeps>>
    /\ UNCHANGED <<rec, faults>>

Fault == faults < MaxFaults /\ faults' = faults + 1

\* No admission, a rate limit, an ambiguous answer or a refusal.
PauseStream ==
    /\ inv.pc = "fetch" /\ Fault
    /\ cp' = [cp EXCEPT !.paused = TRUE]
    /\ Return
    /\ UNCHANGED <<rec, claims, paid, sweeps>>

Elapse ==
    /\ cp # None /\ cp.paused
    /\ cp' = [cp EXCEPT !.paused = FALSE]
    /\ UNCHANGED <<rec, claims, paid, inv, sweeps, faults>>

\* The provider does not know the cursor any more: the chain starts anew.
RejectCursor ==
    /\ inv.pc = "fetch" /\ Fault
    /\ cp.cursor # Initial
    /\ Restart
    /\ Return
    /\ UNCHANGED rec

Contradicts(page) == cp.pending # None /\ cp.pending # page

Receive(page) ==
    IF Contradicts(page)
    THEN Restart /\ Return
    ELSE /\ cp' = [cp EXCEPT !.pending = page]
         /\ inv' = [inv EXCEPT !.pc = "land", !.page = page]
         /\ UNCHANGED <<claims, paid, sweeps>>

FetchOdds ==
    /\ inv.pc = "fetch"
    /\ \/ Receive(Feed[cp.cursor]) /\ UNCHANGED faults
       \/ Fault /\ \E page \in Page : Receive(page)
    /\ UNCHANGED rec

Duplicates(rows) ==
    {r \in rows : /\ rec[cp.slot][r] # None /\ rec[cp.slot][r].sweep = cp.sweep
                  /\ rec[cp.slot][r].page # PageNumber}

\* BatchWrite may put a part of the rows before the invocation dies.
Land ==
    /\ inv.pc = "land"
    /\ \E rows \in SUBSET (inv.page.rows \ Duplicates(inv.page.rows)) :
          /\ \/ /\ rows = inv.page.rows \ Duplicates(inv.page.rows)
                /\ inv' = [inv EXCEPT !.pc = "commit",
                                      !.dups = Cardinality(inv.page.rows \ rows)]
                /\ UNCHANGED faults
             \/ Fault /\ Return
          /\ rec' = [rec EXCEPT ![cp.slot] = [r \in Rows |->
                        IF r \in rows THEN [sweep |-> cp.sweep, page |-> PageNumber] ELSE @[r]]]
    /\ UNCHANGED <<cp, claims, paid, sweeps>>

\* A page may tell how many rows the walk has, and its telling may be wrong:
\* more rows were seen before the page is landed, or another number at the end.
MismatchTotal ==
    /\ \/ inv.pc = "land"
       \/ inv.pc = "commit" /\ inv.page.next = End
    /\ Fault
    /\ Restart
    /\ Return
    /\ UNCHANGED rec

Counted ==
    [cp EXCEPT !.pages = @ + 1, !.pending = None,
               !.source = @ + Cardinality(inv.page.rows),
               !.landed = @ + Cardinality(inv.page.rows) - inv.dups]

Commit ==
    /\ inv.pc = "commit"
    /\ Return
    /\ cp' = IF inv.page.next # End THEN [Counted EXCEPT !.cursor = inv.page.next]
             ELSE [Counted EXCEPT !.status = "complete",
                                  !.last = [sweep |-> cp.sweep, slot |-> cp.slot,
                                            landed |-> Counted.landed]]
    /\ UNCHANGED <<rec, claims, paid, sweeps, faults>>

Die ==
    /\ inv.pc # "idle" /\ Fault
    /\ Return
    /\ UNCHANGED <<cp, rec, claims, paid, sweeps>>

-----------------------------------------------------------------------------
Landing == StartSweep \/ ClaimPosition \/ Elapse \/ FetchOdds \/ Land \/ Commit
Next == Landing \/ PauseStream \/ RejectCursor \/ MismatchTotal \/ Die

Spec == Init /\ [][Next]_vars
\* The schedule invokes the worker again and again, and pauses end.
FairSpec == Spec /\ WF_vars(Landing)

-----------------------------------------------------------------------------
\* The rows a reader takes for current (isProviderLandingRecordCurrent).
Current == {r \in Rows : /\ cp # None /\ cp.last # None /\ rec[cp.last.slot][r] # None
                         /\ rec[cp.last.slot][r].sweep = cp.last.sweep}

\* Rows, claims and the checkpoint are of their kind.
TypeOK ==
    /\ cp \in Checkpoint \cup {None} /\ (cp # None => cp.landed <= cp.source)
    /\ rec \in [Slots -> [Rows -> {None} \cup [sweep : 1 .. sweeps, page : Nat \ {0}]]]
    /\ claims \subseteq [cursor : Positions, page : Nat \ {0}] /\ paid \subseteq claims
    /\ inv.pc \in {"idle", "fetch", "land", "commit"}

\* A cursor is paid for under one page number: a replay is free to pay again,
\* a chain that comes back on itself is not.
PaidUnderOnePage == \A a, b \in paid : a.cursor = b.cursor => a = b

\* Readers see as many rows as the completed sweep counted as landed, whatever
\* was landed twice, quarantined, replayed or abandoned.
OddsAreWhole ==
    cp # None /\ cp.last # None => Cardinality(Current) = cp.last.landed

=============================================================================
