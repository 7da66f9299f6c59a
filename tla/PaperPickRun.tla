---------------------------- MODULE PaperPickRun ----------------------------
(***************************************************************************)
(* One generation of scheduled paper picks: the invocations of the         *)
(* scheduler for one scheduledFor (the rule's call, Step Functions'        *)
(* retries, a replay from the failure queue) over the generation's row and *)
(* the runs and items under it.                                            *)
(*                                                                         *)
(* A run is an allowlist tuple, an item an event of a run.  All money,     *)
(* token and call ceilings move together, by one reservation at a time, so *)
(* one counter stands for them.  The kill switch, the allowlist and an     *)
(* event's eligibility are choices: each check may say stop.  Leases run   *)
(* out whenever they like: a worker may sleep through its own.             *)
(***************************************************************************)
EXTENDS Integers, FiniteSets

CONSTANTS
  Runs,          \* number of allowlist tuples, taken in order
  Events,        \* events a query for candidates may return
  Invs,          \* invocations of the scheduler
  NoInv,
  Snapshots,     \* odds an item's evaluation may find current at its time
  NoSnapshot,
  Decisions,     \* what the model may decide: a pass, or a play at a price
  MaxEvents,     \* limits.events
  MaxCalls,      \* limits.modelCalls, and with it tokens and cost
  MaxConc        \* limits.concurrency

ASSUME InvAssumption == NoInv \notin Invs
ASSUME VerdictAssumption == "none" \notin Decisions /\ "attempt" \notin Decisions
ASSUME LimitAssumption == /\ Runs \in Nat \ {0}
                          /\ MaxEvents \in Nat \ {0}
                          /\ MaxCalls \in Nat \ {0}
                          /\ MaxConc \in Nat \ {0}
ASSUME EventAssumption == IsFiniteSet(Events)

VARIABLES
  admitted,      \* the EVENT rows of the generation
  admissions,    \* its admittedEvents
  calls,         \* budget.modelCalls
  conc,          \* budget.concurrency
  run,           \* RUN rows
  item,          \* ITEM rows
  claim,         \* EVALUATION_TERMINAL row of an item's inputs, by the odds among them
  evaluated,     \* evaluations (and their bets) persisted for an item, by those odds
  inv,           \* invocations between two calls
  at             \* their worker loops, by the item in hand

generation == <<admitted, admissions, calls, conc>>
results == <<claim, evaluated>>
vars == <<generation, run, item, results, inv, at>>

Run == 1..Runs
ItemId == Run \X Events
\* A decision (a play brings its paper bet), or an attempt that reached none.
Verdict == Decisions \cup {"attempt"}
\* An item ends evaluated or, with one reason or another (a skip, a limit, an attempt, a
\* failure), stopped.
Terminal == {"evaluation", "stopped"}
\* The identity of an evaluation.
EvaluationId == Snapshots \X Decisions
NoEvaluation == <<NoSnapshot, "none">>

RunRow == [state: {"none", "ready", "running", "partial", "complete"},
           manifest: SUBSET Events, counted: SUBSET Events]
NoRun == [state |-> "none", manifest |-> {}, counted |-> {}]
ItemRow == [state: {"none", "ready", "claimed", "terminal"},
            token: Invs \cup {NoInv}, leased: BOOLEAN, held: BOOLEAN,
            terminal: Terminal \cup {"none"}, id: EvaluationId \cup {NoEvaluation}]
NoItem == [state |-> "none", token |-> NoInv, leased |-> FALSE, held |-> FALSE,
           terminal |-> "none", id |-> NoEvaluation]

Inv == [pc: {"list", "admit", "items", "work", "write", "conflict", "done"},
        run: 1..(Runs + 1),
        todo: SUBSET Events,           \* candidates, or items still to be created
        found: SUBSET Events,          \* admitted candidates, or items to be worked
        next: RunRow]
Loop == [pc: {"todo", "check", "boundary", "evaluate", "settle", "persist",
              "release", "finish", "done"},
         odds: Snapshots \cup {NoSnapshot},
         verdict: Verdict \cup {"none"},
         kind: Terminal]
Todo == [pc |-> "todo", odds |-> NoSnapshot, verdict |-> "none", kind |-> "stopped"]
Worked == [Todo EXCEPT !.pc = "done"]
Started(r) == [pc |-> "list", run |-> r, todo |-> {}, found |-> {}, next |-> NoRun]
Over(pc) == [Started(Runs + 1) EXCEPT !.pc = pc]

Init ==
  /\ admitted = {} /\ admissions = 0 /\ calls = 0 /\ conc = 0
  /\ run = [r \in Run |-> NoRun]
  /\ item = [x \in ItemId |-> NoItem]
  /\ claim = [x \in ItemId |-> [s \in Snapshots |-> "none"]]
  /\ evaluated = [x \in ItemId |-> [s \in Snapshots |-> {}]]
  /\ inv = [i \in Invs |-> Started(1)]
  /\ at = [i \in Invs |-> [e \in Events |-> Todo]]

Id(i, e) == <<inv[i].run, e>>
Become(i, e, l) == at' = [at EXCEPT ![i][e] = l]
Row(x, r) == item' = [item EXCEPT ![x] = r]

-----------------------------------------------------------------------------
(* Discovery: candidates, admission, run and items. *)

\* resolveStrategyVersion may find none, and the tuple is passed over.
NextTuple(i) ==
  /\ inv[i].pc = "list" /\ inv[i].run \in Run
  /\ inv' = [inv EXCEPT ![i] = Started(inv[i].run + 1)]
  /\ UNCHANGED <<generation, run, item, results, at>>

List(i) ==
  /\ inv[i].pc = "list" /\ inv[i].run \in Run
  /\ \E offered \in SUBSET Events :
       inv' = [inv EXCEPT ![i] = [@ EXCEPT !.pc = "admit", !.todo = offered, !.found = {}]]
  /\ UNCHANGED <<generation, run, item, results, at>>

EndOfAllowlist(i) ==
  /\ inv[i].pc = "list" /\ inv[i].run \notin Run
  /\ inv' = [inv EXCEPT ![i] = Over("done")]
  /\ UNCHANGED <<generation, run, item, results, at>>

Admissible(e) == e \notin admitted /\ admissions < MaxEvents
AdmitEvent(i) ==
  /\ inv[i].pc = "admit"
  /\ \E e \in inv[i].todo :
       /\ IF Admissible(e)
          THEN admitted' = admitted \cup {e} /\ admissions' = admissions + 1
          ELSE UNCHANGED <<admitted, admissions>>
       /\ inv' = [inv EXCEPT ![i] = [@ EXCEPT
                 !.todo = inv[i].todo \ {e},
                 !.found = IF e \in admitted' THEN inv[i].found \cup {e} ELSE inv[i].found]]
  /\ UNCHANGED <<calls, conc, run, item, results, at>>

\* The first run row stands: a later invocation works the manifest it finds.
CreateRun(i) ==
  LET r == inv[i].run
  IN  /\ inv[i].pc = "admit" /\ inv[i].todo = {}
      /\ run' = IF run[r].state # "none" THEN run
                ELSE [run EXCEPT ![r] = [NoRun EXCEPT !.state = "ready",
                                                      !.manifest = inv[i].found]]
      /\ inv' = [inv EXCEPT ![i] = [@ EXCEPT !.pc = "items", !.todo = run'[r].manifest,
                                             !.found = run'[r].manifest]]
      /\ UNCHANGED <<generation, item, results, at>>

\* The items of Promise.all, in any order.
Fresh(x) == item[x] = [NoItem EXCEPT !.state = "ready"]
CreateItem(i) ==
  /\ inv[i].pc = "items"
  /\ \E e \in inv[i].todo :
       LET x == Id(i, e)
       IN  /\ item[x] = NoItem \/ Fresh(x)
           /\ Row(x, [NoItem EXCEPT !.state = "ready"])
           /\ inv' = [inv EXCEPT ![i].todo = @ \ {e}]
  /\ UNCHANGED <<generation, run, results, at>>

\* An item that exists must equal the one intended, down to its state.
ItemConflict(i) ==
  /\ inv[i].pc = "items"
  /\ \E e \in inv[i].todo : item[Id(i, e)] # NoItem /\ ~ Fresh(Id(i, e))
  /\ inv' = [inv EXCEPT ![i] = Over("conflict")]
  /\ UNCHANGED <<generation, run, item, results, at>>

BeginWork(i) ==
  /\ inv[i].pc = "items" /\ inv[i].todo = {}
  /\ inv' = [inv EXCEPT ![i].pc = "work"]
  /\ UNCHANGED <<generation, run, item, results, at>>

-----------------------------------------------------------------------------
(* One item in a worker loop. *)

Busy(i) == {e \in inv[i].found : at[i][e].pc \notin {"todo", "done"}}
Working(i, e) == inv[i].pc = "work" /\ e \in inv[i].found

Taken(x, i) ==
  [item[x] EXCEPT !.state = "claimed", !.token = i, !.leased = TRUE, !.held = FALSE]
Claimable(x) == \/ item[x].state = "ready"
                \/ item[x].state = "claimed" /\ ~ item[x].leased
\* claimItem; one that loses a race leaves the item as it would have found it.
ClaimItem(i, e) ==
  LET x == Id(i, e)
  IN  /\ Working(i, e) /\ at[i][e].pc = "todo" /\ Cardinality(Busy(i)) < MaxConc
      /\ IF Claimable(x)
         THEN /\ Row(x, Taken(x, i))
              /\ conc' = IF item[x].held THEN conc - 1 ELSE conc
              /\ Become(i, e, [Todo EXCEPT !.pc = "check"])
         ELSE /\ Become(i, e, Worked)
              /\ UNCHANGED <<item, conc>>
      /\ UNCHANGED <<admitted, admissions, calls, run, results, inv>>

Stop(i, e) == Become(i, e, [Todo EXCEPT !.pc = "release"])
Step(i, e, pc) == Become(i, e, [at[i][e] EXCEPT !.pc = pc])

\* The policy, the event or a ceiling says no, or a call throws and the loop's catch has it.
StopItem(i, e) ==
  /\ Working(i, e)
  /\ at[i][e].pc \in {"check", "boundary", "evaluate", "settle", "persist"}
  /\ Stop(i, e)
  /\ UNCHANGED <<generation, run, item, results, inv>>

Held(x, i) == item[x].token = i /\ item[x].state = "claimed"
\* variant: reserve leaves the ceilings to reconciliation.
AffordableAlways == TRUE
Affordable == calls < MaxCalls /\ conc < MaxConc
Reserve(i, e) ==
  LET x == Id(i, e)
  IN  /\ Working(i, e) /\ at[i][e].pc = "check"
      /\ IF Held(x, i) /\ item[x].leased /\ ~ item[x].held
         THEN IF Affordable
              THEN /\ calls' = calls + 1
                   /\ conc' = conc + 1
                   /\ Row(x, [item[x] EXCEPT !.held = TRUE])
                   /\ Step(i, e, "boundary")
              ELSE Stop(i, e) /\ UNCHANGED <<calls, conc, item>>
         ELSE Stop(i, e) /\ UNCHANGED <<calls, conc, item>>
      /\ UNCHANGED <<admitted, admissions, run, results, inv>>

\* The checks before the paid call, and the lease.  A call that read its clock in time renews
\* a lease that has run out since, if nobody took it.
RenewItem(i, e) ==
  LET x == Id(i, e)
  IN  /\ Working(i, e) /\ at[i][e].pc = "boundary" /\ Held(x, i)
      /\ Row(x, [item[x] EXCEPT !.leased = TRUE])
      /\ Step(i, e, "evaluate")
      /\ UNCHANGED <<generation, run, results, inv>>

\* PickEvaluationService up to its terminal.  What fails before the evidence is read is an
\* attempt on inputs of its own, which nothing contradicts (StopItem); odds too thin or too new
\* and a model that abstains or answers badly are attempts on the inputs an evaluation would
\* have.  Odds retrieved before the scheduled time may be committed after it, so that two reads
\* of what is current differ.
Evaluate(i, e) ==
  /\ Working(i, e) /\ at[i][e].pc = "evaluate"
  /\ \E v \in Verdict, s \in Snapshots :
       Become(i, e, [Todo EXCEPT !.pc = "settle", !.odds = s, !.verdict = v])
  /\ UNCHANGED <<generation, run, item, claim, evaluated, inv>>

Agrees(x, l) == claim[x][l.odds] \in {"none", l.verdict}
\* variant: an input that was claimed before is one whose evaluation was stored.
ReplayIsStored(x, l) ==
  IF claim[x][l.odds] = l.verdict
  THEN [l EXCEPT !.pc = "release",
                 !.kind = IF l.verdict = "attempt" THEN "stopped" ELSE "evaluation"]
  ELSE [l EXCEPT !.pc = "persist"]
AfterClaim(x, l) == [l EXCEPT !.pc = "persist"]
ClaimTerminal(i, e) ==
  LET x == Id(i, e)  l == at[i][e]
  IN  /\ Working(i, e) /\ l.pc = "settle"
      /\ IF Agrees(x, l)
         THEN claim' = [claim EXCEPT ![x][l.odds] = l.verdict] /\ Become(i, e, AfterClaim(x, l))
         ELSE Stop(i, e) /\ UNCHANGED claim
      /\ UNCHANGED <<generation, run, item, evaluated, inv>>

Persist(i, e) ==
  LET x == Id(i, e)  l == at[i][e]
  IN  /\ Working(i, e) /\ at[i][e].pc = "persist"
      /\ IF l.verdict = "attempt" THEN Stop(i, e) /\ UNCHANGED evaluated
         ELSE /\ Become(i, e, [l EXCEPT !.pc = "release", !.kind = "evaluation"])
              /\ evaluated' = [evaluated EXCEPT ![x][l.odds] = @ \cup {l.verdict}]
      /\ UNCHANGED <<generation, run, item, claim, inv>>

\* variant: the slot goes back without asking whose claim it is.
MayReleaseAny(x, i) == item[x].held
MayRelease(x, i) == item[x].held /\ item[x].token = i /\ conc >= 1
\* What it throws is swallowed: a transaction conflict on the generation's row keeps the slot.
ReleaseConcurrency(i, e) ==
  LET x == Id(i, e)
  IN  /\ Working(i, e) /\ at[i][e].pc = "release"
      /\ Step(i, e, "finish")
      /\ \/ /\ MayRelease(x, i)
            /\ conc' = conc - 1
            /\ Row(x, [item[x] EXCEPT !.held = FALSE])
         \/ UNCHANGED <<conc, item>>
      /\ UNCHANGED <<admitted, admissions, calls, run, results, inv>>

Finishable(x, i) == Held(x, i)
\* What it throws is swallowed too, and a call may have read its clock too late.
FinishItem(i, e) ==
  LET x == Id(i, e)  l == at[i][e]
  IN  /\ Working(i, e) /\ l.pc = "finish"
      /\ Become(i, e, Worked)
      /\ \/ /\ Finishable(x, i)
            /\ Row(x, [item[x] EXCEPT !.state = "terminal", !.terminal = l.kind,
                                      !.id = IF l.kind = "evaluation"
                                             THEN <<l.odds, l.verdict>> ELSE NoEvaluation])
         \/ UNCHANGED item
      /\ UNCHANGED <<generation, run, results, inv>>

-----------------------------------------------------------------------------
(* The run's checkpoint: what was listed is written later. *)

Ended(r) == {e \in Events : item[<<r, e>>].state = "terminal"}
Listed(r) == {e \in Events : item[<<r, e>>].state # "none"}
Summary(r) ==
  [run[r] EXCEPT !.counted = Ended(r),
                 !.state = IF Ended(r) = Listed(r) THEN "complete"
                           ELSE IF Ended(r) = {} THEN "running" ELSE "partial"]

ReadRun(i) ==
  LET r == inv[i].run
  IN  /\ inv[i].pc = "work" /\ \A e \in inv[i].found : at[i][e].pc = "done"
      /\ inv' = [inv EXCEPT ![i] = IF run[r].state = "complete" THEN Started(r + 1)
                                   ELSE [Started(r) EXCEPT !.pc = "write", !.next = Summary(r)]]
      /\ at' = [at EXCEPT ![i] = [e \in Events |-> Todo]]
      /\ UNCHANGED <<generation, run, item, results>>

CheckpointRun(i) ==
  LET r == inv[i].run
  IN  /\ inv[i].pc = "write"
      /\ run' = IF run[r].state = "complete" THEN run ELSE [run EXCEPT ![r] = inv[i].next]
      /\ inv' = [inv EXCEPT ![i] = Started(r + 1)]
      /\ UNCHANGED <<generation, item, results, at>>

-----------------------------------------------------------------------------
(* Time and failure. *)

LeaseRunsOut(x) ==
  /\ item[x].state = "claimed" /\ item[x].leased
  /\ Row(x, [item[x] EXCEPT !.leased = FALSE])
  /\ UNCHANGED <<generation, run, results, inv, at>>

\* The Lambda's timeout, or a call outside the loops' catch that throws.
Crash(i) ==
  /\ inv[i].pc \notin {"done", "conflict"}
  /\ inv' = [inv EXCEPT ![i] = Over("done")]
  /\ at' = [at EXCEPT ![i] = [e \in Events |-> Todo]]
  /\ UNCHANGED <<generation, run, item, results>>

Discover(i) ==
  \/ NextTuple(i) \/ List(i) \/ EndOfAllowlist(i) \/ AdmitEvent(i) \/ CreateRun(i)
  \/ CreateItem(i) \/ ItemConflict(i) \/ BeginWork(i)
Work(i, e) ==
  \/ ClaimItem(i, e) \/ StopItem(i, e) \/ Reserve(i, e) \/ RenewItem(i, e)
  \/ Evaluate(i, e) \/ ClaimTerminal(i, e) \/ Persist(i, e)
  \/ ReleaseConcurrency(i, e) \/ FinishItem(i, e)

Next ==
  \/ \E i \in Invs :
       \/ Discover(i)
       \/ \E e \in Events : Work(i, e)
       \/ ReadRun(i) \/ CheckpointRun(i) \/ Crash(i)
  \/ \E x \in ItemId : LeaseRunsOut(x)

Spec == Init /\ [][Next]_vars

-----------------------------------------------------------------------------
(* Properties *)

TypeOK ==
  /\ admitted \subseteq Events
  /\ admissions \in Nat
  /\ calls \in 0..MaxCalls /\ conc \in Int
  /\ run \in [Run -> RunRow]
  /\ item \in [ItemId -> ItemRow]
  /\ claim \in [ItemId -> [Snapshots -> Verdict \cup {"none"}]]
  /\ evaluated \in [ItemId -> [Snapshots -> SUBSET Decisions]]
  /\ inv \in [Invs -> Inv]
  /\ at \in [Invs -> [Events -> Loop]]

\* Every slot that is out is an item's, and there are never more than the limit.
Slots == {x \in ItemId : item[x].held}
SlotsAreHeld == conc = Cardinality(Slots) /\ conc <= MaxConc

\* A worker that pays for a model call under a claim that still stands has its slot out.
PaidWorkHoldsSlot ==
  \A i \in Invs : \A e \in inv[i].found :
    at[i][e].pc \in {"evaluate", "settle", "persist"} /\ Held(Id(i, e), i) => item[Id(i, e)].held

\* A generation works no more events than its limit, and a run only admitted ones.
AdmissionBound ==
  /\ Cardinality(admitted) = admissions /\ admissions <= MaxEvents
  /\ \A r \in Run : run[r].manifest \subseteq admitted

\* The same item on the same odds has at most one evaluation, however many workers judged it
\* and whatever each of them made of it; a claim to the contrary leaves none.
OneEvaluationPerInput ==
  \A x \in ItemId, s \in Snapshots :
    evaluated[x][s] # {} => evaluated[x][s] = {claim[x][s]}

\* An item that ended as evaluated names an evaluation that was persisted for it.
TerminalNamesEvaluation ==
  \A x \in ItemId : item[x].terminal = "evaluation" =>
    \E s \in Snapshots : \E d \in evaluated[x][s] : item[x].id = <<s, d>>

\* A complete run has nothing left to do, and all of it is counted.
CompleteIsComplete ==
  \A r \in Run : run[r].state = "complete" =>
    run[r].counted = run[r].manifest /\ Ended(r) = run[r].manifest

\* The first terminal of an item stands, and only the holder of its claim writes it.
TerminalStands ==
  [][\A x \in ItemId :
       /\ item[x].state = "terminal" =>
            /\ item'[x].state = "terminal"
            /\ item'[x].terminal = item[x].terminal /\ item'[x].id = item[x].id
       /\ item[x].state # "terminal" /\ item'[x].state = "terminal" =>
            \E i \in Invs : /\ item[x].token = i
                            /\ \E e \in Events : x = Id(i, e) /\ at[i][e].pc = "finish"]_vars

\* A run's budget: a slot in use names an item, paid work holds its item's slot, and no
\* more events are admitted than the run allows.
PicksAreBudgeted == SlotsAreHeld /\ PaidWorkHoldsSlot /\ AdmissionBound

\* However often an item is taken over, one input has one evaluation, an ended item names
\* one that is stored, a completed run has only ended items, and what ended is not
\* rewritten.
PicksEndOnce == /\ [](OneEvaluationPerInput /\ TerminalNamesEvaluation /\ CompleteIsComplete)
                /\ TerminalStands

(* What documents say of the program, and it does not do.                  *)

\* pick-004: a retry of a generation returns the existing run and items and resumes them.
RetryResumes == \A i \in Invs : inv[i].pc # "conflict"

\* pick-004: at most one evaluation and paper bet exist for an item.
OneEvaluation ==
  \A x \in ItemId : Cardinality(UNION {evaluated[x][s] : s \in Snapshots}) <= 1

\* pick-004: an item that has ended gives its concurrency back.
EndedHoldsNoSlot == \A x \in ItemId : item[x].state = "terminal" => ~ item[x].held
=============================================================================
