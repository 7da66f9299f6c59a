---------------------------- MODULE ResultGrading ----------------------------
(***************************************************************************)
(* Completed results and the grades of paper bets: the run over a          *)
(* provider's result pages (apps/workers/src/                              *)
(* completed-result-orchestrator.ts), the result rows it keeps             *)
(* (packages/database/src/dynamodb-result-repository.ts), and the grading  *)
(* of an event's bets with its current result (apps/workers/src/           *)
(* paper-grading.ts and the grade rows of                                  *)
(* packages/database/src/dynamodb-paper-grade-repository.ts).              *)
(*                                                                         *)
(* A result is named by its place in the authority order of the provider:  *)
(* a correction is the next number.  Page n of the feed lists event n.     *)
(* Runs overlap, share the checkpoint of their league, and may die between *)
(* any two calls.                                                          *)
(***************************************************************************)
EXTENDS Naturals, FiniteSets

CONSTANTS
    Runs,           \* invocations that may overlap
    LastPage,       \* events and pages of the feed are 1 .. LastPage
    Bets, EventOf,  \* paper bets, made when the event had version 1
    MaxResultOf,    \* bound: results of an event ...
    MaxResult,      \* ... and of any event
    MaxFaults,      \* bound: invocations that die, events that change
    None

Events  == 1 .. LastPage
Results == 1 .. MaxResult
Grade   == [result : Results, ordinal : Nat, supersedes : 0 .. MaxResult]

GradingAssumption ==
    /\ LastPage \in Nat \ {0} /\ MaxResult \in Nat
    /\ MaxResultOf \in [Events -> 0 .. MaxResult]
    /\ EventOf \in [Bets -> Events]
    /\ None \notin Grade

VARIABLES
    feed,       \* feed[e] : the result the provider lists, 0 if none
    version,    \* version[e] : of the canonical event
    history,    \* history[e][r] : event version in the HISTORY row, 0 if none
    exact,      \* exact[e][r] : the same in the RESULT_EXACT row
    current,    \* current[e] : the CURRENT result, 0 if none
    grades,     \* grades[b] : HISTORY rows of a bet's grades
    grade,      \* grade[b] : the CURRENT grade
    checkpoint, \* the page the next run starts at
    run,        \* run[w] : where an invocation stands and what it has read
    settled,    \* history: settled[e], the last result a run has graded with
    faults

vars == <<feed, version, history, exact, current, grades, grade, checkpoint, run, settled, faults>>
resultRows == <<history, exact, current>>
gradeRows  == <<grades, grade, settled>>
world      == <<feed, version, faults>>

Idle    == [pc |-> "idle", page |-> 1, result |-> 0, version |-> 1, seen |-> 0,
            todo |-> {}, read |-> None, prior |-> None, failed |-> FALSE]

\* compareResultAuthority.
Authority(g) == IF g = None THEN 0 ELSE g.result

Init ==
    /\ feed = [e \in Events |-> 0]
    /\ version = [e \in Events |-> 1]
    /\ history = [e \in Events |-> [r \in Results |-> 0]]
    /\ exact = history
    /\ current = [e \in Events |-> 0]
    /\ grades = [b \in Bets |-> {}]
    /\ grade = [b \in Bets |-> None]
    /\ checkpoint = 1
    /\ run = [w \in Runs |-> Idle]
    /\ settled = [e \in Events |-> 0]
    /\ faults = 0

-----------------------------------------------------------------------------
(* The provider and the event ingestion.                                   *)
\* A result is final, or corrected.
Announce ==
    /\ \E e \in Events : feed[e] < MaxResultOf[e] /\ feed' = [feed EXCEPT ![e] = @ + 1]
    /\ UNCHANGED <<version, resultRows, gradeRows, checkpoint, run, faults>>

\* The canonical event changes after the bets were made.
MoveEvent ==
    /\ faults < MaxFaults /\ faults' = faults + 1
    /\ \E e \in Events : version[e] = 1 /\ version' = [version EXCEPT ![e] = 2]
    /\ UNCHANGED <<feed, resultRows, gradeRows, checkpoint, run>>

-----------------------------------------------------------------------------
Goto(w, pc) == run' = [run EXCEPT ![w].pc = pc]
Stop(w)     == run' = [run EXCEPT ![w] = Idle]
On(w)       == run[w].page

\* The run reads its league's checkpoint ...
Begin(w) ==
    /\ run[w].pc = "idle"
    /\ run' = [run EXCEPT ![w] = [Idle EXCEPT !.pc = "fetch", !.page = checkpoint]]
    /\ UNCHANGED <<world, resultRows, gradeRows, checkpoint>>

\* ... the page there, and the event the result is bound to.
FetchPage(w) ==
    /\ run[w].pc = "fetch"
    /\ run' = [run EXCEPT ![w] = [@ EXCEPT !.pc = IF feed[On(w)] = 0 THEN "advance" ELSE "persist",
                                           !.result = feed[On(w)], !.version = version[On(w)]]]
    /\ UNCHANGED <<world, resultRows, gradeRows, checkpoint>>

-----------------------------------------------------------------------------
(* DynamoResultRepository.persist.                                         *)
ReadCurrent(w) ==
    /\ run[w].pc = "persist"
    /\ run' = [run EXCEPT ![w] = [@ EXCEPT !.pc = "history", !.seen = current[On(w)]]]
    /\ UNCHANGED <<world, resultRows, gradeRows, checkpoint>>

\* A row keeps what it was first written with.
First(row, new) == IF row = 0 THEN new ELSE row

\* The run goes on with the observation of the HISTORY row.
PutHistory(w) ==
    /\ run[w].pc = "history"
    /\ LET r == run[w].result  kept == First(history[On(w)][r], run[w].version) IN
       /\ history' = [history EXCEPT ![On(w)][r] = kept]
       /\ run' = [run EXCEPT ![w] = [@ EXCEPT !.pc = "exact", !.version = kept]]
    /\ UNCHANGED <<world, exact, current, gradeRows, checkpoint>>

\* A result that is not above the current one ends here.
Behind(w) == run[w].seen # 0 /\ run[w].result <= run[w].seen

PutExact(w) ==
    /\ run[w].pc = "exact"
    /\ exact' = [exact EXCEPT ![On(w)][run[w].result] = First(@, run[w].version)]
    /\ Goto(w, IF Behind(w) THEN "check" ELSE "current")
    /\ UNCHANGED <<world, history, current, gradeRows, checkpoint>>

Outranks(now, result) == now = 0 \/ now < result

PutCurrent(w) ==
    /\ run[w].pc = "current"
    /\ current' = [current EXCEPT ![On(w)] =
                      IF Outranks(@, run[w].result) THEN run[w].result ELSE @]
    /\ Goto(w, "check")
    /\ UNCHANGED <<world, history, exact, gradeRows, checkpoint>>

-----------------------------------------------------------------------------
(* PaperGradingService.gradeCurrentResult, bet by bet.                     *)
BetsOf(e) == {b \in Bets : EventOf[b] = e}

\* Bets are graded again whenever the result is still current, which repairs a
\* run that died between its result and its grades.
\* variant: a replay of a known result is not graded.
GradesNewOnly(w) == current[On(w)] = run[w].result /\ run[w].seen # run[w].result
Grades(w) == current[On(w)] = run[w].result

CheckCurrent(w) ==
    /\ run[w].pc = "check"
    /\ run' = [run EXCEPT ![w] = [@ EXCEPT !.pc = IF Grades(w) THEN "bet" ELSE "advance",
                                           !.todo = IF Grades(w) THEN BetsOf(On(w)) ELSE {}]]
    /\ UNCHANGED <<world, resultRows, gradeRows, checkpoint>>

\* The bet in hand: bets are listed in an order of their own.
Bet(w) == CHOOSE b \in run[w].todo : TRUE
Done(w, ok) ==
    run' = [run EXCEPT ![w] = [@ EXCEPT
                !.pc = "bet", !.todo = run[w].todo \ {Bet(w)},
                !.read = None, !.prior = None, !.failed = run[w].failed \/ ~ok]]

\* PaperGradingEvidenceRepository.read: the exact row of the current result,
\* for the version of the event the bet was made on.
ReadEvidence(w) ==
    /\ run[w].pc = "bet" /\ run[w].todo # {}
    /\ IF current[On(w)] = run[w].result /\ exact[On(w)][run[w].result] = 1
       THEN Goto(w, "grade") ELSE Done(w, FALSE)
    /\ UNCHANGED <<world, resultRows, gradeRows, checkpoint>>

ReadGrade(w) ==
    /\ run[w].pc = "grade"
    /\ run' = [run EXCEPT ![w] = [@ EXCEPT !.pc = "compare", !.read = grade[Bet(w)]]]
    /\ UNCHANGED <<world, resultRows, gradeRows, checkpoint>>

\* createPaperGrade: a replay is the row it repeats, another grade supersedes
\* the current one.
Graded(w) ==
    LET now == run[w].read IN
    IF now # None /\ now.result = run[w].result THEN now
    ELSE [result |-> run[w].result,
          ordinal |-> IF now = None THEN 0 ELSE now.ordinal + 1,
          supersedes |-> Authority(now)]

\* DynamoPaperGradeRepository.persist: what it reads ...
Follows(g, now) ==
    g.supersedes = Authority(now) /\ g.ordinal = (IF now = None THEN 0 ELSE now.ordinal + 1)

CompareGrade(w) ==
    /\ run[w].pc = "compare"
    /\ LET g == Graded(w)  now == grade[Bet(w)] IN
       IF g \in grades[Bet(w)] THEN Done(w, TRUE)
       ELSE IF now # None /\ g.result <= Authority(now) THEN Done(w, TRUE)
       ELSE IF ~Follows(g, now) THEN Done(w, FALSE)
       ELSE run' = [run EXCEPT ![w] = [@ EXCEPT !.pc = "write", !.prior = now]]
    /\ UNCHANGED <<world, resultRows, gradeRows, checkpoint>>

\* ... and its transaction, which another run may have overtaken.
\* variant: the current grade is put whatever it is.
PriorIgnored(w) == Graded(w) \notin grades[Bet(w)]
PriorStands(w) == grade[Bet(w)] = run[w].prior

WriteGrade(w) ==
    /\ run[w].pc = "write"
    /\ LET g == Graded(w)  b == Bet(w) IN
       \/ /\ PriorStands(w)
          /\ grades' = [grades EXCEPT ![b] = @ \cup {g}]
          /\ grade' = [grade EXCEPT ![b] = g]
          /\ Done(w, TRUE)
       \/ /\ ~PriorStands(w)
          /\ Done(w, IF g \in grades[b] THEN grade[b] = g ELSE g.result <= Authority(grade[b]))
          /\ UNCHANGED <<grades, grade>>
    /\ UNCHANGED <<world, resultRows, settled, checkpoint>>

\* A failed grade fails the run, and the page is read again.
MayAdvance(w) == ~run[w].failed

EndBets(w) ==
    /\ run[w].pc = "bet" /\ run[w].todo = {}
    /\ IF MayAdvance(w)
       THEN /\ Goto(w, "advance")
            /\ settled' = [settled EXCEPT ![On(w)] =
                              IF @ < run[w].result THEN run[w].result ELSE @]
       ELSE Stop(w) /\ UNCHANGED settled
    /\ UNCHANGED <<world, resultRows, grades, grade, checkpoint>>

-----------------------------------------------------------------------------
\* The checkpoint is saved behind every page and deleted behind the last; the
\* run goes on, or leaves the rest to the next one (maxPages).
Advance(w) ==
    /\ run[w].pc = "advance"
    /\ \/ /\ On(w) = LastPage
          /\ checkpoint' = 1
          /\ Stop(w)
       \/ /\ On(w) < LastPage
          /\ checkpoint' = On(w) + 1
          /\ \/ run' = [run EXCEPT ![w] = [Idle EXCEPT !.pc = "fetch", !.page = On(w) + 1]]
             \/ Stop(w)
    /\ UNCHANGED <<world, resultRows, gradeRows>>

\* The invocation times out or a call of it throws.
Die(w) ==
    /\ run[w].pc # "idle"
    /\ faults < MaxFaults
    /\ faults' = faults + 1
    /\ Stop(w)
    /\ UNCHANGED <<feed, version, resultRows, gradeRows, checkpoint>>

Work(w) ==
    \/ Begin(w) \/ FetchPage(w) \/ ReadCurrent(w) \/ PutHistory(w) \/ PutExact(w)
    \/ PutCurrent(w) \/ CheckCurrent(w) \/ ReadEvidence(w) \/ ReadGrade(w)
    \/ CompareGrade(w) \/ WriteGrade(w) \/ EndBets(w) \/ Advance(w)

Next == Announce \/ MoveEvent \/ \E w \in Runs : Work(w) \/ Die(w)

Spec == Init /\ [][Next]_vars
\* The schedule starts a run every hour, and one that does not die goes on.
FairSpec == Spec /\ \A w \in Runs : WF_vars(Work(w))

-----------------------------------------------------------------------------
\* Rows and runs are of their kind.
TypeOK ==
    /\ current \in [Events -> 0 .. MaxResult]
    /\ history \in [Events -> [Results -> 0 .. 2]] /\ exact \in [Events -> [Results -> 0 .. 2]]
    /\ \A b \in Bets : /\ grades[b] \subseteq Grade /\ grade[b] \in Grade \cup {None}
                       /\ \A g \in grades[b] : g.ordinal < MaxResult
    /\ checkpoint \in Events
    /\ \A w \in Runs : On(w) \in Events /\ run[w].todo \subseteq Bets

\* What is current has its exact row, which the grading of its bets reads, for the
\* event version of its history row, whatever runs stopped half-way or carried
\* another version.
CurrentIsExact ==
    \A e \in Events : current[e] # 0 =>
        exact[e][current[e]] # 0 /\ exact[e][current[e]] = history[e][current[e]]

\* The grades of a bet are one chain: each supersedes the one before it for a
\* result of higher authority, none is lost or repeated, the last is current
\* (docs/runbooks/paper-grading.md: "A stale result cannot advance the grade
\* projection").
GradesAreAChain ==
    \A b \in Bets :
        /\ {g.ordinal : g \in grades[b]} = {n \in 0 .. MaxResult : n < Cardinality(grades[b])}
        /\ \A g, h \in grades[b] :
              /\ h.ordinal = g.ordinal + 1 => h.supersedes = g.result /\ g.result < h.result
              /\ g.ordinal = 0 => g.supersedes = 0
        /\ grade[b] = None <=> grades[b] = {}
        /\ grade[b] # None => grade[b] \in grades[b]
                              /\ \A g \in grades[b] : g.ordinal <= grade[b].ordinal

\* Once a run has gone past an event's page having graded its current result,
\* every bet of the event stays graded with it or with a later one.
SettledStaysGraded == \A b \in Bets : settled[EventOf[b]] <= Authority(grade[b])

\* The current result of an event is never replaced by one of less authority.
AuthorityRises == [][\A e \in Events : current[e] <= current'[e]]_vars

\* The event of a current result changed after its bets were made: its bets
\* cannot be graded, and the runs do not get past its page (the evidence
\* repository throws before the adapter could answer "event-version-mismatch").
Stuck == \E e \in Events : \E r \in Results : exact[e][r] = 2 /\ BetsOf(e) # {}

\* Every bet is graded with the result the provider settles on, unless the runs
\* are stuck.
AllGraded == \A b \in Bets : Authority(grade[b]) = feed[EventOf[b]]
BetsAreGraded == <>[](Stuck \/ AllGraded)
=============================================================================
