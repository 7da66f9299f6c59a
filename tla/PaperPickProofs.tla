--------------------------- MODULE PaperPickProofs ---------------------------
(***************************************************************************)
(* What PaperPickRun promises of any number of invocations, allowlist      *)
(* tuples and events, and for any limits: a generation's budget is what    *)
(* its rows say it is, and an item ends once, with the one evaluation its  *)
(* inputs have.                                                            *)
(***************************************************************************)
EXTENDS PaperPickRun, FiniteSetTheorems, TLAPS

-----------------------------------------------------------------------------
(* Types *)

LEMMA Records ==
  /\ NoRun \in RunRow /\ NoItem \in ItemRow /\ Todo \in Loop /\ Worked \in Loop
  /\ \A r \in 1..(Runs + 1) : Started(r) \in Inv
  /\ \A pc \in {"conflict", "done"} : Over(pc) \in Inv
<1>1. NoRun \in RunRow
  BY DEF NoRun, RunRow
<1>2. NoItem \in ItemRow
  BY DEF NoItem, ItemRow
<1>3. Todo \in Loop /\ Worked \in Loop
  BY DEF Todo, Worked, Loop, Terminal
<1>4. ASSUME NEW r \in 1..(Runs + 1) PROVE Started(r) \in Inv
  BY <1>1, <1>4 DEF Started, Inv
<1>5. ASSUME NEW pc \in {"conflict", "done"} PROVE Over(pc) \in Inv
  <2> DEFINE s == Started(Runs + 1)
  <2>1. s \in Inv
    BY <1>4, LimitAssumption
  <2> HIDE DEF s
  <2>2. [s EXCEPT !.pc = pc] \in Inv
    BY <2>1 DEF Inv
  <2> QED
    BY <2>2 DEF Over, s
<1> QED
  BY <1>1, <1>2, <1>3, <1>4, <1>5

\* An invocation whose run is an allowlist tuple, and the item of an event it handles.
LEMMA ItemOf ==
  ASSUME TypeOK, NEW i \in Invs, inv[i].run \in Run, NEW e \in Events
  PROVE  Id(i, e) \in ItemId
BY DEF Id, ItemId

Tuples == \A i \in Invs : inv[i].pc \notin {"list", "conflict", "done"} => inv[i].run \in Run
\* What a worker loop carries once the service has answered.
Judged(l) ==
  /\ l.pc \in {"settle", "persist"} => l.odds \in Snapshots /\ l.verdict \in Verdict
  /\ l.kind = "evaluation" => l.odds \in Snapshots /\ l.verdict \in Decisions
Verdicts == \A i \in Invs, e \in Events : Judged(at[i][e])
Typed == TypeOK /\ Tuples /\ Verdicts

LEMMA DiscoverTypes ==
  ASSUME Typed, NEW i \in Invs, Discover(i)
  PROVE  Typed'
<1>1. TypeOK /\ Tuples /\ inv[i] \in Inv /\ inv \in [Invs -> Inv]
  BY DEF Typed, TypeOK
<1>2. Verdicts'
  BY DEF Typed, Verdicts, Discover, NextTuple, List, EndOfAllowlist, AdmitEvent, CreateRun,
     CreateItem, ItemConflict, BeginWork
<1>3. ASSUME NEW l \in Inv, inv' = [inv EXCEPT ![i] = l],
             l.pc \notin {"list", "conflict", "done"} => l.run \in Run
      PROVE  inv' \in [Invs -> Inv] /\ Tuples'
  BY <1>1, <1>3 DEF Tuples
<1>4. ASSUME NEW l \in Inv, inv' = [inv EXCEPT ![i] = l],
             l.pc \notin {"list", "conflict", "done"} => l.run \in Run,
             UNCHANGED <<generation, run, item, results, at>>
      PROVE  Typed'
  BY <1>1, <1>3, <1>4, <1>2 DEF Typed, TypeOK, generation, results
<1>5. CASE NextTuple(i)
  <2>1. Started(inv[i].run + 1) \in Inv /\ Started(inv[i].run + 1).pc = "list"
    BY <1>5, Records, LimitAssumption DEF NextTuple, Run, Started
  <2> QED
    BY <1>4, <1>5, <2>1 DEF NextTuple
<1>6. CASE List(i)
  <2>1. PICK offered \in SUBSET Events :
          inv' = [inv EXCEPT ![i] = [inv[i] EXCEPT !.pc = "admit", !.todo = offered,
                                                   !.found = {}]]
    BY <1>6 DEF List
  <2> DEFINE l == [inv[i] EXCEPT !.pc = "admit", !.todo = offered, !.found = {}]
  <2>2. l \in Inv /\ l.run = inv[i].run
    BY <1>1 DEF Inv
  <2> QED
    BY <1>4, <1>6, <2>1, <2>2 DEF List
<1>7. CASE EndOfAllowlist(i) \/ ItemConflict(i)
  <2>1. PICK pc \in {"conflict", "done"} : inv' = [inv EXCEPT ![i] = Over(pc)]
    BY <1>7 DEF EndOfAllowlist, ItemConflict
  <2>2. Over(pc) \in Inv /\ Over(pc).pc = pc
    BY Records DEF Over, Started
  <2> QED
    BY <1>4, <1>7, <2>1, <2>2 DEF EndOfAllowlist, ItemConflict
<1>8. CASE BeginWork(i)
  <2> DEFINE l == [inv[i] EXCEPT !.pc = "work"]
  <2>1. l \in Inv /\ l.run = inv[i].run /\ inv[i].run \in Run
    BY <1>1, <1>8 DEF BeginWork, Inv, Tuples
  <2> QED
    BY <1>4, <1>8, <2>1 DEF BeginWork
<1>9. CASE AdmitEvent(i)
  <2>1. PICK e \in inv[i].todo :
          /\ IF Admissible(e)
             THEN admitted' = admitted \cup {e} /\ admissions' = admissions + 1
             ELSE UNCHANGED <<admitted, admissions>>
          /\ inv' = [inv EXCEPT ![i] = [inv[i] EXCEPT
                       !.todo = inv[i].todo \ {e},
                       !.found = IF e \in admitted' THEN inv[i].found \cup {e}
                                 ELSE inv[i].found]]
    BY <1>9 DEF AdmitEvent
  <2> DEFINE found == IF e \in admitted' THEN inv[i].found \cup {e} ELSE inv[i].found
             l == [inv[i] EXCEPT !.todo = inv[i].todo \ {e}, !.found = found]
  <2>2. e \in Events /\ found \in SUBSET Events
    BY <1>1 DEF Inv
  <2> HIDE DEF found
  <2>3. l \in Inv /\ l.run = inv[i].run /\ l.pc = inv[i].pc
    BY <1>1, <2>2 DEF Inv
  <2>4. inv' = [inv EXCEPT ![i] = l]
    BY <2>1 DEF found
  <2>5. inv' \in [Invs -> Inv] /\ Tuples'
    BY <1>1, <1>3, <2>3, <2>4 DEF Tuples
  <2>6. admitted' \subseteq Events /\ admissions' \in Nat
    BY <1>1, <2>1, <2>2 DEF TypeOK
  <2> QED
    BY <1>1, <1>9, <1>2, <2>5, <2>6 DEF Typed, TypeOK, AdmitEvent, results
<1>10. CASE CreateRun(i)
  <2> DEFINE r == inv[i].run
             row == [NoRun EXCEPT !.state = "ready", !.manifest = inv[i].found]
  <2>1. r \in Run /\ inv[i].pc = "admit"
    BY <1>1, <1>10 DEF CreateRun, Tuples
  <2>2. row \in RunRow
    BY <1>1 DEF NoRun, RunRow, Inv
  <2>3. run' \in [Run -> RunRow]
    BY <1>1, <1>10, <2>1, <2>2 DEF CreateRun, TypeOK
  <2> DEFINE m == run'[r].manifest
             l == [inv[i] EXCEPT !.pc = "items", !.todo = m, !.found = m]
  <2>4. m \in SUBSET Events
    BY <2>1, <2>3 DEF RunRow
  <2>5. inv' = [inv EXCEPT ![i] = l]
    BY <1>10 DEF CreateRun
  <2> HIDE DEF m
  <2>6. l \in Inv /\ l.run = r
    BY <1>1, <2>4 DEF Inv
  <2>7. inv' \in [Invs -> Inv] /\ Tuples'
    BY <1>3, <2>1, <2>5, <2>6
  <2> QED
    BY <1>1, <1>10, <1>2, <2>3, <2>7 DEF Typed, TypeOK, CreateRun, generation, results
<1>11. CASE CreateItem(i)
  <2>1. PICK e \in inv[i].todo : /\ Row(Id(i, e), [NoItem EXCEPT !.state = "ready"])
                                 /\ inv' = [inv EXCEPT ![i].todo = @ \ {e}]
    BY <1>11 DEF CreateItem
  <2> DEFINE l == [inv[i] EXCEPT !.todo = @ \ {e}]
  <2>2. l \in Inv /\ l.run = inv[i].run /\ l.pc = inv[i].pc
    BY <1>1 DEF Inv
  <2>3. inv' = [inv EXCEPT ![i] = l]
    BY <2>1
  <2>4. inv' \in [Invs -> Inv] /\ Tuples'
    BY <1>1, <1>3, <2>2, <2>3 DEF Tuples
  <2>5. [NoItem EXCEPT !.state = "ready"] \in ItemRow
    BY DEF NoItem, ItemRow
  <2>6. item' \in [ItemId -> ItemRow]
    BY <1>1, <2>1, <2>5 DEF Row, TypeOK
  <2> QED
    BY <1>1, <1>2, <1>11, <2>4, <2>6 DEF Typed, TypeOK, CreateItem, generation, results
<1> QED
  BY <1>5, <1>6, <1>7, <1>8, <1>9, <1>10, <1>11 DEF Discover

\* A worker loop touches its own state and, at most, its item and what comes of it.
LEMMA WorkTypes ==
  ASSUME Typed, NEW i \in Invs, NEW e \in Events, Work(i, e)
  PROVE  Typed' /\ inv' = inv
<1> DEFINE x == Id(i, e)
           l == at[i][e]
<1>1. inv' = inv
  BY DEF Work, ClaimItem, StopItem, Reserve, RenewItem, Evaluate, ClaimTerminal, Persist,
     ReleaseConcurrency, FinishItem
<1>2. TypeOK /\ inv[i] \in Inv /\ l \in Loop /\ inv[i].pc = "work"
      /\ Judged(l)
  BY DEF Typed, TypeOK, Verdicts, Work, Working, ClaimItem, StopItem, Reserve, RenewItem, Evaluate,
     ClaimTerminal, Persist, ReleaseConcurrency, FinishItem
<1>3. x \in ItemId /\ item[x] \in ItemRow
  BY <1>2, ItemOf DEF Typed, Tuples, TypeOK
<1>4. run' = run /\ admitted' = admitted /\ admissions' = admissions
  BY DEF Work, ClaimItem, StopItem, Reserve, RenewItem, Evaluate, ClaimTerminal, Persist,
     ReleaseConcurrency, FinishItem, generation
<1> DEFINE Looped == at' \in [Invs -> [Events -> Loop]] /\ Verdicts'
<1>5. ASSUME NEW k \in Loop, Judged(k), Become(i, e, k) PROVE Looped
  <2>1. at' = [at EXCEPT ![i][e] = k]
    BY <1>5 DEF Become
  <2> QED
    BY <1>2, <1>5, <2>1 DEF TypeOK, Typed, Verdicts
<1>6. ASSUME NEW row \in ItemRow, Row(x, row) PROVE item' \in [ItemId -> ItemRow]
  BY <1>2, <1>6 DEF Row, TypeOK
<1>7. ASSUME Stop(i, e) PROVE Looped
  <2>1. [Todo EXCEPT !.pc = "release"] \in Loop /\ Judged([Todo EXCEPT !.pc = "release"])
    BY DEF Todo, Loop, Terminal, Judged
  <2> QED
    BY <1>5, <1>7, <2>1 DEF Stop
<1>8. ASSUME NEW pc \in {"boundary", "evaluate", "finish"}, Step(i, e, pc)
      PROVE  Looped
  <2>1. [l EXCEPT !.pc = pc] \in Loop /\ Judged([l EXCEPT !.pc = pc])
    BY <1>2 DEF Loop, Judged
  <2> QED
    BY <1>5, <1>8, <2>1 DEF Step
<1>9. ASSUME Looped, item' \in [ItemId -> ItemRow],
             calls' \in 0..MaxCalls, conc' \in Int,
             claim' \in [ItemId -> [Snapshots -> Verdict \cup {"none"}]],
             evaluated' \in [ItemId -> [Snapshots -> SUBSET Decisions]]
      PROVE  Typed'
  BY <1>1, <1>2, <1>4, <1>9 DEF Typed, TypeOK, Tuples
<1>10. ASSUME Looped, item' \in [ItemId -> ItemRow],
              calls' \in 0..MaxCalls, conc' \in Int, UNCHANGED results
       PROVE  Typed'
  BY <1>2, <1>9, <1>10 DEF TypeOK, results
<1>11. CASE ClaimItem(i, e)
  <2>1. Taken(x, i) \in ItemRow
    BY <1>3 DEF Taken, ItemRow
  <2>2. /\ [Todo EXCEPT !.pc = "check"] \in Loop /\ Judged([Todo EXCEPT !.pc = "check"])
        /\ Worked \in Loop /\ Judged(Worked)
    BY Records DEF Todo, Worked, Loop, Judged
  <2>3. Looped
    BY <1>5, <1>11, <2>2 DEF ClaimItem
  <2>4. item' \in [ItemId -> ItemRow] /\ conc' \in Int
    BY <1>2, <1>6, <1>11, <2>1 DEF ClaimItem, TypeOK
  <2> QED
    BY <1>2, <1>10, <1>11, <2>3, <2>4 DEF ClaimItem, TypeOK
<1>12. CASE StopItem(i, e)
  BY <1>2, <1>7, <1>10, <1>12 DEF StopItem, TypeOK, generation
<1>13. CASE Reserve(i, e)
  <2>1. [item[x] EXCEPT !.held = TRUE] \in ItemRow
    BY <1>3 DEF ItemRow
  <2>2. Looped
    BY <1>7, <1>8, <1>13 DEF Reserve
  <2>3. item' \in [ItemId -> ItemRow]
    BY <1>2, <1>6, <1>13, <2>1 DEF Reserve, TypeOK
  <2>4. calls' \in 0..MaxCalls /\ conc' \in Int
    BY <1>2, <1>13, LimitAssumption DEF Reserve, Affordable, TypeOK
  <2> QED
    BY <1>10, <1>13, <2>2, <2>3, <2>4 DEF Reserve
<1>14. CASE RenewItem(i, e)
  <2>1. [item[x] EXCEPT !.leased = TRUE] \in ItemRow
    BY <1>3 DEF ItemRow
  <2> QED
    BY <1>2, <1>6, <1>8, <1>10, <1>14, <2>1 DEF RenewItem, TypeOK, generation
<1>15. CASE Evaluate(i, e)
  <2>1. PICK v \in Verdict, s \in Snapshots :
          Become(i, e, [Todo EXCEPT !.pc = "settle", !.odds = s, !.verdict = v])
    BY <1>15 DEF Evaluate
  <2> DEFINE k == [Todo EXCEPT !.pc = "settle", !.odds = s, !.verdict = v]
  <2>2. k \in Loop /\ Judged(k)
    BY Records DEF Loop, Todo, Judged
  <2> QED
    BY <1>2, <1>5, <1>10, <1>15, <2>1, <2>2 DEF Evaluate, TypeOK, generation, results
<1>16. CASE ClaimTerminal(i, e)
  <2>1. CASE Agrees(x, l)
    <3>1. AfterClaim(x, l) \in Loop /\ Judged(AfterClaim(x, l))
      BY <1>2, <1>16 DEF ClaimTerminal, AfterClaim, Loop, Judged
    <3>2. claim' = [claim EXCEPT ![x][l.odds] = l.verdict] /\ Become(i, e, AfterClaim(x, l))
      BY <1>16, <2>1 DEF ClaimTerminal
    <3>3. claim' \in [ItemId -> [Snapshots -> Verdict \cup {"none"}]]
      BY <1>2, <3>2 DEF TypeOK, Loop
    <3> QED
      BY <1>2, <1>5, <1>9, <1>16, <3>1, <3>2, <3>3 DEF ClaimTerminal, TypeOK, generation
  <2>2. CASE ~Agrees(x, l)
    BY <1>2, <1>7, <1>9, <1>16, <2>2 DEF ClaimTerminal, TypeOK, generation
  <2> QED
    BY <2>1, <2>2
<1>17. CASE Persist(i, e)
  <2>1. CASE l.verdict = "attempt"
    BY <1>2, <1>7, <1>9, <1>17, <2>1 DEF Persist, TypeOK, generation
  <2>2. CASE l.verdict # "attempt"
    <3> DEFINE k == [l EXCEPT !.pc = "release", !.kind = "evaluation"]
    <3>1. l.odds \in Snapshots /\ l.verdict \in Decisions
      BY <1>2, <1>17, <2>2 DEF Persist, Judged, Verdict
    <3>2. k \in Loop /\ Judged(k)
      BY <1>2, <3>1 DEF Loop, Terminal, Judged
    <3>3. evaluated' = [evaluated EXCEPT ![x][l.odds] = @ \cup {l.verdict}]
      BY <1>17, <2>2 DEF Persist
    <3>4. evaluated' \in [ItemId -> [Snapshots -> SUBSET Decisions]]
      BY <1>2, <3>1, <3>3 DEF TypeOK
    <3>5. Become(i, e, k)
      BY <1>17, <2>2 DEF Persist
    <3>6. Looped
      BY <1>5, <3>2, <3>5
    <3> QED
      BY <1>2, <1>9, <1>17, <3>4, <3>6 DEF Persist, TypeOK, generation
  <2> QED
    BY <2>1, <2>2
<1>18. CASE ReleaseConcurrency(i, e)
  <2>1. [item[x] EXCEPT !.held = FALSE] \in ItemRow
    BY <1>3 DEF ItemRow
  <2>2. item' \in [ItemId -> ItemRow] /\ conc' \in Int
    BY <1>2, <1>6, <1>18, <2>1 DEF ReleaseConcurrency, TypeOK
  <2> QED
    BY <1>2, <1>8, <1>10, <1>18, <2>2 DEF ReleaseConcurrency, TypeOK
<1>19. CASE FinishItem(i, e)
  <2> DEFINE id == IF l.kind = "evaluation" THEN <<l.odds, l.verdict>> ELSE NoEvaluation
             row == [item[x] EXCEPT !.state = "terminal", !.terminal = l.kind, !.id = id]
  <2>0. id \in EvaluationId \cup {NoEvaluation}
    BY <1>2 DEF Judged, EvaluationId
  <2> HIDE DEF id
  <2>1. row \in ItemRow
    BY <1>2, <1>3, <2>0 DEF ItemRow, Loop
  <2>2. item' \in [ItemId -> ItemRow]
    BY <1>2, <1>6, <1>19, <2>1 DEF FinishItem, TypeOK, id
  <2> QED
    BY <1>2, <1>5, <1>10, <1>19, <2>2, Records
       DEF FinishItem, TypeOK, generation, Worked, Todo, Judged
<1> QED
  BY <1>1, <1>11, <1>12, <1>13, <1>14, <1>15, <1>16, <1>17, <1>18, <1>19 DEF Work

\* The checkpoint's row, a crash and the end of a lease.
LEMMA CheckpointTypes ==
  ASSUME Typed, NEW i \in Invs, ReadRun(i) \/ CheckpointRun(i) \/ Crash(i)
  PROVE  Typed'
<1>1. TypeOK /\ inv[i] \in Inv /\ inv \in [Invs -> Inv] /\ at \in [Invs -> [Events -> Loop]]
  BY DEF Typed, TypeOK
<1>2. Todo \in Loop /\ Judged(Todo)
  BY Records DEF Todo, Judged
<1>3. ASSUME NEW l \in Inv, inv' = [inv EXCEPT ![i] = l],
             l.pc \notin {"list", "conflict", "done"} => l.run \in Run
      PROVE  inv' \in [Invs -> Inv] /\ Tuples'
  BY <1>1, <1>3 DEF Typed, Tuples
<1>4. ASSUME at' = [at EXCEPT ![i] = [e \in Events |-> Todo]]
      PROVE  at' \in [Invs -> [Events -> Loop]] /\ Verdicts'
  BY <1>1, <1>2, <1>4 DEF Typed, Verdicts
<1>5. ASSUME inv[i].run \in Run
      PROVE  Started(inv[i].run + 1) \in Inv /\ Started(inv[i].run + 1).pc = "list"
  BY <1>5, Records, LimitAssumption DEF Run, Started
<1>6. CASE ReadRun(i)
  <2> DEFINE r == inv[i].run
             row == [Started(r) EXCEPT !.pc = "write", !.next = Summary(r)]
  <2>1. r \in Run
    BY <1>6 DEF Typed, Tuples, ReadRun
  <2>2. Ended(r) \in SUBSET Events /\ run[r] \in RunRow
    BY <1>1, <2>1 DEF Ended, TypeOK
  <2>3. Summary(r) \in RunRow
    BY <2>2 DEF Summary, RunRow
  <2>4. Started(r) \in Inv
    BY <2>1, Records, LimitAssumption DEF Run
  <2>5. row \in Inv /\ row.run = r
    BY <2>3, <2>4 DEF Inv, Started
  <2>6. inv' \in [Invs -> Inv] /\ Tuples'
    <3>1. CASE run[r].state = "complete"
      <4>1. inv' = [inv EXCEPT ![i] = Started(r + 1)]
        BY <1>6, <3>1 DEF ReadRun
      <4> QED
        BY <1>3, <1>5, <2>1, <4>1
    <3>2. CASE run[r].state # "complete"
      <4>1. inv' = [inv EXCEPT ![i] = row]
        BY <1>6, <3>2 DEF ReadRun
      <4> QED
        BY <1>3, <2>1, <2>5, <4>1
    <3> QED
      BY <3>1, <3>2
  <2> QED
    BY <1>1, <1>4, <1>6, <2>6 DEF ReadRun, Typed, TypeOK, generation, results
<1>7. CASE CheckpointRun(i)
  <2> DEFINE r == inv[i].run
  <2>1. r \in Run
    BY <1>7 DEF Typed, Tuples, CheckpointRun
  <2>2. inv[i].next \in RunRow
    BY <1>1 DEF Inv
  <2>3. run' \in [Run -> RunRow]
    BY <1>1, <1>7, <2>1, <2>2 DEF CheckpointRun, TypeOK
  <2>4. inv' \in [Invs -> Inv] /\ Tuples'
    BY <1>3, <1>5, <1>7, <2>1 DEF CheckpointRun
  <2> QED
    BY <1>1, <1>7, <2>3, <2>4 DEF CheckpointRun, Typed, TypeOK, Verdicts, generation, results
<1>8. CASE Crash(i)
  <2>1. Over("done") \in Inv /\ Over("done").pc = "done"
    BY Records DEF Over, Started
  <2>2. inv' \in [Invs -> Inv] /\ Tuples'
    BY <1>3, <1>8, <2>1 DEF Crash
  <2> QED
    BY <1>1, <1>4, <1>8, <2>2 DEF Crash, Typed, TypeOK, generation, results
<1> QED
  BY <1>6, <1>7, <1>8

LEMMA LeaseTypes ==
  ASSUME Typed, NEW x \in ItemId, LeaseRunsOut(x)
  PROVE  Typed'
<1>1. TypeOK /\ item[x] \in ItemRow
  BY DEF Typed, TypeOK
<1>2. [item[x] EXCEPT !.leased = FALSE] \in ItemRow
  BY <1>1 DEF ItemRow
<1>3. item' \in [ItemId -> ItemRow]
  BY <1>1, <1>2 DEF LeaseRunsOut, Row, TypeOK
<1> QED
  BY <1>1, <1>3 DEF LeaseRunsOut, Typed, TypeOK, Tuples, Verdicts, generation, results

LEMMA InitTypes == Init => Typed
<1> SUFFICES ASSUME Init PROVE Typed
  OBVIOUS
<1>1. admitted \subseteq Events /\ admissions \in Nat /\ calls \in 0..MaxCalls /\ conc \in Int
  BY LimitAssumption DEF Init
<1>2. run \in [Run -> RunRow] /\ item \in [ItemId -> ItemRow]
  BY Records DEF Init
<1>3. claim \in [ItemId -> [Snapshots -> Verdict \cup {"none"}]]
  BY DEF Init
<1>4. evaluated \in [ItemId -> [Snapshots -> SUBSET Decisions]]
  BY DEF Init
<1>5. inv \in [Invs -> Inv]
  BY Records, LimitAssumption DEF Init
<1>6. at \in [Invs -> [Events -> Loop]]
  BY Records DEF Init
<1>7. Tuples /\ Verdicts
  BY DEF Init, Tuples, Verdicts, Started, Todo, Judged
<1> QED
  BY <1>1, <1>2, <1>3, <1>4, <1>5, <1>6, <1>7 DEF Typed, TypeOK

LEMMA TypesKept == Typed /\ [Next]_vars => Typed'
<1>1. ASSUME Typed, Next PROVE Typed'
  BY <1>1, DiscoverTypes, WorkTypes, CheckpointTypes, LeaseTypes DEF Next
<1>2. ASSUME Typed, UNCHANGED vars PROVE Typed'
  BY <1>2 DEF Typed, TypeOK, Tuples, Verdicts, vars, generation, results
<1> QED
  BY <1>1, <1>2

\* Every variable keeps its type, whatever the invocations do and wherever they stop.
THEOREM TypeCorrect == Spec => []TypeOK
<1>1. Typed => TypeOK
  BY DEF Typed
<1> QED
  BY InitTypes, TypesKept, <1>1, PTL DEF Spec

-----------------------------------------------------------------------------
(* The inductive invariants. *)

\* Outside its work on a run an invocation has no item in hand.
IdleLoops == \A i \in Invs : inv[i].pc # "work" => \A e \in Events : at[i][e] = Todo

\* From the reservation to the end of the paid work, whoever still holds the claim holds
\* the slot.
Reserved == {"boundary", "evaluate", "settle", "persist"}
ReservedLoops ==
  \A i \in Invs, e \in Events :
    at[i][e].pc \in Reserved /\ Held(Id(i, e), i) => item[Id(i, e)].held

\* What an invocation found, and the row it is about to write, are admitted events.
AdmittedOnly ==
  \A i \in Invs : /\ inv[i].pc = "admit" => inv[i].found \subseteq admitted
                  /\ inv[i].next.manifest \subseteq admitted

BudgetInv ==
  Typed /\ IdleLoops /\ SlotsAreHeld /\ ReservedLoops /\ AdmissionBound /\ AdmittedOnly

\* A verdict about to be stored is the one claimed for its inputs; one to be named by the
\* item's terminal is stored.
Settled(x, l) ==
  /\ l.pc = "persist" => claim[x][l.odds] = l.verdict
  /\ l.kind = "evaluation" => l.verdict \in evaluated[x][l.odds]
SettledLoops == \A i \in Invs, e \in Events : Settled(Id(i, e), at[i][e])

\* Only what a run's manifest lists has an item.
ListedItems ==
  \A r \in Run : /\ Listed(r) \subseteq run[r].manifest
                 /\ run[r].state = "none" => run[r].manifest = {}

\* An invocation works what the run's row lists, and once it has created them all, all of it.
Discovered ==
  \A i \in Invs : LET r == inv[i].run IN
    /\ inv[i].pc \in {"items", "work"} =>
         /\ run[r].state # "none" /\ inv[i].found = run[r].manifest
         /\ inv[i].todo \subseteq inv[i].found
         /\ \A e \in inv[i].found \ inv[i].todo : item[<<r, e>>].state # "none"
    /\ inv[i].pc = "work" => inv[i].todo = {}

\* The row it is about to write is the run's, and if complete it counts what has ended.
Summarized ==
  \A i \in Invs : LET r == inv[i].run IN
    inv[i].pc = "write" =>
      /\ run[r].state # "none" /\ inv[i].next.state # "none"
      /\ inv[i].next.manifest = run[r].manifest
      /\ inv[i].next.state = "complete" =>
           inv[i].next.counted = run[r].manifest /\ Ended(r) = run[r].manifest

EndsInv ==
  /\ Typed /\ IdleLoops /\ SettledLoops /\ ListedItems /\ Discovered /\ Summarized
  /\ OneEvaluationPerInput /\ TerminalNamesEvaluation /\ CompleteIsComplete

-----------------------------------------------------------------------------
(* What the steps leave alone. *)

\* A worker loop writes its own item and its own state.
LEMMA WorkFrame ==
  ASSUME Typed, NEW i \in Invs, NEW e \in Events, Work(i, e)
  PROVE  /\ inv[i].pc = "work" /\ Id(i, e) \in ItemId
         /\ \A y \in ItemId : y # Id(i, e) => item'[y] = item[y]
         /\ \A j \in Invs, f \in Events : j # i \/ f # e => at'[j][f] = at[j][f]
<1>1. TypeOK
  BY DEF Typed
<1>2. inv[i].pc = "work"
  BY DEF Work, Working, ClaimItem, StopItem, Reserve, RenewItem, Evaluate, ClaimTerminal,
     Persist, ReleaseConcurrency, FinishItem
<1>3. Id(i, e) \in ItemId
  BY <1>1, <1>2, ItemOf DEF Typed, Tuples
<1>4. item' = item \/ \E row : Row(Id(i, e), row)
  BY DEF Work, ClaimItem, StopItem, Reserve, RenewItem, Evaluate, ClaimTerminal, Persist,
     ReleaseConcurrency, FinishItem
<1>5. \E l : Become(i, e, l)
  BY DEF Work, Stop, Step, ClaimItem, StopItem, Reserve, RenewItem, Evaluate, ClaimTerminal,
     Persist, ReleaseConcurrency, FinishItem
<1>6. \A y \in ItemId : y # Id(i, e) => item'[y] = item[y]
  BY <1>1, <1>4 DEF Row, TypeOK
<1>7. \A j \in Invs, f \in Events : j # i \/ f # e => at'[j][f] = at[j][f]
  BY <1>1, <1>5 DEF Become, TypeOK
<1> QED
  BY <1>2, <1>3, <1>6, <1>7

\* An invocation's step outside its worker loops is the business of nobody else's loops.
LEMMA OtherFrame ==
  ASSUME Typed, IdleLoops, NEW i \in Invs,
         Discover(i) \/ ReadRun(i) \/ CheckpointRun(i) \/ Crash(i)
  PROVE  /\ \A j \in Invs : j # i => inv'[j] = inv[j] /\ at'[j] = at[j]
         /\ \A f \in Events : at'[i][f] = Todo
<1>1. TypeOK
  BY DEF Typed
<1>2. ASSUME NEW j \in Invs, j # i PROVE inv'[j] = inv[j] /\ at'[j] = at[j]
  BY <1>1, <1>2 DEF TypeOK, Discover, NextTuple, List, EndOfAllowlist, AdmitEvent, CreateRun,
     CreateItem, ItemConflict, BeginWork, ReadRun, CheckpointRun, Crash
<1>3. CASE Discover(i) \/ CheckpointRun(i)
  <2>1. inv[i].pc # "work" /\ at' = at
    BY <1>3 DEF Discover, NextTuple, List, EndOfAllowlist, AdmitEvent, CreateRun, CreateItem,
       ItemConflict, BeginWork, CheckpointRun
  <2> QED
    BY <1>2, <2>1 DEF IdleLoops
<1>4. CASE ReadRun(i) \/ Crash(i)
  <2>1. at' = [at EXCEPT ![i] = [e \in Events |-> Todo]]
    BY <1>4 DEF ReadRun, Crash
  <2> QED
    BY <1>1, <1>2, <2>1 DEF TypeOK
<1> QED
  BY <1>3, <1>4

LEMMA IdleKept ==
  ASSUME Typed, IdleLoops, Next
  PROVE  IdleLoops'
<1>1. ASSUME NEW i \in Invs, NEW e \in Events, Work(i, e) PROVE IdleLoops'
  <2>1. inv' = inv
    BY <1>1, WorkTypes
  <2> QED
    BY <1>1, <2>1, WorkFrame DEF IdleLoops
<1>2. ASSUME NEW i \in Invs, Discover(i) \/ ReadRun(i) \/ CheckpointRun(i) \/ Crash(i)
      PROVE  IdleLoops'
  BY <1>2, OtherFrame DEF IdleLoops
<1>3. ASSUME NEW x \in ItemId, LeaseRunsOut(x) PROVE IdleLoops'
  BY <1>3 DEF LeaseRunsOut, IdleLoops
<1> QED
  BY <1>1, <1>2, <1>3 DEF Next

\* Outside the worker loops an item is written once, when it is created.
LEMMA OtherItems ==
  ASSUME Typed, NEW i \in Invs,
         Discover(i) \/ ReadRun(i) \/ CheckpointRun(i) \/ Crash(i),
         NEW x \in ItemId
  PROVE  \/ item'[x] = item[x]
         \/ /\ item[x] = NoItem \/ item[x] = [NoItem EXCEPT !.state = "ready"]
            /\ item'[x] = [NoItem EXCEPT !.state = "ready"]
            /\ inv[i].pc = "items" /\ \E e \in inv[i].todo : x = Id(i, e)
<1>1. TypeOK
  BY DEF Typed
<1>2. CASE CreateItem(i)
  <2>1. PICK e \in inv[i].todo : /\ item[Id(i, e)] = NoItem \/ Fresh(Id(i, e))
                                 /\ Row(Id(i, e), [NoItem EXCEPT !.state = "ready"])
    BY <1>2 DEF CreateItem
  <2> QED
    BY <1>1, <1>2, <2>1 DEF Row, TypeOK, CreateItem, Fresh
<1>3. CASE ~CreateItem(i)
  BY <1>3 DEF Discover, NextTuple, List, EndOfAllowlist, AdmitEvent, CreateRun, ItemConflict,
     BeginWork, ReadRun, CheckpointRun, Crash
<1> QED
  BY <1>2, <1>3

-----------------------------------------------------------------------------
(* The budget. *)

LEMMA FiniteItems == IsFiniteSet(ItemId)
<1>1. IsFiniteSet(Run)
  BY LimitAssumption, FS_Interval DEF Run
<1> QED
  BY <1>1, EventAssumption, FS_Product DEF ItemId

\* A write of one item moves the slots with the counter.
LEMMA SlotsKept ==
  ASSUME SlotsAreHeld, NEW x \in ItemId,
         \A y \in ItemId : y # x => item'[y] = item[y],
         item[x].held \in BOOLEAN, item'[x].held \in BOOLEAN,
         \/ item'[x].held = item[x].held /\ conc' = conc
         \/ ~item[x].held /\ item'[x].held /\ conc < MaxConc /\ conc' = conc + 1
         \/ item[x].held /\ ~item'[x].held /\ conc' = conc - 1
  PROVE  SlotsAreHeld'
<1>1. IsFiniteSet(Slots) /\ Cardinality(Slots) \in Nat
  BY FiniteItems, FS_Subset, FS_CardinalityType DEF Slots
<1>2. CASE item'[x].held = item[x].held /\ conc' = conc
  <2>1. Slots' = Slots
    BY <1>2 DEF Slots
  <2> QED
    BY <1>2, <2>1 DEF SlotsAreHeld
<1>3. CASE ~item[x].held /\ item'[x].held /\ conc < MaxConc /\ conc' = conc + 1
  <2>1. Slots' = Slots \cup {x} /\ x \notin Slots
    BY <1>3 DEF Slots
  <2>2. Cardinality(Slots') = Cardinality(Slots) + 1
    BY <1>1, <2>1, FS_AddElement
  <2> QED
    BY <1>1, <1>3, <2>2, LimitAssumption DEF SlotsAreHeld
<1>4. CASE item[x].held /\ ~item'[x].held /\ conc' = conc - 1
  <2>1. Slots' = Slots \ {x} /\ x \in Slots
    BY <1>4 DEF Slots
  <2>2. Cardinality(Slots') = Cardinality(Slots) - 1
    BY <1>1, <2>1, FS_RemoveElement
  <2> QED
    BY <1>1, <1>4, <2>2, LimitAssumption DEF SlotsAreHeld
<1> QED
  BY <1>2, <1>3, <1>4

\* What a worker loop's step may do to its item's row, and to the slots with it: another's
\* claim on the item gains nothing by it.
LEMMA WorkItem ==
  ASSUME Typed, NEW i \in Invs, NEW e \in Events, Work(i, e), NEW x, x = Id(i, e)
  PROVE  /\ \/ item'[x].held = item[x].held /\ conc' = conc
            \/ ~item[x].held /\ item'[x].held /\ conc < MaxConc /\ conc' = conc + 1
            \/ item[x].held /\ ~item'[x].held /\ conc' = conc - 1
         /\ \A j \in Invs : j # i /\ Held(x, j)' =>
              Held(x, j) /\ (item[x].held => item'[x].held)
<1>1. TypeOK /\ x \in ItemId
  BY WorkFrame DEF Typed
<1>2. item[x] \in ItemRow /\ item \in [ItemId -> ItemRow] /\ conc \in Int
  BY <1>1 DEF TypeOK
<1>3. CASE item' = item /\ conc' = conc
  BY <1>3 DEF Held
<1>4. CASE ClaimItem(i, e) /\ Claimable(x)
  <2>1. item' = [item EXCEPT ![x] = Taken(x, i)]
        /\ conc' = IF item[x].held THEN conc - 1 ELSE conc
    BY <1>1, <1>4 DEF ClaimItem, Row
  <2>2. item'[x] = Taken(x, i)
    BY <1>2, <1>1, <2>1
  <2>3. item'[x].token = i /\ item'[x].held = FALSE
    BY <1>2, <2>2 DEF Taken, ItemRow
  <2> QED
    BY <1>2, <2>1, <2>3 DEF Held, ItemRow
<1>5. CASE Reserve(i, e) /\ item' # item
  <2>1. item' = [item EXCEPT ![x] = [item[x] EXCEPT !.held = TRUE]]
        /\ ~item[x].held /\ conc < MaxConc /\ conc' = conc + 1
    BY <1>1, <1>5 DEF Reserve, Row, Affordable, Stop
  <2>2. item'[x] = [item[x] EXCEPT !.held = TRUE]
    BY <1>2, <1>1, <2>1
  <2>3. /\ item'[x].held = TRUE /\ item'[x].token = item[x].token
        /\ item'[x].state = item[x].state
    BY <1>2, <2>2 DEF ItemRow
  <2> QED
    BY <2>1, <2>3 DEF Held
<1>6. CASE RenewItem(i, e)
  <2>1. item' = [item EXCEPT ![x] = [item[x] EXCEPT !.leased = TRUE]] /\ conc' = conc
    BY <1>1, <1>6 DEF RenewItem, Row, generation
  <2>2. item'[x] = [item[x] EXCEPT !.leased = TRUE]
    BY <1>2, <1>1, <2>1
  <2>3. /\ item'[x].held = item[x].held /\ item'[x].token = item[x].token
        /\ item'[x].state = item[x].state
    BY <1>2, <2>2 DEF ItemRow
  <2> QED
    BY <2>1, <2>3 DEF Held
<1>7. CASE ReleaseConcurrency(i, e) /\ item' # item
  <2>1. item' = [item EXCEPT ![x] = [item[x] EXCEPT !.held = FALSE]]
        /\ item[x].held /\ item[x].token = i /\ conc' = conc - 1
    BY <1>1, <1>7 DEF ReleaseConcurrency, Row, MayRelease
  <2>2. item'[x] = [item[x] EXCEPT !.held = FALSE]
    BY <1>2, <1>1, <2>1
  <2>3. item'[x].held = FALSE /\ item'[x].token = i
    BY <1>2, <2>1, <2>2 DEF ItemRow
  <2> QED
    BY <2>1, <2>3 DEF Held
<1>8. CASE FinishItem(i, e) /\ item' # item
  <2> DEFINE id == IF at[i][e].kind = "evaluation"
                   THEN <<at[i][e].odds, at[i][e].verdict>> ELSE NoEvaluation
             row == [item[x] EXCEPT !.state = "terminal", !.terminal = at[i][e].kind,
                                    !.id = id]
  <2>1. item' = [item EXCEPT ![x] = row] /\ conc' = conc
    BY <1>1, <1>8 DEF FinishItem, Row, generation
  <2> HIDE DEF id
  <2>2. item'[x] = row
    BY <1>2, <1>1, <2>1
  <2>3. item'[x].held = item[x].held /\ item'[x].state = "terminal"
    BY <1>2, <2>2 DEF ItemRow
  <2> QED
    BY <2>1, <2>3 DEF Held
<1>9. CASE ReleaseConcurrency(i, e) /\ item' = item
  <2>1. conc' = conc
    <3>1. SUFFICES ASSUME item' = [item EXCEPT ![x] = [item[x] EXCEPT !.held = FALSE]],
                          item[x].held
                   PROVE  FALSE
      BY <1>1, <1>9 DEF ReleaseConcurrency, Row, MayRelease
    <3>2. item'[x] = [item[x] EXCEPT !.held = FALSE]
      BY <1>1, <1>2, <3>1
    <3>3. item'[x].held = FALSE
      BY <1>2, <3>2 DEF ItemRow
    <3> QED
      BY <1>9, <3>1, <3>3
  <2> QED
    BY <1>3, <1>9, <2>1
<1>10. CASE Reserve(i, e) /\ item' = item
  <2>1. conc' = conc
    <3>1. SUFFICES ASSUME item' = [item EXCEPT ![x] = [item[x] EXCEPT !.held = TRUE]],
                          ~item[x].held
                   PROVE  FALSE
      BY <1>1, <1>10 DEF Reserve, Row, Stop
    <3>2. item'[x] = [item[x] EXCEPT !.held = TRUE]
      BY <1>1, <1>2, <3>1
    <3>3. item'[x].held = TRUE
      BY <1>2, <3>2 DEF ItemRow
    <3> QED
      BY <1>10, <3>1, <3>3
  <2> QED
    BY <1>3, <1>10, <2>1
<1>11. CASE ClaimItem(i, e) /\ ~Claimable(x)
  BY <1>1, <1>3, <1>11 DEF ClaimItem
<1>12. CASE FinishItem(i, e) /\ item' = item
  BY <1>3, <1>12 DEF FinishItem, generation
<1>13. CASE StopItem(i, e) \/ Evaluate(i, e) \/ ClaimTerminal(i, e) \/ Persist(i, e)
  BY <1>3, <1>13 DEF StopItem, Evaluate, ClaimTerminal, Persist, generation
<1> QED
  BY <1>4, <1>5, <1>6, <1>7, <1>8, <1>9, <1>10, <1>11, <1>12, <1>13 DEF Work

\* The loop that takes the step keeps the slot of what it still holds.
LEMMA WorkReserved ==
  ASSUME Typed, IdleLoops, ReservedLoops, NEW i \in Invs, NEW e \in Events, Work(i, e)
  PROVE  ReservedLoops'
<1>1. TypeOK /\ Typed' /\ inv' = inv
  BY WorkTypes DEF Typed
<1>2. PICK x \in ItemId : x = Id(i, e)
  BY WorkFrame
<1>3. /\ inv[i].pc = "work"
      /\ \A y \in ItemId : y # x => item'[y] = item[y]
      /\ \A j \in Invs, f \in Events : j # i \/ f # e => at'[j][f] = at[j][f]
  BY <1>2, WorkFrame
<1>4. item[x] \in ItemRow /\ item \in [ItemId -> ItemRow] /\ at[i][e] \in Loop
      /\ at \in [Invs -> [Events -> Loop]]
  BY <1>1, <1>3 DEF TypeOK
<1>5. ASSUME at'[i][e].pc \in Reserved, Held(x, i)' PROVE item'[x].held
  <2>0. ASSUME NEW l \in Loop, Become(i, e, l) PROVE at'[i][e] = l
    BY <1>4, <2>0 DEF Become
  <2>1. ASSUME Stop(i, e) PROVE FALSE
    <3>1. at'[i][e] = [Todo EXCEPT !.pc = "release"]
      BY <1>4, <2>1 DEF Stop, Become
    <3> QED
      BY <1>5, <3>1 DEF Reserved, Todo
  <2>2. ASSUME NEW pc, Step(i, e, pc) PROVE at'[i][e].pc = pc
    <3>1. at'[i][e] = [at[i][e] EXCEPT !.pc = pc]
      BY <1>4, <2>2 DEF Step, Become
    <3> QED
      BY <1>4, <3>1 DEF Loop
  <2>3. CASE ClaimItem(i, e)
    <3>1. at'[i][e] \in {[Todo EXCEPT !.pc = "check"], Worked}
      BY <1>4, <2>3 DEF ClaimItem, Become
    <3> QED
      BY <1>5, <3>1 DEF Reserved, Todo, Worked
  <2>4. CASE Reserve(i, e)
    <3>1. item' = [item EXCEPT ![x] = [item[x] EXCEPT !.held = TRUE]]
      BY <1>2, <2>1, <2>4 DEF Reserve, Row
    <3>2. item'[x] = [item[x] EXCEPT !.held = TRUE]
      BY <1>3, <1>4, <3>1
    <3> QED
      BY <1>4, <3>2 DEF ItemRow
  <2>5. CASE RenewItem(i, e)
    <3>1. item' = [item EXCEPT ![x] = [item[x] EXCEPT !.leased = TRUE]]
          /\ Held(x, i) /\ at[i][e].pc = "boundary"
      BY <1>2, <2>5 DEF RenewItem, Row
    <3>2. item[x].held
      BY <1>2, <3>1 DEF ReservedLoops, Reserved
    <3>3. item'[x] = [item[x] EXCEPT !.leased = TRUE]
      BY <1>3, <1>4, <3>1
    <3> QED
      BY <1>4, <3>2, <3>3 DEF ItemRow
  <2>6. CASE Evaluate(i, e) \/ ClaimTerminal(i, e)
    <3>1. at[i][e].pc \in Reserved /\ item' = item
      BY <2>6 DEF Evaluate, ClaimTerminal, Reserved
    <3> QED
      BY <1>2, <1>5, <3>1 DEF ReservedLoops, Held
  <2>7. CASE StopItem(i, e)
    BY <2>1, <2>7 DEF StopItem
  <2>8. CASE Persist(i, e)
    <3>1. at[i][e].pc = "persist" /\ item' = item
      BY <2>8 DEF Persist
    <3> QED
      BY <1>2, <1>5, <3>1 DEF ReservedLoops, Reserved, Held
  <2>9. CASE ReleaseConcurrency(i, e)
    BY <1>5, <2>2, <2>9 DEF ReleaseConcurrency, Reserved
  <2>10. CASE FinishItem(i, e)
    <3>1. at'[i][e] = Worked
      BY <1>4, <2>10 DEF FinishItem, Become
    <3> QED
      BY <1>5, <3>1 DEF Reserved, Worked, Todo
  <2> QED
    BY <2>3, <2>4, <2>5, <2>6, <2>7, <2>8, <2>9, <2>10 DEF Work
<1>6. ASSUME NEW j \in Invs, NEW f \in Events, NEW y, y = Id(j, f),
             at'[j][f].pc \in Reserved, Held(y, j)'
      PROVE  item'[y].held
  <2>1. CASE j = i /\ f = e
    BY <1>2, <1>5, <1>6, <2>1
  <2>2. CASE j # i \/ f # e
    <3>1. at'[j][f] = at[j][f]
      BY <1>3, <1>6, <2>2
    <3>2. inv[j].pc = "work"
      BY <1>6, <3>1 DEF IdleLoops, Todo, Reserved
    <3>3. y \in ItemId
      BY <1>1, <1>6, <3>2, ItemOf DEF Typed, Tuples
    <3>4. CASE y # x
      <4>1. item'[y] = item[y]
        BY <1>3, <3>3, <3>4
      <4> QED
        BY <1>6, <3>1, <4>1 DEF ReservedLoops, Held
    <3>5. CASE y = x
      <4>1. j # i
        BY <1>2, <1>6, <2>2, <3>5 DEF Id
      <4>2. Held(x, j) /\ (item[x].held => item'[x].held)
        BY <1>2, <1>6, <3>5, <4>1, WorkItem
      <4> QED
        BY <1>6, <3>1, <3>5, <4>2 DEF ReservedLoops
    <3> QED
      BY <3>4, <3>5
  <2> QED
    BY <2>1, <2>2
<1> QED
  BY <1>1, <1>6 DEF ReservedLoops, Held, Id

LEMMA WorkBudget ==
  ASSUME BudgetInv, NEW i \in Invs, NEW e \in Events, Work(i, e)
  PROVE  SlotsAreHeld' /\ ReservedLoops' /\ AdmissionBound' /\ AdmittedOnly'
<1>1. Typed /\ Typed' /\ inv' = inv /\ item \in [ItemId -> ItemRow]
      /\ item' \in [ItemId -> ItemRow]
  BY WorkTypes DEF BudgetInv, Typed, TypeOK
<1>2. PICK x \in ItemId : x = Id(i, e)
  BY <1>1, WorkFrame
<1>3. item[x].held \in BOOLEAN /\ item'[x].held \in BOOLEAN
  BY <1>1 DEF ItemRow
<1>4. SlotsAreHeld'
  BY <1>1, <1>2, <1>3, WorkFrame, WorkItem, SlotsKept DEF BudgetInv
<1>5. ReservedLoops'
  BY WorkReserved DEF BudgetInv
<1>6. run' = run /\ admitted' = admitted /\ admissions' = admissions
  BY DEF Work, ClaimItem, StopItem, Reserve, RenewItem, Evaluate, ClaimTerminal, Persist,
     ReleaseConcurrency, FinishItem, generation
<1>7. AdmissionBound' /\ AdmittedOnly'
  BY <1>1, <1>6 DEF BudgetInv, AdmissionBound, AdmittedOnly
<1> QED
  BY <1>4, <1>5, <1>7

LEMMA OtherBudget ==
  ASSUME BudgetInv, NEW i \in Invs,
         Discover(i) \/ ReadRun(i) \/ CheckpointRun(i) \/ Crash(i)
  PROVE  SlotsAreHeld' /\ ReservedLoops' /\ AdmissionBound' /\ AdmittedOnly'
<1>1. /\ Typed /\ TypeOK /\ Typed' /\ IdleLoops /\ ReservedLoops /\ SlotsAreHeld
      /\ AdmissionBound /\ AdmittedOnly
  BY DiscoverTypes, CheckpointTypes DEF BudgetInv, Typed
<1>2. conc' = conc
  BY DEF Discover, NextTuple, List, EndOfAllowlist, AdmitEvent, CreateRun, CreateItem,
     ItemConflict, BeginWork, ReadRun, CheckpointRun, Crash, generation
<1>3. ASSUME NEW x \in ItemId
      PROVE  /\ item'[x].held = item[x].held
             /\ \A j \in Invs : Held(x, j)' => Held(x, j)
  <2>1. CASE item'[x] = item[x]
    BY <2>1 DEF Held
  <2>2. CASE item'[x] # item[x]
    <3>1. item[x] = NoItem /\ item'[x] = [NoItem EXCEPT !.state = "ready"]
      BY <1>1, <1>3, <2>2, OtherItems
    <3>2. item[x].held = FALSE /\ item'[x].held = FALSE /\ item'[x].state = "ready"
      BY <3>1 DEF NoItem
    <3> QED
      BY <3>2 DEF Held
  <2> QED
    BY <2>1, <2>2
<1>4. SlotsAreHeld'
  <2>1. Slots' = Slots
    BY <1>3 DEF Slots
  <2> QED
    BY <1>1, <1>2, <2>1 DEF SlotsAreHeld
<1>5. ReservedLoops'
  <2>1. ASSUME NEW j \in Invs, NEW f \in Events, NEW y, y = Id(j, f)',
               at'[j][f].pc \in Reserved, Held(y, j)'
        PROVE  item'[y].held
    <3>1. j # i
      BY <2>1, <1>1, OtherFrame DEF Todo, Reserved
    <3>2. y = Id(j, f) /\ at'[j][f] = at[j][f]
      BY <1>1, <2>1, <3>1, OtherFrame DEF Id
    <3>3. inv[j].pc = "work"
      BY <1>1, <2>1, <3>2 DEF IdleLoops, Todo, Reserved
    <3>4. y \in ItemId
      BY <1>1, <2>1, <3>2, <3>3, ItemOf DEF Typed, Tuples
    <3> QED
      BY <1>1, <1>3, <2>1, <3>2, <3>4 DEF ReservedLoops
  <2> QED
    BY <2>1 DEF ReservedLoops
<1>6. AdmissionBound' /\ AdmittedOnly'
  <2>1. inv \in [Invs -> Inv] /\ inv[i] \in Inv /\ run \in [Run -> RunRow]
        /\ admitted \subseteq Events /\ admissions \in Nat
    BY <1>1 DEF TypeOK
  <2>2. inv[i].next.manifest \subseteq admitted
        /\ (inv[i].pc = "admit" => inv[i].found \subseteq admitted)
    BY <1>1 DEF AdmittedOnly
  <2>3. Cardinality(admitted) = admissions /\ admissions <= MaxEvents
        /\ \A r \in Run : run[r].manifest \subseteq admitted
    BY <1>1 DEF AdmissionBound
  <2>4. ASSUME NEW l \in Inv, inv' = [inv EXCEPT ![i] = l], admitted \subseteq admitted',
               l.pc = "admit" => l.found \subseteq admitted',
               l.next.manifest \subseteq admitted'
        PROVE  AdmittedOnly'
    BY <1>1, <2>1, <2>4 DEF AdmittedOnly
  <2>5. ASSUME NEW l \in Inv, inv' = [inv EXCEPT ![i] = l], UNCHANGED <<generation, run>>,
               l.pc = "admit" => l.found \subseteq admitted, l.next.manifest \subseteq admitted
        PROVE  AdmissionBound' /\ AdmittedOnly'
    <3>1. admitted' = admitted /\ admissions' = admissions /\ run' = run
      BY <2>5 DEF generation
    <3> QED
      BY <1>1, <2>4, <2>5, <3>1 DEF AdmissionBound
  <2>6. ASSUME NEW r \in 1..(Runs + 1)
        PROVE  /\ Started(r) \in Inv /\ Started(r).pc = "list"
               /\ Started(r).next.manifest \subseteq admitted
    BY <2>6, Records DEF Started, NoRun
  <2>7. ASSUME NEW pc \in {"conflict", "done"}
        PROVE  /\ Over(pc) \in Inv /\ Over(pc).pc = pc
               /\ Over(pc).next.manifest \subseteq admitted
    BY <2>7, Records DEF Over, Started, NoRun
  <2>8. CASE NextTuple(i)
    <3>1. inv[i].run + 1 \in 1..(Runs + 1)
      BY <2>8, LimitAssumption DEF NextTuple, Run
    <3> QED
      BY <2>5, <2>6, <2>8, <3>1 DEF NextTuple
  <2>9. CASE List(i)
    <3>1. PICK offered \in SUBSET Events :
            inv' = [inv EXCEPT ![i] = [inv[i] EXCEPT !.pc = "admit", !.todo = offered,
                                                     !.found = {}]]
      BY <2>9 DEF List
    <3> DEFINE l == [inv[i] EXCEPT !.pc = "admit", !.todo = offered, !.found = {}]
    <3>2. l \in Inv /\ l.found = {} /\ l.next = inv[i].next
      BY <2>1 DEF Inv
    <3> HIDE DEF l
    <3> QED
      BY <2>2, <2>5, <2>9, <3>1, <3>2 DEF List, l
  <2>10. CASE EndOfAllowlist(i) \/ ItemConflict(i) \/ Crash(i)
    BY <2>5, <2>7, <2>10 DEF EndOfAllowlist, ItemConflict, Crash
  <2>11. CASE BeginWork(i)
    <3> DEFINE l == [inv[i] EXCEPT !.pc = "work"]
    <3>1. l \in Inv /\ l.pc = "work" /\ l.next = inv[i].next
      BY <2>1 DEF Inv
    <3>2. inv' = [inv EXCEPT ![i] = l]
      BY <2>11 DEF BeginWork
    <3> HIDE DEF l
    <3> QED
      BY <2>2, <2>5, <2>11, <3>1, <3>2 DEF BeginWork
  <2>12. CASE CreateItem(i)
    <3>1. PICK e \in inv[i].todo : inv' = [inv EXCEPT ![i].todo = @ \ {e}]
      BY <2>12 DEF CreateItem
    <3> DEFINE l == [inv[i] EXCEPT !.todo = @ \ {e}]
    <3>2. l \in Inv /\ l.pc = inv[i].pc /\ l.next = inv[i].next
      BY <2>1 DEF Inv
    <3>3. inv' = [inv EXCEPT ![i] = l]
      BY <3>1
    <3> HIDE DEF l
    <3> QED
      BY <2>2, <2>5, <2>12, <3>2, <3>3 DEF CreateItem
  <2>13. CASE AdmitEvent(i)
    <3>1. PICK e \in inv[i].todo :
            /\ IF Admissible(e)
               THEN admitted' = admitted \cup {e} /\ admissions' = admissions + 1
               ELSE UNCHANGED <<admitted, admissions>>
            /\ inv' = [inv EXCEPT ![i] = [inv[i] EXCEPT
                         !.todo = inv[i].todo \ {e},
                         !.found = IF e \in admitted' THEN inv[i].found \cup {e}
                                   ELSE inv[i].found]]
            /\ run' = run /\ inv[i].pc = "admit"
      BY <2>13 DEF AdmitEvent
    <3> DEFINE found == IF e \in admitted' THEN inv[i].found \cup {e} ELSE inv[i].found
               l == [inv[i] EXCEPT !.todo = inv[i].todo \ {e}, !.found = found]
    <3>2. admitted \subseteq admitted'
      BY <3>1
    <3>3. found \subseteq admitted' /\ found \in SUBSET Events
      BY <2>1, <2>2, <3>1, <3>2 DEF Inv
    <3>4. inv' = [inv EXCEPT ![i] = l]
      BY <3>1
    <3> HIDE DEF found
    <3>5. l \in Inv /\ l.found = found /\ l.next = inv[i].next
      BY <2>1, <3>3 DEF Inv
    <3>6. AdmittedOnly'
      BY <2>2, <2>4, <3>2, <3>3, <3>4, <3>5
    <3>7. Cardinality(admitted') = admissions' /\ admissions' <= MaxEvents
      <4>1. IsFiniteSet(admitted)
        BY <2>1, EventAssumption, FS_Subset
      <4>2. CASE Admissible(e)
        <5>1. Cardinality(admitted \cup {e}) = Cardinality(admitted) + 1
          BY <4>1, <4>2, FS_AddElement DEF Admissible
        <5>2. admitted' = admitted \cup {e} /\ admissions' = admissions + 1
          BY <3>1, <4>2
        <5>3. admissions < MaxEvents
          BY <4>2 DEF Admissible
        <5> QED
          BY <2>1, <2>3, <5>1, <5>2, <5>3, LimitAssumption
      <4>3. CASE ~Admissible(e)
        BY <2>3, <3>1, <4>3
      <4> QED
        BY <4>2, <4>3
    <3> QED
      BY <2>3, <3>1, <3>2, <3>6, <3>7 DEF AdmissionBound
  <2>14. CASE CreateRun(i)
    <3> DEFINE r == inv[i].run
               row == [NoRun EXCEPT !.state = "ready", !.manifest = inv[i].found]
               m == run'[r].manifest
               l == [inv[i] EXCEPT !.pc = "items", !.todo = m, !.found = m]
    <3>1. r \in Run /\ inv[i].pc = "admit" /\ run' \in [Run -> RunRow]
      BY <1>1, <2>14 DEF CreateRun, Typed, Tuples, TypeOK
    <3>2. row.manifest = inv[i].found
      BY DEF NoRun
    <3>3. run' = run \/ run' = [run EXCEPT ![r] = row]
      BY <2>14 DEF CreateRun
    <3> HIDE DEF row
    <3>4. \A q \in Run : run'[q].manifest \subseteq admitted
      BY <2>1, <2>2, <2>3, <3>1, <3>2, <3>3
    <3>5. m \in SUBSET Events /\ inv' = [inv EXCEPT ![i] = l]
      BY <2>14, <3>1 DEF CreateRun, RunRow
    <3> HIDE DEF m
    <3>6. l \in Inv /\ l.pc = "items" /\ l.next = inv[i].next
      BY <2>1, <3>5 DEF Inv
    <3>7. admitted' = admitted /\ admissions' = admissions
      BY <2>14 DEF CreateRun, generation
    <3> HIDE DEF l
    <3>8. AdmittedOnly'
      BY <2>2, <2>4, <3>5, <3>6, <3>7
    <3> QED
      BY <2>3, <3>4, <3>7, <3>8 DEF AdmissionBound
  <2>15. CASE ReadRun(i)
    <3> DEFINE r == inv[i].run
               l == [Started(r) EXCEPT !.pc = "write", !.next = Summary(r)]
    <3>1. r \in Run /\ inv' \in [Invs -> Inv]
      BY <1>1, <2>15 DEF ReadRun, Typed, Tuples, TypeOK
    <3>2. r \in 1..(Runs + 1) /\ r + 1 \in 1..(Runs + 1)
      BY <3>1, LimitAssumption DEF Run
    <3>3. Summary(r).manifest \subseteq admitted
      BY <2>1, <2>3, <3>1 DEF Summary, RunRow
    <3>4. CASE run[r].state = "complete"
      <4>1. inv' = [inv EXCEPT ![i] = Started(r + 1)]
        BY <2>15, <3>4 DEF ReadRun
      <4> QED
        BY <2>5, <2>6, <2>15, <3>2, <4>1 DEF ReadRun
    <3>5. CASE run[r].state # "complete"
      <4>1. inv' = [inv EXCEPT ![i] = l]
        BY <2>15, <3>5 DEF ReadRun
      <4>2. l \in Inv
        <5>1. inv'[i] = l
          BY <2>1, <4>1
        <5> QED
          BY <3>1, <5>1
      <4>3. l.pc = "write" /\ l.next = Summary(r)
        BY DEF Started
      <4> HIDE DEF l
      <4> QED
        BY <2>5, <2>15, <3>3, <4>1, <4>2, <4>3 DEF ReadRun
    <3> QED
      BY <3>4, <3>5
  <2>16. CASE CheckpointRun(i)
    <3> DEFINE r == inv[i].run
    <3>1. r \in Run /\ r + 1 \in 1..(Runs + 1)
      BY <1>1, <2>16, LimitAssumption DEF CheckpointRun, Typed, Tuples, Run
    <3>2. run' = run \/ run' = [run EXCEPT ![r] = inv[i].next]
      BY <2>16 DEF CheckpointRun
    <3>3. \A q \in Run : run'[q].manifest \subseteq admitted
      BY <2>1, <2>2, <2>3, <3>1, <3>2
    <3>4. admitted' = admitted /\ admissions' = admissions
          /\ inv' = [inv EXCEPT ![i] = Started(r + 1)]
      BY <2>16 DEF CheckpointRun, generation
    <3>5. AdmittedOnly'
      BY <2>4, <2>6, <3>1, <3>4
    <3> QED
      BY <2>3, <3>3, <3>4, <3>5 DEF AdmissionBound
  <2> QED
    BY <2>8, <2>9, <2>10, <2>11, <2>12, <2>13, <2>14, <2>15, <2>16 DEF Discover
<1> QED
  BY <1>4, <1>5, <1>6

LEMMA LeaseBudget ==
  ASSUME BudgetInv, NEW x \in ItemId, LeaseRunsOut(x)
  PROVE  SlotsAreHeld' /\ ReservedLoops' /\ AdmissionBound' /\ AdmittedOnly'
<1>1. item \in [ItemId -> ItemRow] /\ item[x] \in ItemRow /\ Typed
  BY DEF BudgetInv, Typed, TypeOK
<1>2. item' = [item EXCEPT ![x] = [item[x] EXCEPT !.leased = FALSE]]
  BY DEF LeaseRunsOut, Row
<1>3. item'[x] = [item[x] EXCEPT !.leased = FALSE]
  BY <1>1, <1>2
<1>4. /\ item'[x].held = item[x].held /\ item'[x].token = item[x].token
      /\ item'[x].state = item[x].state
  BY <1>1, <1>3 DEF ItemRow
<1>5. \A y \in ItemId : y # x => item'[y] = item[y]
  BY <1>1, <1>2
<1>6. \A y \in ItemId : item'[y].held = item[y].held /\ \A j \in Invs : Held(y, j)' <=> Held(y, j)
  BY <1>4, <1>5 DEF Held
<1>7. conc' = conc /\ inv' = inv /\ at' = at /\ run' = run
      /\ admitted' = admitted /\ admissions' = admissions
  BY DEF LeaseRunsOut, generation
<1>8. SlotsAreHeld'
  <2>1. Slots' = Slots
    BY <1>6 DEF Slots
  <2> QED
    BY <1>7, <2>1 DEF BudgetInv, SlotsAreHeld
<1>9. ReservedLoops'
  <2>1. ASSUME NEW j \in Invs, NEW f \in Events, NEW y, y = Id(j, f),
               at[j][f].pc \in Reserved, Held(y, j)'
        PROVE  item'[y].held
    <3>1. inv[j].pc = "work"
      BY <2>1 DEF BudgetInv, IdleLoops, Todo, Reserved
    <3>2. y \in ItemId
      BY <1>1, <2>1, <3>1, ItemOf DEF Typed, Tuples
    <3> QED
      BY <1>6, <2>1, <3>2 DEF BudgetInv, ReservedLoops
  <2> QED
    BY <1>7, <2>1 DEF ReservedLoops, Id
<1> QED
  BY <1>7, <1>8, <1>9 DEF BudgetInv, AdmissionBound, AdmittedOnly

LEMMA InitBudget == Init => BudgetInv
<1> SUFFICES ASSUME Init PROVE BudgetInv
  OBVIOUS
<1>1. Typed
  BY InitTypes
<1>2. IdleLoops /\ ReservedLoops
  BY DEF Init, IdleLoops, ReservedLoops, Reserved, Todo
<1>3. SlotsAreHeld
  <2>1. Slots = {}
    BY DEF Init, Slots, NoItem
  <2> QED
    BY <2>1, FS_EmptySet, LimitAssumption DEF Init, SlotsAreHeld
<1>4. AdmissionBound
  BY FS_EmptySet, LimitAssumption DEF Init, AdmissionBound, NoRun
<1>5. AdmittedOnly
  BY DEF Init, AdmittedOnly, Started, NoRun
<1> QED
  BY <1>1, <1>2, <1>3, <1>4, <1>5 DEF BudgetInv

\* A slot in use is an item's, the paid call has its item's slot, and neither slots nor
\* events pass their limit (reserve, releaseConcurrency, admitEvents of the pick store).
THEOREM BudgetCorrect == Spec => []PicksAreBudgeted
<1>1. ASSUME BudgetInv, [Next]_vars PROVE BudgetInv'
  <2>1. CASE Next
    <3>1. Typed' /\ IdleLoops'
      BY <1>1, <2>1, TypesKept, IdleKept DEF BudgetInv
    <3>2. SlotsAreHeld' /\ ReservedLoops' /\ AdmissionBound' /\ AdmittedOnly'
      BY <1>1, <2>1, WorkBudget, OtherBudget, LeaseBudget DEF Next
    <3> QED
      BY <3>1, <3>2 DEF BudgetInv
  <2>2. CASE UNCHANGED vars
    <3>1. Typed'
      BY <1>1, <2>2, TypesKept DEF BudgetInv
    <3>2. IdleLoops' /\ ReservedLoops'
      BY <1>1, <2>2 DEF BudgetInv, IdleLoops, ReservedLoops, Held, Id, vars
    <3>3. SlotsAreHeld' /\ AdmissionBound' /\ AdmittedOnly'
      BY <1>1, <2>2
         DEF BudgetInv, SlotsAreHeld, Slots, AdmissionBound, AdmittedOnly, vars, generation
    <3> QED
      BY <3>1, <3>2, <3>3 DEF BudgetInv
  <2> QED
    BY <1>1, <2>1, <2>2
<1>2. BudgetInv => PicksAreBudgeted
  <2> SUFFICES ASSUME BudgetInv PROVE PaidWorkHoldsSlot
    BY DEF BudgetInv, PicksAreBudgeted
  <2>1. \A i \in Invs : inv[i].found \subseteq Events
    BY DEF BudgetInv, Typed, TypeOK, Inv
  <2> QED
    BY <2>1 DEF BudgetInv, PaidWorkHoldsSlot, ReservedLoops, Reserved
<1> QED
  BY InitBudget, <1>1, <1>2, PTL DEF Spec

-----------------------------------------------------------------------------
(* The ends of items and runs. *)

\* A worker loop ends its item's row at most once, as the claim's holder, with what it carries.
LEMMA WorkTerminal ==
  ASSUME Typed, NEW i \in Invs, NEW e \in Events, Work(i, e), NEW x, x = Id(i, e)
  PROVE  /\ item[x].state = "none" <=> item'[x].state = "none"
         /\ item[x].state = "terminal" => item'[x].state = "terminal"
         /\ \/ item'[x].terminal = item[x].terminal /\ item'[x].id = item[x].id
            \/ /\ item[x].state # "terminal"
               /\ item'[x].terminal = "evaluation" =>
                    /\ at[i][e].kind = "evaluation"
                    /\ item'[x].id = <<at[i][e].odds, at[i][e].verdict>>
         /\ item[x].state # "terminal" /\ item'[x].state = "terminal" =>
              item[x].token = i /\ at[i][e].pc = "finish"
<1>1. TypeOK /\ x \in ItemId
  BY WorkFrame DEF Typed
<1>2. item[x] \in ItemRow /\ item \in [ItemId -> ItemRow]
  BY <1>1 DEF TypeOK
<1>3. CASE item' = item
  BY <1>3
<1>4. ASSUME NEW row, Row(x, row) PROVE item'[x] = row
  BY <1>1, <1>2, <1>4 DEF Row
<1>5. CASE ClaimItem(i, e) /\ item' # item
  <2>1. item'[x] = Taken(x, i) /\ item[x].state \in {"ready", "claimed"}
    BY <1>4, <1>5 DEF ClaimItem, Claimable
  <2>2. /\ item'[x].state = "claimed" /\ item'[x].terminal = item[x].terminal
        /\ item'[x].id = item[x].id
    BY <1>2, <2>1 DEF Taken, ItemRow
  <2> QED
    BY <2>1, <2>2
<1>6. CASE (Reserve(i, e) \/ RenewItem(i, e) \/ ReleaseConcurrency(i, e)) /\ item' # item
  <2>1. \E b \in BOOLEAN : \/ item'[x] = [item[x] EXCEPT !.held = b]
                           \/ item'[x] = [item[x] EXCEPT !.leased = b]
    BY <1>4, <1>6 DEF Reserve, RenewItem, ReleaseConcurrency
  <2>2. /\ item'[x].state = item[x].state /\ item'[x].terminal = item[x].terminal
        /\ item'[x].id = item[x].id
    BY <1>2, <2>1 DEF ItemRow
  <2> QED
    BY <2>2
<1>7. CASE FinishItem(i, e) /\ item' # item
  <2> DEFINE id == IF at[i][e].kind = "evaluation"
                   THEN <<at[i][e].odds, at[i][e].verdict>> ELSE NoEvaluation
             row == [item[x] EXCEPT !.state = "terminal", !.terminal = at[i][e].kind,
                                    !.id = id]
  <2>1. item'[x] = row /\ at[i][e].pc = "finish"
        /\ item[x].token = i /\ item[x].state = "claimed"
    BY <1>4, <1>7 DEF FinishItem, Finishable, Held
  <2> HIDE DEF id
  <2>2. item'[x].state = "terminal" /\ item'[x].terminal = at[i][e].kind /\ item'[x].id = id
    BY <1>2, <2>1 DEF ItemRow
  <2>3. item'[x].terminal = "evaluation" => id = <<at[i][e].odds, at[i][e].verdict>>
    BY <2>2 DEF id
  <2> QED
    BY <2>1, <2>2, <2>3
<1>8. CASE StopItem(i, e) \/ Evaluate(i, e) \/ ClaimTerminal(i, e) \/ Persist(i, e)
  BY <1>3, <1>8 DEF StopItem, Evaluate, ClaimTerminal, Persist
<1> QED
  BY <1>3, <1>5, <1>6, <1>7, <1>8 DEF Work

\* A claim on inputs stands once made, and what is stored stays stored.
LEMMA WorkResults ==
  ASSUME Typed, OneEvaluationPerInput, SettledLoops,
         NEW i \in Invs, NEW e \in Events, Work(i, e), NEW x, x = Id(i, e)
  PROVE  /\ \A y \in ItemId, s \in Snapshots :
              /\ claim[y][s] # "none" => claim'[y][s] = claim[y][s]
              /\ evaluated[y][s] \subseteq evaluated'[y][s]
         /\ OneEvaluationPerInput'
         /\ Settled(x, at[i][e])'
<1> DEFINE l == at[i][e]
<1>1. /\ TypeOK /\ x \in ItemId /\ l \in Loop /\ Judged(l) /\ Settled(x, l)
      /\ at \in [Invs -> [Events -> Loop]]
  BY WorkFrame DEF Typed, TypeOK, Verdicts, SettledLoops
<1>2. /\ claim \in [ItemId -> [Snapshots -> Verdict \cup {"none"}]]
      /\ evaluated \in [ItemId -> [Snapshots -> SUBSET Decisions]]
  BY <1>1 DEF TypeOK
<1>3. ASSUME NEW k, Become(i, e, k) PROVE at'[i][e] = k
  BY <1>1, <1>3 DEF Become
<1>4. ASSUME NEW k, Become(i, e, k), k.pc # "persist", k.kind = "stopped"
      PROVE  Settled(x, at[i][e])'
  BY <1>3, <1>4 DEF Settled
<1>5. CASE UNCHANGED results
  <2>1. claim' = claim /\ evaluated' = evaluated
    BY <1>5 DEF results
  <2>2. OneEvaluationPerInput'
    BY <2>1 DEF OneEvaluationPerInput
  <2>3. Settled(x, at[i][e])'
    <3>1. ASSUME Stop(i, e) PROVE Settled(x, at[i][e])'
      <4>1. [Todo EXCEPT !.pc = "release"].pc # "persist"
            /\ [Todo EXCEPT !.pc = "release"].kind = "stopped"
        BY DEF Todo
      <4> QED
        BY <1>4, <3>1, <4>1 DEF Stop
    <3>2. ASSUME NEW pc \in {"boundary", "evaluate", "finish"}, Step(i, e, pc)
          PROVE  Settled(x, at[i][e])'
      <4>1. at'[i][e] = [l EXCEPT !.pc = pc]
        BY <1>3, <3>2 DEF Step
      <4>2. /\ at'[i][e].pc = pc /\ at'[i][e].kind = l.kind
            /\ at'[i][e].odds = l.odds /\ at'[i][e].verdict = l.verdict
        BY <1>1, <4>1 DEF Loop
      <4> QED
        BY <1>1, <2>1, <4>2 DEF Settled
    <3>3. CASE ClaimItem(i, e)
      <4>1. at'[i][e] = [Todo EXCEPT !.pc = "check"] \/ at'[i][e] = Worked
        BY <1>3, <3>3 DEF ClaimItem
      <4>2. at'[i][e].pc # "persist" /\ at'[i][e].kind = "stopped"
        BY <4>1 DEF Todo, Worked
      <4> QED
        BY <4>2 DEF Settled
    <3>4. CASE Evaluate(i, e)
      <4>1. PICK v \in Verdict, s \in Snapshots :
              Become(i, e, [Todo EXCEPT !.pc = "settle", !.odds = s, !.verdict = v])
        BY <3>4 DEF Evaluate
      <4>2. at'[i][e] = [Todo EXCEPT !.pc = "settle", !.odds = s, !.verdict = v]
        BY <1>3, <4>1
      <4>3. at'[i][e].pc # "persist" /\ at'[i][e].kind = "stopped"
        BY <4>2 DEF Todo
      <4> QED
        BY <4>3 DEF Settled
    <3>5. CASE FinishItem(i, e)
      <4>1. at'[i][e] = Worked
        BY <1>3, <3>5 DEF FinishItem
      <4> QED
        BY <4>1 DEF Worked, Todo, Settled
    <3>6. CASE ClaimTerminal(i, e)
      <4>1. CASE Agrees(x, l)
        <5>1. /\ at'[i][e] = [l EXCEPT !.pc = "persist"] /\ l.odds \in Snapshots
              /\ claim' = [claim EXCEPT ![x][l.odds] = l.verdict]
          BY <1>1, <1>3, <3>6, <4>1 DEF ClaimTerminal, AfterClaim, Judged
        <5>2. claim'[x][l.odds] = l.verdict
          BY <1>1, <1>2, <5>1
        <5>3. /\ at'[i][e].kind = l.kind
              /\ at'[i][e].odds = l.odds /\ at'[i][e].verdict = l.verdict
          BY <1>1, <5>1 DEF Loop
        <5> QED
          BY <1>1, <2>1, <5>2, <5>3 DEF Settled
      <4>2. CASE ~Agrees(x, l)
        BY <3>1, <3>6, <4>2 DEF ClaimTerminal
      <4> QED
        BY <4>1, <4>2
    <3>7. CASE Persist(i, e)
      <4>1. CASE l.verdict = "attempt"
        BY <3>1, <3>7, <4>1 DEF Persist
      <4>2. CASE l.verdict # "attempt"
        <5>1. /\ at'[i][e] = [l EXCEPT !.pc = "release", !.kind = "evaluation"]
              /\ evaluated' = [evaluated EXCEPT ![x][l.odds] = @ \cup {l.verdict}]
              /\ l.odds \in Snapshots
          BY <1>1, <1>3, <3>7, <4>2 DEF Persist, Judged
        <5>2. l.verdict \in evaluated'[x][l.odds]
          BY <1>1, <1>2, <5>1
        <5>3. /\ at'[i][e].pc = "release"
              /\ at'[i][e].odds = l.odds /\ at'[i][e].verdict = l.verdict
          BY <1>1, <5>1 DEF Loop
        <5> QED
          BY <5>2, <5>3 DEF Settled
      <4> QED
        BY <4>1, <4>2
    <3> QED
      BY <3>1, <3>2, <3>3, <3>4, <3>5, <3>6, <3>7
         DEF Work, StopItem, Reserve, RenewItem, ReleaseConcurrency
  <2> QED
    BY <2>1, <2>2, <2>3
<1>6. CASE ClaimTerminal(i, e) /\ ~(UNCHANGED results)
  <2>1. Agrees(x, l) /\ evaluated' = evaluated
    BY <1>1, <1>6 DEF ClaimTerminal, results
  <2>2. /\ at'[i][e] = [l EXCEPT !.pc = "persist"] /\ l.odds \in Snapshots
        /\ claim' = [claim EXCEPT ![x][l.odds] = l.verdict]
    BY <1>1, <1>3, <1>6, <2>1 DEF ClaimTerminal, AfterClaim, Judged
  <2>3. \A y \in ItemId, s \in Snapshots : claim[y][s] # "none" => claim'[y][s] = claim[y][s]
    BY <1>1, <1>2, <2>1, <2>2 DEF Agrees
  <2>4. OneEvaluationPerInput'
    <3>1. ASSUME NEW y \in ItemId, NEW s \in Snapshots, evaluated[y][s] # {}
          PROVE  evaluated[y][s] = {claim'[y][s]}
      <4>1. evaluated[y][s] = {claim[y][s]} /\ evaluated[y][s] \in SUBSET Decisions
        BY <1>2, <3>1 DEF OneEvaluationPerInput
      <4>2. claim[y][s] # "none"
        BY <4>1, VerdictAssumption
      <4> QED
        BY <2>3, <4>1, <4>2
    <3> QED
      BY <2>1, <3>1 DEF OneEvaluationPerInput
  <2>5. claim'[x][l.odds] = l.verdict
    BY <1>1, <1>2, <2>2
  <2>6. /\ at'[i][e].kind = l.kind
        /\ at'[i][e].odds = l.odds /\ at'[i][e].verdict = l.verdict
    BY <1>1, <2>2 DEF Loop
  <2>7. Settled(x, at[i][e])'
    BY <1>1, <2>1, <2>5, <2>6 DEF Settled
  <2> QED
    BY <2>1, <2>3, <2>4, <2>7
<1>7. CASE Persist(i, e) /\ ~(UNCHANGED results)
  <2>1. /\ at'[i][e] = [l EXCEPT !.pc = "release", !.kind = "evaluation"]
        /\ evaluated' = [evaluated EXCEPT ![x][l.odds] = @ \cup {l.verdict}]
        /\ l.odds \in Snapshots /\ claim' = claim /\ claim[x][l.odds] = l.verdict
    BY <1>1, <1>3, <1>7 DEF Persist, Judged, Settled, results
  <2>2. evaluated'[x][l.odds] = evaluated[x][l.odds] \cup {l.verdict}
    BY <1>1, <1>2, <2>1
  <2>3. \A y \in ItemId, s \in Snapshots :
          ~(y = x /\ s = l.odds) => evaluated'[y][s] = evaluated[y][s]
    BY <1>1, <1>2, <2>1
  <2>4. OneEvaluationPerInput'
    BY <1>1, <2>1, <2>2, <2>3 DEF OneEvaluationPerInput
  <2>5. /\ at'[i][e].pc = "release"
        /\ at'[i][e].odds = l.odds /\ at'[i][e].verdict = l.verdict
    BY <1>1, <2>1 DEF Loop
  <2>6. Settled(x, at[i][e])'
    BY <2>2, <2>5 DEF Settled
  <2> QED
    BY <2>1, <2>2, <2>3, <2>4, <2>6
<1>8. ClaimTerminal(i, e) \/ Persist(i, e) \/ UNCHANGED results
  BY DEF Work, ClaimItem, StopItem, Reserve, RenewItem, Evaluate, ReleaseConcurrency,
     FinishItem, results
<1> QED
  BY <1>5, <1>6, <1>7, <1>8

\* What is true of ended items stays true when items only end and no new ones are listed.
LEMMA EndedKept ==
  ASSUME Typed, ListedItems, CompleteIsComplete, Summarized, run' = run, inv' = inv,
         \A x \in ItemId : /\ item[x].state = "none" <=> item'[x].state = "none"
                           /\ item[x].state = "terminal" => item'[x].state = "terminal"
  PROVE  ListedItems' /\ CompleteIsComplete' /\ Summarized'
<1>1. ASSUME NEW r \in Run
      PROVE  /\ Listed(r)' = Listed(r) /\ Ended(r) \subseteq Ended(r)'
             /\ Ended(r)' \subseteq Listed(r)'
  <2>1. ASSUME NEW e \in Events
        PROVE  <<r, e>> \in ItemId
    BY <1>1, <2>1 DEF ItemId
  <2> QED
    BY <2>1 DEF Listed, Ended
<1>2. \A r \in Run : Ended(r) = run[r].manifest => Ended(r)' = run[r].manifest
  BY <1>1 DEF ListedItems
<1>3. ListedItems'
  BY <1>1 DEF ListedItems
<1>4. CompleteIsComplete'
  BY <1>2 DEF CompleteIsComplete
<1>5. Summarized'
  <2>1. \A i \in Invs : inv[i].pc = "write" => inv[i].run \in Run
    BY DEF Typed, Tuples
  <2> QED
    BY <1>2, <2>1 DEF Summarized
<1> QED
  BY <1>3, <1>4, <1>5

LEMMA WorkEnds ==
  ASSUME EndsInv, NEW i \in Invs, NEW e \in Events, Work(i, e)
  PROVE  /\ SettledLoops' /\ ListedItems' /\ Discovered' /\ Summarized'
         /\ OneEvaluationPerInput' /\ TerminalNamesEvaluation' /\ CompleteIsComplete'
<1>1. /\ Typed /\ TypeOK /\ Typed' /\ inv' = inv /\ IdleLoops /\ SettledLoops
      /\ OneEvaluationPerInput /\ TerminalNamesEvaluation /\ inv \in [Invs -> Inv]
  BY WorkTypes DEF EndsInv, Typed, TypeOK
<1>2. run' = run
  BY DEF Work, ClaimItem, StopItem, Reserve, RenewItem, Evaluate, ClaimTerminal, Persist,
     ReleaseConcurrency, FinishItem
<1>3. PICK x \in ItemId : x = Id(i, e)
  BY <1>1, WorkFrame
<1>4. /\ \A y \in ItemId : y # x => item'[y] = item[y]
      /\ \A j \in Invs, f \in Events : j # i \/ f # e => at'[j][f] = at[j][f]
  BY <1>1, <1>3, WorkFrame
<1>5. /\ item[x].state = "none" <=> item'[x].state = "none"
      /\ item[x].state = "terminal" => item'[x].state = "terminal"
      /\ \/ item'[x].terminal = item[x].terminal /\ item'[x].id = item[x].id
         \/ /\ item'[x].terminal = "evaluation" =>
                  /\ at[i][e].kind = "evaluation"
                  /\ item'[x].id = <<at[i][e].odds, at[i][e].verdict>>
  BY <1>1, <1>3, WorkTerminal
<1>6. /\ \A y \in ItemId, s \in Snapshots :
           /\ claim[y][s] # "none" => claim'[y][s] = claim[y][s]
           /\ evaluated[y][s] \subseteq evaluated'[y][s]
      /\ OneEvaluationPerInput'
      /\ Settled(x, at[i][e])'
  BY <1>1, <1>3, WorkResults
<1>7. \A y \in ItemId : /\ item[y].state = "none" <=> item'[y].state = "none"
                        /\ item[y].state = "terminal" => item'[y].state = "terminal"
  BY <1>4, <1>5
<1>8. ListedItems' /\ CompleteIsComplete' /\ Summarized'
  BY <1>1, <1>2, <1>7, EndedKept DEF EndsInv
<1>9. Discovered'
  <2>1. ASSUME NEW j \in Invs, inv[j].pc \in {"items", "work"}, NEW f \in inv[j].found
        PROVE  <<inv[j].run, f>> \in ItemId
    BY <1>1, <2>1 DEF Typed, Tuples, ItemId, Inv
  <2> QED
    BY <1>1, <1>2, <1>7, <2>1 DEF EndsInv, Discovered
<1>10. SettledLoops'
  <2>1. ASSUME NEW j \in Invs, NEW f \in Events, NEW y, y = Id(j, f)
        PROVE  Settled(y, at[j][f])'
    <3>1. CASE j = i /\ f = e
      BY <1>3, <1>6, <2>1, <3>1
    <3>2. CASE j # i \/ f # e
      <4>1. at'[j][f] = at[j][f] /\ Settled(y, at[j][f]) /\ Judged(at[j][f])
        BY <1>1, <1>4, <2>1, <3>2 DEF SettledLoops, Typed, Verdicts
      <4>2. CASE inv[j].pc = "work"
        <5>1. y \in ItemId
          BY <1>1, <2>1, <4>2, ItemOf DEF Typed, Tuples
        <5>2. ASSUME at[j][f].pc = "persist"
              PROVE  claim'[y][at[j][f].odds] = at[j][f].verdict
          <6>1. at[j][f].odds \in Snapshots /\ at[j][f].verdict # "none"
            BY <4>1, <5>2, VerdictAssumption DEF Judged, Verdict
          <6> QED
            BY <1>6, <4>1, <5>1, <5>2, <6>1 DEF Settled
        <5>3. ASSUME at[j][f].kind = "evaluation"
              PROVE  at[j][f].verdict \in evaluated'[y][at[j][f].odds]
          BY <1>6, <4>1, <5>1, <5>3 DEF Settled, Judged
        <5> QED
          BY <4>1, <5>2, <5>3 DEF Settled
      <4>3. CASE inv[j].pc # "work"
        <5>1. at'[j][f].pc # "persist" /\ at'[j][f].kind # "evaluation"
          BY <1>1, <4>1, <4>3 DEF IdleLoops, Todo
        <5> QED
          BY <5>1 DEF Settled
      <4> QED
        BY <4>2, <4>3
    <3> QED
      BY <3>1, <3>2
  <2> QED
    BY <1>1, <2>1 DEF SettledLoops, Id
<1>11. TerminalNamesEvaluation'
  <2>1. ASSUME NEW y \in ItemId, item'[y].terminal = "evaluation"
        PROVE  \E s \in Snapshots : \E d \in evaluated'[y][s] : item'[y].id = <<s, d>>
    <3>1. CASE item'[y].terminal = item[y].terminal /\ item'[y].id = item[y].id
      BY <1>1, <1>6, <2>1, <3>1 DEF TerminalNamesEvaluation
    <3>2. CASE ~(item'[y].terminal = item[y].terminal /\ item'[y].id = item[y].id)
      <4>1. /\ y = x /\ at[i][e].kind = "evaluation"
            /\ item'[y].id = <<at[i][e].odds, at[i][e].verdict>>
        BY <1>4, <1>5, <2>1, <3>2
      <4>2. /\ at[i][e].odds \in Snapshots
            /\ at[i][e].verdict \in evaluated[x][at[i][e].odds]
        BY <1>1, <1>3, <4>1 DEF Typed, Verdicts, Judged, SettledLoops, Settled
      <4> QED
        BY <1>6, <4>1, <4>2
    <3> QED
      BY <3>1, <3>2
  <2> QED
    BY <2>1 DEF TerminalNamesEvaluation
<1> QED
  BY <1>6, <1>8, <1>9, <1>10, <1>11

\* A run's row keeps its manifest from its creation.
LEMMA OtherRuns ==
  ASSUME EndsInv, NEW i \in Invs,
         Discover(i) \/ ReadRun(i) \/ CheckpointRun(i) \/ Crash(i),
         NEW r \in Run
  PROVE  /\ run[r].state # "none" =>
              run'[r].state # "none" /\ run'[r].manifest = run[r].manifest
         /\ \/ run'[r] = run[r]
            \/ run[r].state = "none" /\ CreateRun(i) /\ inv[i].run = r
                 /\ run'[r].state = "ready"
            \/ CheckpointRun(i) /\ inv[i].run = r /\ run'[r] = inv[i].next
<1>1. /\ TypeOK /\ Tuples /\ Summarized /\ run \in [Run -> RunRow]
  BY DEF EndsInv, Typed, TypeOK
<1>2. CASE CreateRun(i)
  <2> DEFINE row == [NoRun EXCEPT !.state = "ready", !.manifest = inv[i].found]
  <2>1. row.state = "ready"
    BY DEF NoRun
  <2>2. \/ run' = run
        \/ run[inv[i].run].state = "none" /\ run' = [run EXCEPT ![inv[i].run] = row]
    <3>1. CASE run[inv[i].run].state # "none"
      BY <1>2, <3>1 DEF CreateRun
    <3>2. CASE run[inv[i].run].state = "none"
      BY <1>2, <3>2 DEF CreateRun
    <3> QED
      BY <3>1, <3>2
  <2> HIDE DEF row
  <2> QED
    BY <1>1, <1>2, <2>1, <2>2
<1>3. CASE CheckpointRun(i)
  <2>1. run' = run \/ run' = [run EXCEPT ![inv[i].run] = inv[i].next]
    BY <1>3 DEF CheckpointRun
  <2>2. /\ inv[i].next.state # "none"
        /\ inv[i].next.manifest = run[inv[i].run].manifest
    BY <1>1, <1>3 DEF CheckpointRun, Summarized
  <2> QED
    BY <1>1, <1>3, <2>1, <2>2
<1>4. CASE ~CreateRun(i) /\ ~CheckpointRun(i)
  <2>1. run' = run
    BY <1>4 DEF Discover, NextTuple, List, EndOfAllowlist, AdmitEvent, CreateItem, ItemConflict,
       BeginWork, ReadRun, Crash
  <2> QED
    BY <2>1
<1> QED
  BY <1>2, <1>3, <1>4

LEMMA OtherEnds ==
  ASSUME EndsInv, NEW i \in Invs,
         Discover(i) \/ ReadRun(i) \/ CheckpointRun(i) \/ Crash(i)
  PROVE  /\ SettledLoops' /\ ListedItems' /\ Discovered' /\ Summarized'
         /\ OneEvaluationPerInput' /\ TerminalNamesEvaluation' /\ CompleteIsComplete'
<1>1. /\ Typed /\ TypeOK /\ Typed' /\ IdleLoops /\ SettledLoops /\ ListedItems
      /\ Discovered /\ Summarized /\ CompleteIsComplete /\ TerminalNamesEvaluation
      /\ OneEvaluationPerInput
  BY DiscoverTypes, CheckpointTypes DEF EndsInv, Typed
<1>2. /\ inv \in [Invs -> Inv] /\ run \in [Run -> RunRow] /\ run' \in [Run -> RunRow]
      /\ inv[i] \in Inv
  BY <1>1 DEF Typed, TypeOK
<1>3. claim' = claim /\ evaluated' = evaluated
  BY DEF Discover, NextTuple, List, EndOfAllowlist, AdmitEvent, CreateRun, CreateItem,
     ItemConflict, BeginWork, ReadRun, CheckpointRun, Crash, results
<1>4. /\ \A j \in Invs : j # i => inv'[j] = inv[j] /\ at'[j] = at[j]
      /\ \A f \in Events : at'[i][f] = Todo
  BY <1>1, OtherFrame
<1>5. ASSUME NEW x \in ItemId
      PROVE  /\ item[x].state # "none" => item'[x].state # "none"
             /\ item[x].state = "terminal" <=> item'[x].state = "terminal"
             /\ item'[x].terminal = "evaluation" => item'[x] = item[x]
             /\ item'[x] = item[x] \/ (inv[i].pc = "items" /\ \E e \in inv[i].todo : x = Id(i, e))
  BY <1>1, <1>5, OtherItems DEF NoItem
<1>6. SettledLoops'
  BY <1>1, <1>3, <1>4 DEF SettledLoops, Settled, Id, Todo
<1>7. OneEvaluationPerInput' /\ TerminalNamesEvaluation'
  BY <1>1, <1>3, <1>5 DEF OneEvaluationPerInput, TerminalNamesEvaluation
<1>8. ASSUME NEW r \in Run
      PROVE  /\ Ended(r)' = Ended(r)
             /\ run[r].state # "none" =>
                  run'[r].state # "none" /\ run'[r].manifest = run[r].manifest
  <2>1. \A e \in Events : <<r, e>> \in ItemId
    BY <1>8 DEF ItemId
  <2> QED
    BY <1>5, <1>8, <2>1, OtherRuns DEF Ended
<1>9. ListedItems'
  <2> SUFFICES ASSUME NEW r \in Run
               PROVE  /\ Listed(r)' \subseteq run'[r].manifest
                      /\ run'[r].state = "none" => run'[r].manifest = {}
    BY DEF ListedItems
  <2>1. Listed(r) \subseteq run[r].manifest /\ (run[r].state = "none" => run[r].manifest = {})
    BY <1>1 DEF ListedItems
  <2>2. run[r].manifest \subseteq run'[r].manifest
    BY <1>8, <2>1
  <2>3. run'[r].state = "none" => run'[r].manifest = {}
    <3>1. CASE run'[r] = run[r] \/ run'[r].state = "ready"
      BY <2>1, <3>1
    <3>2. CASE CheckpointRun(i) /\ inv[i].run = r
      <4>1. run[r].state # "none"
        BY <1>1, <3>2 DEF Summarized, CheckpointRun
      <4> QED
        BY <1>8, <4>1
    <3> QED
      BY <3>1, <3>2, OtherRuns
  <2>4. ASSUME NEW e \in Events, item'[<<r, e>>].state # "none"
        PROVE  e \in run'[r].manifest
    <3>1. <<r, e>> \in ItemId
      BY <2>4 DEF ItemId
    <3>2. CASE item'[<<r, e>>] = item[<<r, e>>]
      BY <2>1, <2>2, <2>4, <3>2 DEF Listed
    <3>3. CASE item'[<<r, e>>] # item[<<r, e>>]
      <4>1. PICK f \in inv[i].todo : inv[i].pc = "items" /\ <<r, e>> = Id(i, f)
        BY <1>5, <3>1, <3>3
      <4>2. r = inv[i].run /\ e \in inv[i].todo
        BY <4>1 DEF Id
      <4>3. e \in run[r].manifest
        BY <1>1, <4>1, <4>2 DEF Discovered
      <4> QED
        BY <2>2, <4>3
    <3> QED
      BY <3>2, <3>3
  <2> QED
    BY <2>3, <2>4 DEF Listed
<1>10. CompleteIsComplete'
  <2> SUFFICES ASSUME NEW r \in Run, run'[r].state = "complete"
               PROVE  run'[r].counted = run'[r].manifest /\ Ended(r)' = run'[r].manifest
    BY DEF CompleteIsComplete
  <2>1. CASE run'[r] = run[r]
    BY <1>1, <1>8, <2>1 DEF CompleteIsComplete
  <2>2. CASE CheckpointRun(i) /\ inv[i].run = r /\ run'[r] = inv[i].next
    BY <1>1, <1>8, <2>2 DEF Summarized, CheckpointRun
  <2> QED
    BY <2>1, <2>2, OtherRuns
<1>11. Discovered'
  <2>1. ASSUME NEW j \in Invs, j # i, inv[j].pc \in {"items", "work"}
        PROVE  LET r == inv[j].run IN
               /\ run'[r].state # "none" /\ inv[j].found = run'[r].manifest
               /\ \A e \in inv[j].found \ inv[j].todo : item'[<<r, e>>].state # "none"
    <3>1. inv[j].run \in Run
      BY <1>1, <2>1 DEF Typed, Tuples
    <3>2. \A e \in inv[j].found : <<inv[j].run, e>> \in ItemId
      BY <1>2, <2>1, <3>1 DEF ItemId, Inv
    <3> QED
      BY <1>1, <1>5, <1>8, <2>1, <3>1, <3>2 DEF Discovered
  <2>2. CASE CreateRun(i)
    <3> DEFINE r == inv[i].run
               m == run'[r].manifest
               l == [inv[i] EXCEPT !.pc = "items", !.todo = m, !.found = m]
    <3>1. r \in Run /\ inv' = [inv EXCEPT ![i] = l]
      BY <1>1, <2>2 DEF CreateRun, Typed, Tuples
    <3>2. run'[r].state # "none"
      <4>1. CASE run[r].state # "none"
        BY <1>8, <3>1, <4>1
      <4>2. CASE run[r].state = "none"
        <5>1. run' = [run EXCEPT ![r] = [NoRun EXCEPT !.state = "ready",
                                                      !.manifest = inv[i].found]]
          BY <2>2, <4>2 DEF CreateRun
        <5>2. run'[r] = [NoRun EXCEPT !.state = "ready", !.manifest = inv[i].found]
          BY <1>2, <3>1, <5>1
        <5> QED
          BY <5>2 DEF NoRun
      <4> QED
        BY <4>1, <4>2
    <3>3. inv'[i] = l
      BY <1>2, <3>1
    <3> HIDE DEF m
    <3>4. /\ inv'[i].pc = "items" /\ inv'[i].todo = m /\ inv'[i].found = m /\ inv'[i].run = r
      BY <1>2, <3>3 DEF Inv
    <3> QED
      BY <1>1, <1>4, <2>1, <3>2, <3>4 DEF Discovered, m
  <2>3. CASE CreateItem(i)
    <3>1. PICK e \in inv[i].todo : /\ Row(Id(i, e), [NoItem EXCEPT !.state = "ready"])
                                   /\ inv' = [inv EXCEPT ![i].todo = @ \ {e}]
                                   /\ inv[i].pc = "items"
      BY <2>3 DEF CreateItem
    <3> DEFINE l == [inv[i] EXCEPT !.todo = @ \ {e}]
    <3>2. inv'[i] = l
      BY <1>2, <3>1
    <3>3. /\ inv'[i].pc = "items" /\ inv'[i].todo = inv[i].todo \ {e}
          /\ inv'[i].found = inv[i].found /\ inv'[i].run = inv[i].run
      BY <1>2, <3>1, <3>2 DEF Inv
    <3>4. PICK x \in ItemId : x = Id(i, e)
      BY <1>1, <1>2, <3>1 DEF Id, ItemId, Inv, Typed, Tuples
    <3>5. item'[x] = [NoItem EXCEPT !.state = "ready"]
      BY <1>1, <3>1, <3>4 DEF Row, TypeOK
    <3>6. item'[<<inv[i].run, e>>].state # "none"
      BY <3>4, <3>5 DEF NoItem, Id
    <3>7. run' = run
      BY <2>3 DEF CreateItem
    <3>8. \A f \in inv[i].found : <<inv[i].run, f>> \in ItemId
      BY <1>1, <1>2, <3>1 DEF ItemId, Inv, Typed, Tuples
    <3>9. /\ run'[inv[i].run].state # "none" /\ inv[i].found = run'[inv[i].run].manifest
          /\ inv[i].todo \subseteq inv[i].found
          /\ \A f \in inv[i].found \ (inv[i].todo \ {e}) :
               item'[<<inv[i].run, f>>].state # "none"
      BY <1>1, <1>5, <3>1, <3>6, <3>7, <3>8 DEF Discovered
    <3> QED
      BY <1>1, <1>4, <2>1, <3>3, <3>9 DEF Discovered
  <2>4. CASE BeginWork(i)
    <3> DEFINE l == [inv[i] EXCEPT !.pc = "work"]
    <3>1. inv'[i] = l
      BY <1>2, <2>4 DEF BeginWork
    <3>2. /\ inv'[i].pc = "work" /\ inv'[i].todo = {} /\ inv[i].todo = {} /\ inv[i].pc = "items"
          /\ inv'[i].found = inv[i].found /\ inv'[i].run = inv[i].run
          /\ run' = run /\ item' = item
      BY <1>2, <2>4, <3>1 DEF Inv, BeginWork
    <3> QED
      BY <1>1, <1>4, <2>1, <3>2 DEF Discovered
  <2>5. CASE ~(CreateRun(i) \/ CreateItem(i) \/ BeginWork(i))
    <3>1. ASSUME NEW l, inv' = [inv EXCEPT ![i] = l], l.pc \notin {"items", "work"}
          PROVE  Discovered'
      <4>1. inv'[i].pc \notin {"items", "work"}
        BY <1>2, <3>1
      <4> QED
        BY <1>1, <1>4, <2>1, <4>1 DEF Discovered
    <3>2. CASE AdmitEvent(i)
      <4>1. PICK todo, found : inv' = [inv EXCEPT ![i] = [inv[i] EXCEPT !.todo = todo,
                                                                        !.found = found]]
        BY <3>2 DEF AdmitEvent
      <4> DEFINE l == [inv[i] EXCEPT !.todo = todo, !.found = found]
      <4>2. l.pc = "admit"
        BY <1>2, <3>2 DEF AdmitEvent, Inv
      <4> QED
        BY <3>1, <4>1, <4>2
    <3>3. CASE List(i)
      <4>1. PICK offered : inv' = [inv EXCEPT ![i] = [inv[i] EXCEPT !.pc = "admit",
                                                          !.todo = offered, !.found = {}]]
        BY <3>3 DEF List
      <4> DEFINE l == [inv[i] EXCEPT !.pc = "admit", !.todo = offered, !.found = {}]
      <4>2. l.pc = "admit"
        BY <1>2 DEF Inv
      <4> QED
        BY <3>1, <4>1, <4>2
    <3>4. CASE ReadRun(i)
      <4> DEFINE r == inv[i].run
                 l == IF run[r].state = "complete" THEN Started(r + 1)
                      ELSE [Started(r) EXCEPT !.pc = "write", !.next = Summary(r)]
      <4>1. l.pc \notin {"items", "work"}
        BY DEF Started
      <4>2. inv' = [inv EXCEPT ![i] = l]
        BY <3>4 DEF ReadRun
      <4> HIDE DEF l
      <4> QED
        BY <3>1, <4>1, <4>2
    <3>5. CASE NextTuple(i) \/ EndOfAllowlist(i) \/ ItemConflict(i) \/ CheckpointRun(i) \/ Crash(i)
      BY <3>1, <3>5
         DEF NextTuple, EndOfAllowlist, ItemConflict, CheckpointRun, Crash, Over, Started
    <3> QED
      BY <2>5, <3>2, <3>3, <3>4, <3>5 DEF Discover
  <2> QED
    BY <2>2, <2>3, <2>4, <2>5
<1>12. Summarized'
  <2>1. ASSUME NEW j \in Invs, inv[j].pc = "write", NEW r, r = inv[j].run
        PROVE  /\ run'[r].state # "none" /\ inv[j].next.state # "none"
               /\ inv[j].next.manifest = run'[r].manifest
               /\ inv[j].next.state = "complete" =>
                    inv[j].next.counted = run'[r].manifest /\ Ended(r)' = run'[r].manifest
    <3>1. r \in Run
      BY <1>1, <2>1 DEF Typed, Tuples
    <3> QED
      BY <1>1, <1>8, <2>1, <3>1 DEF Summarized
  <2>2. ASSUME inv'[i].pc # "write" PROVE Summarized'
    BY <1>4, <2>1, <2>2 DEF Summarized, Ended
  <2>3. CASE ReadRun(i)
    <3>1. PICK r \in Run : r = inv[i].run
      BY <1>1, <2>3 DEF ReadRun, Typed, Tuples
    <3> DEFINE l == [Started(r) EXCEPT !.pc = "write", !.next = Summary(r)]
    <3>2. inv[i].pc = "work" /\ run' = run /\ item' = item /\ run[r] \in RunRow
      BY <1>2, <2>3 DEF ReadRun
    <3>3. CASE run[r].state = "complete"
      <4>1. inv' = [inv EXCEPT ![i] = Started(r + 1)]
        BY <2>3, <3>1, <3>3 DEF ReadRun
      <4>2. inv'[i].pc # "write"
        BY <1>2, <4>1 DEF Started
      <4> QED
        BY <2>2, <4>2
    <3>4. CASE run[r].state # "complete"
      <4>1. inv' = [inv EXCEPT ![i] = l]
        BY <2>3, <3>1, <3>4 DEF ReadRun
      <4>2. inv'[i] = l
        BY <1>2, <4>1
      <4>3. /\ inv'[i].pc = "write" /\ inv'[i].next = Summary(r) /\ inv'[i].run = r
        BY <4>2 DEF Started
      <4>4. /\ run[r].state # "none" /\ inv[i].found = run[r].manifest
            /\ \A e \in inv[i].found : item[<<r, e>>].state # "none"
        BY <1>1, <3>1, <3>2 DEF Discovered
      <4>5. run[r].manifest \subseteq Listed(r)
        BY <1>2, <4>4 DEF Listed, Inv
      <4>6. Listed(r) = run[r].manifest
        BY <1>1, <3>2, <4>5 DEF ListedItems
      <4>7. /\ Summary(r).state # "none" /\ Summary(r).manifest = run[r].manifest
            /\ Summary(r).counted = Ended(r)
            /\ Summary(r).state = "complete" => Ended(r) = Listed(r)
        BY <3>2 DEF Summary, RunRow
      <4>8. Ended(r)' = Ended(r)
        BY <1>8, <3>2
      <4>9. ASSUME NEW j \in Invs, inv'[j].pc = "write", NEW q, q = inv'[j].run
            PROVE  /\ run'[q].state # "none" /\ inv'[j].next.state # "none"
                   /\ inv'[j].next.manifest = run'[q].manifest
                   /\ inv'[j].next.state = "complete" =>
                        inv'[j].next.counted = run'[q].manifest /\ Ended(q)' = run'[q].manifest
        <5>1. CASE j = i
          BY <3>2, <4>3, <4>4, <4>6, <4>7, <4>8, <4>9, <5>1
        <5>2. CASE j # i
          BY <1>4, <2>1, <4>9, <5>2
        <5> QED
          BY <5>1, <5>2
      <4> QED
        BY <4>9 DEF Summarized, Ended
    <3> QED
      BY <3>3, <3>4
  <2>4. CASE ~ReadRun(i)
    <3>1. inv'[i].pc # "write"
      <4>1. ASSUME NEW l, inv' = [inv EXCEPT ![i] = l], l.pc # "write"
            PROVE  inv'[i].pc # "write"
        BY <1>2, <4>1
      <4>2. CASE NextTuple(i) \/ EndOfAllowlist(i) \/ ItemConflict(i) \/ CheckpointRun(i)
                   \/ Crash(i)
        BY <4>1, <4>2
           DEF NextTuple, EndOfAllowlist, ItemConflict, CheckpointRun, Crash, Over, Started
      <4>3. CASE List(i)
        <5>1. PICK offered : inv' = [inv EXCEPT ![i] = [inv[i] EXCEPT !.pc = "admit",
                                                            !.todo = offered, !.found = {}]]
          BY <4>3 DEF List
        <5> DEFINE l == [inv[i] EXCEPT !.pc = "admit", !.todo = offered, !.found = {}]
        <5>2. l.pc = "admit"
          BY <1>2 DEF Inv
        <5> QED
          BY <4>1, <5>1, <5>2
      <4>4. CASE AdmitEvent(i)
        <5>1. PICK todo, found : inv' = [inv EXCEPT ![i] = [inv[i] EXCEPT !.todo = todo,
                                                                          !.found = found]]
          BY <4>4 DEF AdmitEvent
        <5> DEFINE l == [inv[i] EXCEPT !.todo = todo, !.found = found]
        <5>2. l.pc = "admit"
          BY <1>2, <4>4 DEF AdmitEvent, Inv
        <5> QED
          BY <4>1, <5>1, <5>2
      <4>5. CASE CreateRun(i)
        <5>1. PICK m : inv' = [inv EXCEPT ![i] = [inv[i] EXCEPT !.pc = "items", !.todo = m,
                                                                !.found = m]]
          BY <4>5 DEF CreateRun
        <5> DEFINE l == [inv[i] EXCEPT !.pc = "items", !.todo = m, !.found = m]
        <5>2. l.pc = "items"
          BY <1>2 DEF Inv
        <5> QED
          BY <4>1, <5>1, <5>2
      <4>6. CASE CreateItem(i)
        <5>1. PICK e : inv' = [inv EXCEPT ![i].todo = @ \ {e}] /\ inv[i].pc = "items"
          BY <4>6 DEF CreateItem
        <5> DEFINE l == [inv[i] EXCEPT !.todo = @ \ {e}]
        <5>2. l.pc = "items" /\ inv' = [inv EXCEPT ![i] = l]
          BY <1>2, <5>1 DEF Inv
        <5> QED
          BY <4>1, <5>2
      <4>7. CASE BeginWork(i)
        <5> DEFINE l == [inv[i] EXCEPT !.pc = "work"]
        <5>1. l.pc = "work" /\ inv' = [inv EXCEPT ![i] = l]
          BY <1>2, <4>7 DEF BeginWork, Inv
        <5> QED
          BY <4>1, <5>1
      <4> QED
        BY <2>4, <4>2, <4>3, <4>4, <4>5, <4>6, <4>7 DEF Discover
    <3> QED
      BY <2>2, <3>1
  <2> QED
    BY <2>3, <2>4
<1> QED
  BY <1>6, <1>7, <1>9, <1>10, <1>11, <1>12

LEMMA LeaseEnds ==
  ASSUME EndsInv, NEW x \in ItemId, LeaseRunsOut(x)
  PROVE  /\ SettledLoops' /\ ListedItems' /\ Discovered' /\ Summarized'
         /\ OneEvaluationPerInput' /\ TerminalNamesEvaluation' /\ CompleteIsComplete'
<1>1. /\ Typed /\ item \in [ItemId -> ItemRow] /\ item[x] \in ItemRow /\ ListedItems
      /\ CompleteIsComplete /\ Summarized /\ Discovered /\ inv \in [Invs -> Inv]
  BY DEF EndsInv, Typed, TypeOK
<1>2. item' = [item EXCEPT ![x] = [item[x] EXCEPT !.leased = FALSE]]
  BY DEF LeaseRunsOut, Row
<1>3. item'[x] = [item[x] EXCEPT !.leased = FALSE]
  BY <1>1, <1>2
<1>4. /\ item'[x].state = item[x].state /\ item'[x].terminal = item[x].terminal
      /\ item'[x].id = item[x].id
  BY <1>1, <1>3 DEF ItemRow
<1>5. \A y \in ItemId : /\ item'[y].state = item[y].state
                        /\ item'[y].terminal = item[y].terminal /\ item'[y].id = item[y].id
  BY <1>1, <1>2, <1>4
<1>6. inv' = inv /\ at' = at /\ run' = run /\ claim' = claim /\ evaluated' = evaluated
  BY DEF LeaseRunsOut, results
<1>7. ListedItems' /\ CompleteIsComplete' /\ Summarized'
  BY <1>1, <1>5, <1>6, EndedKept
<1>8. Discovered'
  <2>1. ASSUME NEW j \in Invs, inv[j].pc \in {"items", "work"}, NEW f \in inv[j].found
        PROVE  <<inv[j].run, f>> \in ItemId
    BY <1>1, <2>1 DEF Typed, Tuples, ItemId, Inv
  <2> QED
    BY <1>1, <1>5, <1>6, <2>1 DEF Discovered
<1>9. SettledLoops' /\ OneEvaluationPerInput' /\ TerminalNamesEvaluation'
  BY <1>5, <1>6 DEF EndsInv, SettledLoops, Settled, Id, OneEvaluationPerInput,
     TerminalNamesEvaluation
<1> QED
  BY <1>7, <1>8, <1>9

LEMMA InitEnds == Init => EndsInv
<1> SUFFICES ASSUME Init PROVE EndsInv
  OBVIOUS
<1>1. Typed
  BY InitTypes
<1>2. IdleLoops /\ SettledLoops
  BY DEF Init, IdleLoops, SettledLoops, Settled, Todo
<1>3. \A r \in Run : Listed(r) = {} /\ Ended(r) = {}
  BY DEF Init, Listed, Ended, NoItem, ItemId
<1>4. ListedItems /\ CompleteIsComplete
  BY <1>3 DEF Init, ListedItems, CompleteIsComplete, NoRun
<1>5. Discovered /\ Summarized
  BY DEF Init, Discovered, Summarized, Started
<1>6. OneEvaluationPerInput /\ TerminalNamesEvaluation
  BY DEF Init, OneEvaluationPerInput, TerminalNamesEvaluation, NoItem
<1> QED
  BY <1>1, <1>2, <1>4, <1>5, <1>6 DEF EndsInv

LEMMA EndsKept ==
  ASSUME EndsInv, [Next]_vars
  PROVE  EndsInv'
<1>1. CASE Next
  <2>1. Typed' /\ IdleLoops'
    BY <1>1, TypesKept, IdleKept DEF EndsInv
  <2>2. /\ SettledLoops' /\ ListedItems' /\ Discovered' /\ Summarized'
        /\ OneEvaluationPerInput' /\ TerminalNamesEvaluation' /\ CompleteIsComplete'
    BY <1>1, WorkEnds, OtherEnds, LeaseEnds DEF Next
  <2> QED
    BY <2>1, <2>2 DEF EndsInv
<1>2. CASE UNCHANGED vars
  <2>1. Typed'
    BY <1>2, TypesKept DEF EndsInv
  <2>2. /\ inv' = inv /\ at' = at /\ run' = run /\ item' = item
        /\ claim' = claim /\ evaluated' = evaluated
    BY <1>2 DEF vars, results
  <2>3. IdleLoops' /\ SettledLoops' /\ ListedItems' /\ Discovered'
    BY <2>2 DEF EndsInv, IdleLoops, SettledLoops, Settled, Id, ListedItems, Listed, Discovered
  <2>4. Summarized' /\ OneEvaluationPerInput' /\ TerminalNamesEvaluation' /\ CompleteIsComplete'
    BY <2>2 DEF EndsInv, Summarized, Ended, OneEvaluationPerInput, TerminalNamesEvaluation,
       CompleteIsComplete
  <2> QED
    BY <2>1, <2>3, <2>4 DEF EndsInv
<1> QED
  BY <1>1, <1>2

\* What one step may do to the row of an item.
Stands(x) ==
  /\ item[x].state = "terminal" =>
       /\ item'[x].state = "terminal"
       /\ item'[x].terminal = item[x].terminal /\ item'[x].id = item[x].id
  /\ item[x].state # "terminal" /\ item'[x].state = "terminal" =>
       \E i \in Invs : /\ item[x].token = i
                       /\ \E e \in Events : x = Id(i, e) /\ at[i][e].pc = "finish"

LEMMA StepStands ==
  ASSUME EndsInv, [Next]_vars, NEW x \in ItemId
  PROVE  Stands(x)
<1>1. Typed /\ TypeOK
  BY DEF EndsInv, Typed
<1>2. CASE item'[x] = item[x]
  BY <1>2 DEF Stands
<1>3. ASSUME NEW i \in Invs, NEW e \in Events, Work(i, e) PROVE Stands(x)
  <2>1. CASE x = Id(i, e)
    <3>1. /\ item[x].state = "terminal" => item'[x].state = "terminal"
          /\ \/ item'[x].terminal = item[x].terminal /\ item'[x].id = item[x].id
             \/ item[x].state # "terminal"
          /\ item[x].state # "terminal" /\ item'[x].state = "terminal" =>
               item[x].token = i /\ at[i][e].pc = "finish"
      BY <1>1, <1>3, <2>1, WorkTerminal
    <3> QED
      BY <2>1, <3>1 DEF Stands
  <2>2. CASE x # Id(i, e)
    BY <1>1, <1>2, <1>3, <2>2, WorkFrame
  <2> QED
    BY <2>1, <2>2
<1>4. ASSUME NEW i \in Invs, Discover(i) \/ ReadRun(i) \/ CheckpointRun(i) \/ Crash(i)
      PROVE  Stands(x)
  <2>1. CASE item'[x] # item[x]
    <3>1. item[x] = NoItem /\ item'[x] = [NoItem EXCEPT !.state = "ready"]
      BY <1>1, <1>4, <2>1, OtherItems
    <3>2. item[x].state = "none" /\ item'[x].state = "ready"
      BY <3>1 DEF NoItem
    <3> QED
      BY <3>2 DEF Stands
  <2> QED
    BY <1>2, <2>1
<1>5. ASSUME NEW y \in ItemId, LeaseRunsOut(y) PROVE Stands(x)
  <2>1. item' = [item EXCEPT ![y] = [item[y] EXCEPT !.leased = FALSE]]
        /\ item \in [ItemId -> ItemRow]
    BY <1>1, <1>5 DEF LeaseRunsOut, Row, TypeOK
  <2>2. CASE x = y
    <3>1. item'[x] = [item[x] EXCEPT !.leased = FALSE] /\ item[x] \in ItemRow
      BY <2>1, <2>2
    <3>2. /\ item'[x].state = item[x].state /\ item'[x].terminal = item[x].terminal
          /\ item'[x].id = item[x].id
      BY <3>1 DEF ItemRow
    <3> QED
      BY <3>2 DEF Stands
  <2>3. CASE x # y
    BY <1>2, <2>1, <2>3
  <2> QED
    BY <2>2, <2>3
<1>6. CASE UNCHANGED vars
  BY <1>2, <1>6 DEF vars
<1> QED
  BY <1>3, <1>4, <1>5, <1>6 DEF Next

\* One input has one evaluation, an ended item names a stored one, a complete run counts all
\* its items as ended, and no later step rewrites an ended item (claimTerminal, persist,
\* finishItem, putRun of the pick store and runtime).
THEOREM EndsCorrect == Spec => PicksEndOnce
<1>1. EndsInv => OneEvaluationPerInput /\ TerminalNamesEvaluation /\ CompleteIsComplete
  BY DEF EndsInv
<1>2. EndsInv /\ [Next]_vars => \A x \in ItemId : Stands(x)
  BY StepStands
<1>3. Spec => []EndsInv
  BY InitEnds, EndsKept, PTL DEF Spec
<1>4. (\A x \in ItemId : Stands(x)) =>
        [\A x \in ItemId :
           /\ item[x].state = "terminal" =>
                /\ item'[x].state = "terminal"
                /\ item'[x].terminal = item[x].terminal /\ item'[x].id = item[x].id
           /\ item[x].state # "terminal" /\ item'[x].state = "terminal" =>
                \E i \in Invs : /\ item[x].token = i
                                /\ \E e \in Events : x = Id(i, e) /\ at[i][e].pc = "finish"]_vars
  BY DEF Stands
<1>5. EndsInv /\ [Next]_vars =>
        [\A x \in ItemId :
           /\ item[x].state = "terminal" =>
                /\ item'[x].state = "terminal"
                /\ item'[x].terminal = item[x].terminal /\ item'[x].id = item[x].id
           /\ item[x].state # "terminal" /\ item'[x].state = "terminal" =>
                \E i \in Invs : /\ item[x].token = i
                                /\ \E e \in Events : x = Id(i, e) /\ at[i][e].pc = "finish"]_vars
  BY <1>2, <1>4
<1> QED
  BY <1>1, <1>3, <1>5, PTL DEF Spec, PicksEndOnce, TerminalStands
=============================================================================
