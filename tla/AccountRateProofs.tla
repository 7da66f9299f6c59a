--------------------------- MODULE AccountRateProofs ---------------------------
(***************************************************************************)
(* What AccountRateWindow guarantees for any number of consumers, any      *)
(* limit and any reserves.                                                 *)
(***************************************************************************)
EXTENDS AccountRateWindow, TLAPS

-----------------------------------------------------------------------------
(* Types *)

RowTypes ==
  /\ row \in Health
  /\ fresh \in SUBSET Procs
  /\ credit \in 0..Limit
  /\ unsent \in Int
  /\ unreserved \in Nat
  /\ reserved \in Nat /\ forgotten \in Nat
  /\ refused \in BOOLEAN
ProcTypes == proc \in [Procs -> Local]

LEMMA TypesSplit == TypeOK <=> RowTypes /\ ProcTypes
BY DEF TypeOK, RowTypes, ProcTypes

LEMMA WhenTypes ==
  /\ Aged \in [When -> When]
  /\ \A v, w \in When : Later(v, w) \in {v, w}
BY DEF Aged, When, Later, Rank

LEMMA LocalFields ==
  ASSUME NEW l \in Local
  PROVE  /\ l.pc \in PC /\ l.cost \in {1, 2} /\ l.at \in When /\ l.rsv \in When
         /\ l.known \in BOOLEAN /\ l.again \in BOOLEAN /\ l.second \in BOOLEAN
         /\ l.answer \in Answer /\ l.why \in Why
         /\ l.answer.win \in When /\ l.answer.left \in 0..Limit
BY DEF Local, Answer

LEMMA IdleLocal == Idle \in Local /\ NoAnswer \in Answer
BY LimitAssumption DEF Local, Idle, NoAnswer, Answer, PC, When, Why

\* One consumer's local state moves; the others' stay.
LEMMA LocalMoves ==
  ASSUME ProcTypes, NEW p \in Procs, NEW l \in Local, proc' = [proc EXCEPT ![p] = l]
  PROVE  /\ ProcTypes'
         /\ proc'[p] = l
         /\ \A q \in Procs : q # p => proc'[q] = proc[q]
BY DEF ProcTypes

LEMMA GotoTypes ==
  ASSUME ProcTypes, NEW p \in Procs, NEW pc \in PC, Goto(p, pc)
  PROVE  ProcTypes'
<1> DEFINE l == [proc[p] EXCEPT !.pc = pc]
<1>1. proc[p] \in Local
  BY DEF ProcTypes
<1>2. l \in Local
  BY <1>1 DEF Local
<1>3. proc' = [proc EXCEPT ![p] = l]
  BY DEF Goto
<1> QED
  BY <1>2, <1>3, LocalMoves

LEMMA StopTypes ==
  ASSUME ProcTypes, NEW p \in Procs, Stop(p)
  PROVE  ProcTypes'
BY IdleLocal, LocalMoves DEF Stop

LEMMA FailTypes ==
  ASSUME ProcTypes, NEW p \in Procs, NEW why \in Why, FailWith(p, why)
  PROVE  ProcTypes'
<1> DEFINE l == [proc[p] EXCEPT !.pc = "failing", !.why = why]
<1>1. proc[p] \in Local
  BY DEF ProcTypes
<1>2. l \in Local
  BY <1>1 DEF Local, PC
<1>3. proc' = [proc EXCEPT ![p] = l]
  BY DEF FailWith
<1> QED
  BY <1>2, <1>3, LocalMoves

LEMMA StartTypes ==
  ASSUME ProcTypes, NEW p \in Procs, NEW cost \in {1, 2}, Start(p, cost)
  PROVE  ProcTypes'
<1> DEFINE l == [Idle EXCEPT !.pc = "read", !.cost = cost]
<1>1. l \in Local
  BY IdleLocal DEF Local, PC
<1>2. proc' = [proc EXCEPT ![p] = l]
  BY DEF Start
<1> QED
  BY <1>1, <1>2, LocalMoves

LEMMA LookTypes ==
  ASSUME ProcTypes, NEW p \in Procs, LandingLook(p) \/ ClosingLook(p)
  PROVE  ProcTypes'
<1>1. proc[p] \in Local
  BY DEF ProcTypes
<1>2. CASE Stop(p)
  BY <1>2, StopTypes
<1>3. CASE Goto(p, "recover")
  BY <1>3, GotoTypes DEF PC
<1>4. CASE proc' = [proc EXCEPT ![p] = [@ EXCEPT !.pc = "reserve", !.at = "now",
                                                 !.again = At(p, "reread")]]
  <2> DEFINE b == At(p, "reread")
  <2>1. b \in BOOLEAN
    BY DEF At
  <2> DEFINE l == [proc[p] EXCEPT !.pc = "reserve", !.at = "now", !.again = b]
  <2>2. proc' = [proc EXCEPT ![p] = l]
    BY <1>4
  <2> HIDE DEF b
  <2>3. l \in Local
    BY <1>1, <2>1 DEF Local, PC, When
  <2> QED
    BY <2>2, <2>3, LocalMoves
<1>5. CASE proc' = [proc EXCEPT ![p] = [@ EXCEPT !.pc = "reserve", !.at = "now"]]
  <2> DEFINE l == [proc[p] EXCEPT !.pc = "reserve", !.at = "now"]
  <2>1. l \in Local
    BY <1>1 DEF Local, PC, When
  <2>2. proc' = [proc EXCEPT ![p] = l]
    BY <1>5
  <2> QED
    BY <2>1, <2>2, LocalMoves
<1> QED
  BY <1>2, <1>3, <1>4, <1>5 DEF LandingLook, ClosingLook

LEMMA ReserveTypes ==
  ASSUME RowTypes, ProcTypes, NEW p \in Procs, NEW reserve \in Nat, Reserve(p, reserve)
  PROVE  ProcTypes'
<1> DEFINE r == row.resets
<1> DEFINE l == [proc[p] EXCEPT !.pc = "ask", !.rsv = r]
<1>1. proc[p] \in Local /\ r \in When
  BY DEF ProcTypes, RowTypes, Health
<1>2. CASE Turned(p)
  BY <1>2, GotoTypes, StopTypes DEF Turned, PC
<1>3. CASE proc' = [proc EXCEPT ![p] = [@ EXCEPT !.pc = "ask", !.rsv = row.resets]]
  <2>1. proc' = [proc EXCEPT ![p] = l]
    BY <1>3
  <2> HIDE DEF r
  <2>2. l \in Local
    BY <1>1 DEF Local, PC
  <2> QED
    BY <2>1, <2>2, LocalMoves
<1> QED
  BY <1>2, <1>3 DEF Reserve, Take

LEMMA ProbeTypes ==
  ASSUME ProcTypes, NEW p \in Procs, ClaimProbe(p) \/ PollWinner(p) \/ CompleteProbe(p)
  PROVE  ProcTypes'
<1>1. proc[p] \in Local /\ proc[p].cost \in {1, 2}
  BY DEF ProcTypes, Local
<1>2. CASE ClaimProbe(p)
  <2> DEFINE l == [proc[p] EXCEPT !.pc = "ask", !.rsv = "none", !.at = "now"]
  <2>1. l \in Local
    BY <1>1 DEF Local, PC, When
  <2>2. proc' = [proc EXCEPT ![p] = l]
    BY <1>2 DEF ClaimProbe
  <2> QED
    BY <2>1, <2>2, LocalMoves
<1>3. CASE PollWinner(p)
  <2> DEFINE l == [proc[p] EXCEPT !.pc = "read", !.second = TRUE, !.again = FALSE]
  <2>1. l \in Local
    BY <1>1 DEF Local, PC
  <2>2. proc' = [proc EXCEPT ![p] = l]
    BY <1>3 DEF PollWinner
  <2> QED
    BY <2>1, <2>2, LocalMoves
<1>4. CASE CompleteProbe(p)
  <2> DEFINE c == proc[p].cost
  <2> DEFINE l == [Idle EXCEPT !.pc = "read", !.cost = c, !.second = TRUE]
  <2>1. proc' = [proc EXCEPT ![p] = l]
    BY <1>4 DEF CompleteProbe
  <2>2. c \in {1, 2}
    BY <1>1
  <2> HIDE DEF c
  <2>3. l \in Local
    BY <2>2, IdleLocal DEF Local, PC
  <2> QED
    BY <2>1, <2>3, LocalMoves
<1> QED
  BY <1>2, <1>3, <1>4

LEMMA RequestTypes ==
  ASSUME RowTypes, ProcTypes, NEW p \in Procs,
         ProviderAnswers(p) \/ ProviderLimits(p) \/ NotSent(p) \/ Crash(p)
  PROVE  ProcTypes'
<1>1. proc[p] \in Local
  BY DEF ProcTypes
<1>2. CASE \E why \in Why : FailWith(p, why)
  BY <1>2, FailTypes
<1>3. CASE \E pc \in PC : Goto(p, pc)
  BY <1>3, GotoTypes
<1>4. CASE Stop(p)
  BY <1>4, StopTypes
<1>5. CASE \E a \in Answer, pc \in PC : proc' = [proc EXCEPT ![p] = [@ EXCEPT !.pc = pc, !.answer = a]]
  <2>1. PICK a \in Answer, pc \in PC : proc' = [proc EXCEPT ![p] = [@ EXCEPT !.pc = pc, !.answer = a]]
    BY <1>5
  <2> DEFINE l == [proc[p] EXCEPT !.pc = pc, !.answer = a]
  <2>2. l \in Local
    BY <1>1 DEF Local
  <2>3. proc' = [proc EXCEPT ![p] = l]
    BY <2>1
  <2> QED
    BY <2>2, <2>3, LocalMoves
<1>6. CASE ProviderAnswers(p)
  <2>1. AfterAnswer(p) \in PC
    BY DEF AfterAnswer, PC
  <2>2. credit' \in 0..Limit
    BY <1>1, <1>6, LocalFields, LimitAssumption DEF ProviderAnswers, Price, RowTypes
  <2>3. {NoAnswer, [win |-> "now", left |-> credit']} \subseteq Answer
    BY <2>2, IdleLocal DEF Answer, When
  <2> QED
    BY <1>2, <1>3, <1>4, <1>5, <1>6, <2>1, <2>3 DEF ProviderAnswers, PC, Why
<1>7. CASE ProviderLimits(p)
  <2> DEFINE pc == IF p \in Collectors THEN "failing" ELSE "limited"
  <2> DEFINE a == [win |-> "now", left |-> 0]
  <2> DEFINE l == [proc[p] EXCEPT !.pc = pc, !.answer = a, !.why = "limited"]
  <2>1. pc \in PC /\ a \in Answer
    BY LimitAssumption DEF PC, Answer, When
  <2>2. proc' = [proc EXCEPT ![p] = l]
    BY <1>7 DEF ProviderLimits
  <2> HIDE DEF pc, a
  <2>3. l \in Local
    BY <1>1, <2>1 DEF Local, Why
  <2> QED
    BY <2>2, <2>3, LocalMoves
<1>8. CASE NotSent(p)
  <2> DEFINE l == [proc[p] EXCEPT !.pc = "recover", !.rsv = "none"]
  <2>1. l \in Local
    BY <1>1 DEF Local, PC, When
  <2>2. CASE proc' = [proc EXCEPT ![p] = [@ EXCEPT !.pc = "recover", !.rsv = "none"]]
    BY <2>1, <2>2, LocalMoves
  <2> QED
    BY <1>2, <1>4, <1>8, <2>2 DEF NotSent, Why
<1>9. CASE Crash(p)
  BY <1>4, <1>9 DEF Crash
<1> QED
  BY <1>6, <1>7, <1>8, <1>9

LEMMA CollectorTypes ==
  ASSUME RowTypes, ProcTypes, NEW p \in Procs, CollectorStep(p)
  PROVE  ProcTypes'
<1>1. proc[p] \in Local
  BY DEF ProcTypes
<1>2. CASE \E why \in Why : FailWith(p, why)
  BY <1>2, FailTypes
<1>3. CASE \E pc \in PC : Goto(p, pc)
  BY <1>3, GotoTypes
<1>4. CASE Stop(p)
  BY <1>4, StopTypes
<1>5. CASE UNCHANGED proc
  BY <1>5 DEF ProcTypes
<1>6. CASE CollectorLook(p)
  <2> DEFINE k == row.known
  <2> DEFINE l == [Idle EXCEPT !.pc = "take", !.known = k]
  <2>1. CASE proc' = [proc EXCEPT ![p] = [Idle EXCEPT !.pc = "take", !.known = row.known]]
    <3>1. k \in BOOLEAN
      BY DEF RowTypes, Health
    <3>2. proc' = [proc EXCEPT ![p] = l]
      BY <2>1
    <3> HIDE DEF k
    <3>3. l \in Local
      BY <3>1, IdleLocal DEF Local, PC
    <3> QED
      BY <3>2, <3>3, LocalMoves
  <2> QED
    BY <1>5, <1>6, <2>1 DEF CollectorLook
<1>7. CASE CollectorTake(p)
  <2> DEFINE r == row.resets
  <2>1. r \in When
    BY DEF RowTypes, Health
  <2> DEFINE l == [proc[p] EXCEPT !.pc = "ask", !.rsv = r]
  <2>2. CASE proc' = [proc EXCEPT ![p] = [@ EXCEPT !.pc = "ask", !.rsv = row.resets]]
    <3>1. proc' = [proc EXCEPT ![p] = l]
      BY <2>2
    <3> HIDE DEF r
    <3>2. l \in Local
      BY <1>1, <2>1 DEF Local, PC
    <3> QED
      BY <3>1, <3>2, LocalMoves
  <2> DEFINE m == [proc[p] EXCEPT !.pc = "ask", !.at = "now"]
  <2>3. CASE proc' = [proc EXCEPT ![p] = [@ EXCEPT !.pc = "ask", !.at = "now"]]
    <3>1. proc' = [proc EXCEPT ![p] = m]
      BY <2>3
    <3>2. m \in Local
      BY <1>1 DEF Local, PC, When
    <3> QED
      BY <3>1, <3>2, LocalMoves
  <2> QED
    BY <1>2, <1>7, <2>2, <2>3 DEF CollectorTake, Take, Why
<1>8. CASE PublishLook(p) \/ FailLook(p)
  BY <1>3, <1>8 DEF PublishLook, FailLook, PC
<1>9. CASE PublishPut(p) \/ FailPut(p)
  BY <1>2, <1>4, <1>9 DEF PublishPut, FailPut, Why
<1> QED
  BY <1>6, <1>7, <1>8, <1>9 DEF CollectorStep

LEMMA AgingTypes ==
  ASSUME ProcTypes, NextWindow
  PROVE  ProcTypes'
<1>1. ASSUME NEW l \in Local PROVE Older(l) \in Local
  <2> DEFINE at == Aged[l.at]
  <2> DEFINE rsv == Aged[l.rsv]
  <2> DEFINE a == [l.answer EXCEPT !.win = Aged[@]]
  <2>1. at \in When /\ rsv \in When /\ a \in Answer
    BY WhenTypes, LocalFields DEF Answer
  <2>2. Older(l) = [l EXCEPT !.at = at, !.rsv = rsv, !.answer = a]
    BY DEF Older
  <2> HIDE DEF at, rsv, a
  <2> QED
    BY <2>1, <2>2 DEF Local
<1> QED
  BY <1>1 DEF NextWindow, ProcTypes

LEMMA ProcTypesStep ==
  ASSUME RowTypes, ProcTypes, [Next]_vars
  PROVE  ProcTypes'
<1>1. CASE UNCHANGED vars
  BY <1>1 DEF ProcTypes, vars
<1>2. ASSUME NEW p \in Procs, LandingStep(p) \/ ClosingStep(p) PROVE ProcTypes'
  <2>1. CASE LandingMisconfigured(p)
    <3> DEFINE l == [Idle EXCEPT !.pc = "refused"]
    <3>1. l \in Local
      BY IdleLocal DEF Local, PC
    <3>2. proc' = [proc EXCEPT ![p] = l]
      BY <2>1 DEF LandingMisconfigured
    <3> QED
      BY <3>1, <3>2, LocalMoves
  <2>2. CASE ReserveExpired(p)
    BY <2>2, GotoTypes, StopTypes DEF ReserveExpired, Turned, PC
  <2>3. CASE ResetBeforeProbe(p)
    BY <2>3 DEF ResetBeforeProbe, ProcTypes
  <2>4. CASE Reconcile(p) \/ Block(p) \/ Terminate(p)
    BY <2>4, StopTypes DEF Reconcile, Block, Terminate
  <2> QED
    BY <1>2, <2>1, <2>2, <2>3, <2>4, StartTypes, LookTypes, ReserveTypes, ProbeTypes,
       ReserveAssumption DEF LandingStep, ClosingStep, LandingStart
<1>3. CASE ProbeLapses
  BY <1>3 DEF ProbeLapses, ProcTypes
<1> QED
  BY <1>1, <1>2, <1>3, RequestTypes, CollectorTypes, AgingTypes DEF Next, Request, Fault, Procs

-----------------------------------------------------------------------------
(* The row and the ledger keep their types *)

LEMMA RowFields ==
  ASSUME RowTypes
  PROVE  /\ row.health \in {"ok", "transient", "ambiguous", "terminal"} /\ row.retry \in When
         /\ row.known \in BOOLEAN /\ row.left \in 0..Limit /\ row.resets \in When
         /\ row.probe \in {"none", "live", "aging", "over"}
BY DEF RowTypes, Health

LEMMA ReleasedType ==
  ASSUME RowTypes, ProcTypes, NEW p \in Procs
  PROVE  /\ Released(p) \in Int /\ Released(p) <= unsent
         /\ proc[p].cost \in {1, 2} /\ Price(p) \in {1, 2}
BY LocalFields DEF Released, Price, RowTypes, ProcTypes

LEMMA PauseType ==
  ASSUME RowTypes, ProcTypes, NEW p \in Procs
  PROVE  PauseOf(p) \subseteq When \ {"none"}
BY RowFields DEF PauseOf, When

LEMMA RequestRowTypes ==
  ASSUME RowTypes, ProcTypes, NEW p \in Procs,
         ProviderAnswers(p) \/ ProviderLimits(p) \/ NotSent(p) \/ Crash(p)
  PROVE  RowTypes'
<1>1. UNCHANGED <<row, fresh>>
  BY DEF ProviderAnswers, ProviderLimits, NotSent, Crash, KeepRow
<1>2. unsent' \in Int
  BY ReleasedType DEF ProviderAnswers, ProviderLimits, NotSent, Crash, RowTypes
<1>3. credit' \in 0..Limit
  BY ReleasedType, LimitAssumption
  DEF ProviderAnswers, ProviderLimits, NotSent, Crash, RowTypes
<1>4. unreserved' \in Nat
  BY ReleasedType, LimitAssumption
  DEF ProviderAnswers, ProviderLimits, NotSent, Crash, Charged, RowTypes
<1>5. refused' \in BOOLEAN
  BY DEF ProviderAnswers, ProviderLimits, NotSent, Crash, RowTypes
<1>6. UNCHANGED <<reserved, forgotten>>
  BY DEF ProviderAnswers, ProviderLimits, NotSent, Crash, totals
<1> QED
  BY <1>1, <1>2, <1>3, <1>4, <1>5, <1>6 DEF RowTypes

RowPart == row \in Health /\ fresh \in SUBSET Procs
RestPart ==
  /\ credit \in 0..Limit /\ unsent \in Int /\ unreserved \in Nat
  /\ reserved \in Nat /\ forgotten \in Nat /\ refused \in BOOLEAN

LEMMA WriteTypes ==
  ASSUME NEW r \in Health, Write(r)
  PROVE  RowPart'
BY DEF Write, RowPart

LEMMA KeepTypes ==
  ASSUME RowTypes, KeepRow
  PROVE  RowPart'
BY DEF KeepRow, RowTypes, RowPart

LEMMA ResetType ==
  ASSUME RowTypes
  PROVE  WindowReset \in Health
<1>1. 0 \in 0..Limit /\ "none" \in When
  BY LimitAssumption DEF When
<1> QED
  BY <1>1 DEF RowTypes, WindowReset, Health

LEMMA ReserveRowTypes ==
  ASSUME RowTypes, ProcTypes, NEW p \in Procs, NEW reserve \in Nat, Reserve(p, reserve)
  PROVE  RowTypes'
<1>1. unsent' \in Int /\ reserved' \in Nat /\ UNCHANGED <<credit, unreserved, forgotten, refused>>
  BY ReleasedType DEF Reserve, Take, RowTypes
<1>2. CASE KeepRow
  BY <1>1, <1>2 DEF RowTypes, KeepRow
<1>3. CASE Reservable(p, reserve) /\ Write([row EXCEPT !.left = @ - proc[p].cost])
  <2> DEFINE n == row.left - proc[p].cost
  <2>1. n \in 0..Limit
    BY <1>3, ReleasedType, RowFields, LimitAssumption DEF Reservable
  <2>2. row' = [row EXCEPT !.left = n] /\ fresh' = {}
    BY <1>3 DEF Write
  <2> HIDE DEF n
  <2>3. row' \in Health
    BY <2>1, <2>2 DEF RowTypes, Health
  <2> QED
    BY <1>1, <2>2, <2>3 DEF RowTypes
<1> QED
  BY <1>2, <1>3 DEF Reserve, Take

LEMMA AnswerRowTypes ==
  ASSUME RowTypes, ProcTypes, NEW p \in Procs,
         CompleteProbe(p) \/ Reconcile(p) \/ Block(p) \/ Terminate(p)
  PROVE  RowTypes'
<1> DEFINE a == proc[p].answer
<1>1. a \in Answer /\ a.left \in 0..Limit /\ a.win \in When
  BY LocalFields DEF ProcTypes
<1>2. RestPart'
  BY DEF CompleteProbe, Reconcile, Block, Terminate, RowTypes, RestPart, ledger
<1>3. CASE CompleteProbe(p)
  <2> DEFINE r == [health |-> "ok", retry |-> "none", known |-> TRUE,
                   left |-> a.left, resets |-> a.win, probe |-> "none"]
  <2>1. r \in Health
    BY <1>1 DEF Health, When
  <2>2. Write(r) \/ KeepRow
    BY <1>3 DEF CompleteProbe
  <2> QED
    BY <1>2, <2>1, <2>2, WriteTypes, KeepTypes DEF RowTypes, RowPart, RestPart
<1>4. CASE Reconcile(p)
  <2>1. Reconciled(a) \in Health
    <3> DEFINE n == IF row.known /\ row.left < a.left THEN row.left ELSE a.left
    <3>1. n \in 0..Limit
      BY <1>1, RowFields
    <3>2. Reconciled(a) = row \/ Reconciled(a) = [row EXCEPT !.known = TRUE, !.resets = a.win, !.left = n]
      BY DEF Reconciled
    <3> HIDE DEF n
    <3> QED
      BY <1>1, <3>1, <3>2 DEF RowTypes, Health
  <2>2. Write(Reconciled(a)) \/ Write(row)
    BY <1>4 DEF Reconcile
  <2>3. row \in Health
    BY DEF RowTypes
  <2> HIDE DEF a
  <2> QED
    BY <1>2, <2>1, <2>2, <2>3, WriteTypes DEF RowTypes, RowPart, RestPart
<1>5. CASE Block(p)
  <2>1. ASSUME NEW until \in When PROVE Blocked(until) \in Health
    <3> DEFINE w == Later(row.resets, until)
    <3>1. w \in When
      BY WhenTypes, RowFields
    <3>2. Blocked(until) = [row EXCEPT !.health = "transient", !.retry = until, !.known = TRUE,
                                       !.left = 0, !.resets = w]
      BY DEF Blocked
    <3>3. 0 \in 0..Limit
      BY LimitAssumption
    <3> HIDE DEF w
    <3> QED
      BY <3>1, <3>2, <3>3 DEF RowTypes, Health
  <2>2. KeepRow \/ \E until \in When : Write(Blocked(until))
    BY <1>5, PauseType DEF Block
  <2> QED
    BY <1>2, <2>1, <2>2, WriteTypes, KeepTypes DEF RowTypes, RowPart, RestPart
<1>6. CASE Terminate(p)
  <2>1. [row EXCEPT !.health = "terminal", !.retry = "none"] \in Health
    BY DEF RowTypes, Health, When
  <2>2. KeepRow \/ Write([row EXCEPT !.health = "terminal", !.retry = "none"])
    BY <1>6 DEF Terminate
  <2> QED
    BY <1>2, <2>1, <2>2, WriteTypes, KeepTypes DEF RowTypes, RowPart, RestPart
<1> QED
  BY <1>3, <1>4, <1>5, <1>6

LEMMA CollectorRowTypes ==
  ASSUME RowTypes, ProcTypes, NEW p \in Procs, CollectorStep(p)
  PROVE  RowTypes'
<1> DEFINE a == proc[p].answer
<1>1. a \in Answer /\ a.left \in 0..Limit /\ a.win \in When
  BY LocalFields DEF ProcTypes
<1>2. CASE CollectorLook(p)
  <2>1. RestPart'
    BY <1>2 DEF CollectorLook, RowTypes, RestPart, ledger
  <2>2. CASE Write(WindowReset)
    BY <2>1, <2>2, ResetType, WriteTypes DEF RowTypes, RowPart, RestPart
  <2>3. CASE UNCHANGED row /\ fresh' = fresh \cup {p}
    BY <2>1, <2>3 DEF RowTypes, RowPart, RestPart
  <2> QED
    BY <1>2, <2>2, <2>3 DEF CollectorLook
<1>3. CASE CollectorTake(p)
  <2>1. unsent' \in Int /\ reserved' \in Nat /\ UNCHANGED <<credit, unreserved, forgotten, refused>>
    BY <1>3 DEF CollectorTake, Take, RowTypes
  <2>2. CASE Takeable(p) /\ proc[p].known /\ Write([row EXCEPT !.left = @ - 1])
    <3> DEFINE n == row.left - 1
    <3>1. n \in 0..Limit
      BY <2>2, RowFields, ReserveAssumption, LimitAssumption DEF Takeable
    <3>2. row' = [row EXCEPT !.left = n] /\ fresh' = {}
      BY <2>2 DEF Write
    <3> HIDE DEF n
    <3>3. row' \in Health
      BY <3>1, <3>2 DEF RowTypes, Health
    <3> QED
      BY <2>1, <3>2, <3>3 DEF RowTypes
  <2>3. CASE Write([row EXCEPT !.probe = "live"])
    <3>1. row' \in Health /\ fresh' = {}
      BY <2>3 DEF Write, RowTypes, Health
    <3> QED
      BY <2>1, <3>1 DEF RowTypes
  <2>4. CASE KeepRow
    BY <2>1, <2>4 DEF KeepRow, RowTypes
  <2> QED
    BY <1>3, <2>2, <2>3, <2>4 DEF CollectorTake, Take
<1>4. CASE PublishLook(p) \/ FailLook(p)
  BY <1>4 DEF PublishLook, FailLook, RowTypes, ledger
<1>5. CASE PublishPut(p)
  <2>1. Healthy(a) \in Health
    BY <1>1 DEF Healthy, RowTypes, Health, When
  <2>2. Write(Healthy(a)) \/ KeepRow
    BY <1>5 DEF PublishPut
  <2>3. RestPart'
    BY <1>5 DEF PublishPut, RowTypes, RestPart, ledger
  <2> HIDE DEF a
  <2> QED
    BY <2>1, <2>2, <2>3, WriteTypes, KeepTypes DEF RowTypes, RowPart, RestPart
<1>6. CASE FailPut(p)
  <2>1. ASSUME NEW why, NEW until \in {"now", "next"} PROVE Unhealthy(why, until) \in Health
    <3>1. ClassOf(why) \in {"transient", "ambiguous", "terminal"}
      BY DEF ClassOf
    <3>2. until \in When /\ "none" \in When
      BY DEF When
    <3> QED
      BY <3>1, <3>2 DEF Unhealthy, RowTypes, Health
  <2>2. KeepRow \/ \E until \in {"now", "next"} : Write(Unhealthy(proc[p].why, until))
    BY <1>6 DEF FailPut
  <2>3. RestPart'
    BY <1>6 DEF FailPut, RowTypes, RestPart, ledger
  <2> QED
    BY <2>1, <2>2, <2>3, WriteTypes, KeepTypes DEF RowTypes, RowPart, RestPart
<1> QED
  BY <1>2, <1>3, <1>4, <1>5, <1>6 DEF CollectorStep

LEMMA TimeRowTypes ==
  ASSUME RowTypes, NextWindow \/ ProbeLapses
  PROVE  RowTypes'
<1>1. CASE NextWindow
  <2> DEFINE resets == Aged[row.resets]
  <2> DEFINE retry == Aged[row.retry]
  <2> DEFINE probe == IF row.probe = "live" THEN "aging"
                      ELSE IF row.probe = "aging" THEN "over" ELSE row.probe
  <2>1. resets \in When /\ retry \in When /\ probe \in {"none", "live", "aging", "over"}
    BY WhenTypes, RowFields
  <2>2. row' = [row EXCEPT !.resets = resets, !.retry = retry, !.probe = probe]
    BY <1>1 DEF NextWindow
  <2> HIDE DEF resets, retry, probe
  <2>3. row' \in Health
    BY <2>1, <2>2 DEF RowTypes, Health
  <2> QED
    BY <1>1, <2>3, LimitAssumption DEF NextWindow, RowTypes
<1>2. CASE ProbeLapses
  BY <1>2 DEF ProbeLapses, RowTypes, Health, ledger
<1> QED
  BY <1>1, <1>2

LEMMA RowTypesStep ==
  ASSUME RowTypes, ProcTypes, [Next]_vars
  PROVE  RowTypes'
<1>1. CASE UNCHANGED vars
  BY <1>1 DEF RowTypes, vars, ledger
<1>2. ASSUME NEW p \in Procs, LandingStep(p) \/ ClosingStep(p) PROVE RowTypes'
  <2>1. CASE \E cost \in {1, 2} : Start(p, cost)
    BY <2>1 DEF Start, RowTypes, ledger
  <2>2. CASE LandingMisconfigured(p) \/ PollWinner(p)
    BY <2>2 DEF LandingMisconfigured, PollWinner, RowTypes, ledger
  <2>3. CASE LandingLook(p) \/ ClosingLook(p)
    BY <2>3 DEF LandingLook, ClosingLook, RowTypes, ledger
  <2>4. CASE ReserveExpired(p) \/ ResetBeforeProbe(p)
    <3>1. Write(WindowReset)
      BY <2>4 DEF ReserveExpired, ResetBeforeProbe
    <3>2. RestPart'
      BY <2>4 DEF ReserveExpired, ResetBeforeProbe, RowTypes, RestPart, ledger
    <3> QED
      BY <3>1, <3>2, ResetType, WriteTypes DEF RowTypes, RowPart, RestPart
  <2>5. CASE ClaimProbe(p)
    BY <2>5 DEF ClaimProbe, RowTypes, Health, ledger
  <2> QED
    BY <1>2, <2>1, <2>2, <2>3, <2>4, <2>5, ReserveRowTypes, AnswerRowTypes, ReserveAssumption
    DEF LandingStep, ClosingStep, LandingStart
<1> QED
  BY <1>1, <1>2, RequestRowTypes, CollectorRowTypes, TimeRowTypes DEF Next, Request, Fault, Procs

\* Every reachable state of the row, of the consumers and of the ledger is a
\* state the code's types and conditions allow: in particular the balance
\* never goes below zero, whatever the consumers and their number.
THEOREM TypeCorrect == Spec => []TypeOK
<1>1. Init => TypeOK
  <2> SUFFICES ASSUME Init PROVE TypeOK
    OBVIOUS
  <2>1. RowTypes
    <3>1. Limit - 1 \in 0..Limit /\ "none" \in When /\ "now" \in When
      BY LimitAssumption DEF When
    <3> DEFINE n == Limit - 1
    <3>2. row = [health |-> "ok", retry |-> "none", known |-> TRUE, left |-> n,
                 resets |-> "now", probe |-> "none"]
      BY DEF Init
    <3>3. credit = n /\ fresh = {} /\ unsent = 0 /\ unreserved = 0 /\ reserved = 0
          /\ forgotten = 0 /\ refused = FALSE
      BY DEF Init
    <3>4. n \in 0..Limit
      BY <3>1
    <3> HIDE DEF n
    <3>5. row \in Health
      BY <3>1, <3>2, <3>4 DEF Health
    <3>6. credit \in 0..Limit
      BY <3>3, <3>4
    <3>7. unsent \in Int /\ unreserved \in Nat /\ reserved \in Nat /\ forgotten \in Nat /\ fresh \in SUBSET Procs
      BY <3>3
    <3>8. refused \in BOOLEAN
      BY <3>3
    <3> QED
      BY <3>5, <3>6, <3>7, <3>8 DEF RowTypes
  <2>2. ProcTypes
    BY IdleLocal DEF Init, ProcTypes
  <2> QED
    BY <2>1, <2>2, TypesSplit
<1>2. TypeOK /\ [Next]_vars => TypeOK'
  <2> SUFFICES ASSUME TypeOK, [Next]_vars PROVE RowTypes' /\ ProcTypes'
    BY DEF TypeOK, RowTypes, ProcTypes
  <2> QED
    BY TypesSplit, RowTypesStep, ProcTypesStep
<1> QED
  BY <1>1, <1>2, PTL DEF Spec

-----------------------------------------------------------------------------
(* NeverOverstated.  It rests on what an answer still on its way may claim: *)
(* together with what is reserved and not yet sent, no more than the        *)
(* provider has left, what was charged without a reservation, and what has  *)
(* been reserved in the window altogether.  Only a collector writes its     *)
(* answer over a row that may know of more; otherwise an answer is believed *)
(* while the row does not know the current window, and nobody can then have *)
(* reserved from it since a collector last wrote.                           *)

\* The row knows the current window, or is paused beyond it.
Current == row.known /\ row.resets \in {"now", "next"}

RowInv ==
  /\ row.known => row.resets # "none"
  /\ row.resets = "next" => row.known /\ row.left = 0
  /\ unsent <= reserved
  /\ ~Current => reserved = forgotten
  /\ NeverOverstated

ProcInv(p) ==
  /\ proc[p].rsv # "next" /\ proc[p].answer.win # "next"
  /\ proc[p].answer # NoAnswer => proc[p].answer.win # "none"
  /\ proc[p].answer.win = "now"
       => proc[p].answer.left + unsent <= credit + unreserved + reserved
  /\ (At(p, "ask") /\ Probes(p)) \/ At(p, "complete") => p \notin fresh \/ ~row.known

Inv == RowInv /\ \A p \in Procs : ProcInv(p)

\* Only p moves.
Others(p) == \A q \in Procs : q # p => proc'[q] = proc[q]

\* Nothing leaves the books of the window unaccounted for.
Booked == unsent' + credit + unreserved + reserved <= unsent + credit' + unreserved' + reserved'

LEMMA Numbers ==
  ASSUME RowTypes
  PROVE  /\ credit \in Int /\ unreserved \in Int /\ unsent \in Int /\ reserved \in Int
         /\ forgotten \in Int /\ row.left \in Int /\ row.resets \in When
         /\ credit >= 0 /\ unreserved >= 0 /\ row.left >= 0
BY RowFields, LimitAssumption DEF RowTypes

\* What an answer claims stays within the books.
LEMMA ClaimStays ==
  ASSUME RowTypes, RowTypes', Booked, NEW n \in Int,
         n + unsent <= credit + unreserved + reserved
  PROVE  n + unsent' <= credit' + unreserved' + reserved'
<1> DEFINE a == unsent'  b == credit'  c == unreserved'  d == reserved'
<1>1. credit \in Int /\ unreserved \in Int /\ unsent \in Int /\ reserved \in Int
  BY Numbers
<1>2. a \in Int /\ b \in Int /\ c \in Int /\ d \in Int
  BY LimitAssumption DEF RowTypes
<1>3. a + credit + unreserved + reserved <= unsent + b + c + d
  BY DEF Booked
<1> HIDE DEF a, b, c, d
<1>4. n + a <= b + c + d
  BY <1>1, <1>2, <1>3
<1> QED
  BY <1>4 DEF a, b, c, d

\* One consumer moves.  The others' part of the invariant stays if the books of
\* the window stay balanced.
LEMMA Moved ==
  ASSUME RowTypes, ProcTypes, RowTypes', Inv, NEW p \in Procs, Others(p), Booked,
         \A q \in Procs \ {p} : q \in fresh' => q \in fresh /\ (row'.known => row.known),
         RowInv', ProcInv(p)'
  PROVE  Inv'
<1>1. ASSUME NEW q \in Procs, q # p PROVE ProcInv(q)'
  <2>1. proc'[q] = proc[q]
    BY <1>1 DEF Others
  <2>2. ProcInv(q)
    BY DEF Inv
  <2>3. proc[q].answer.left \in Int
    BY LocalFields DEF ProcTypes
  <2>4. proc'[q].answer.win = "now"
          => proc'[q].answer.left + unsent' <= credit' + unreserved' + reserved'
    BY <2>1, <2>2, <2>3, ClaimStays DEF ProcInv
  <2>5. (At(q, "ask")' /\ Probes(q)') \/ At(q, "complete")' => q \notin fresh' \/ ~row'.known
    BY <1>1, <2>1, <2>2 DEF ProcInv, At, Probes
  <2> QED
    BY <2>1, <2>2, <2>4, <2>5 DEF ProcInv
<1> QED
  BY <1>1 DEF Inv

\* A consumer that does not ask and has no more to say than before.
Harmless(p) ==
  /\ proc'[p].pc \notin {"ask", "complete"}
  /\ proc'[p].rsv \in {"none", proc[p].rsv}
  /\ proc'[p].answer \in {NoAnswer, proc[p].answer}

LEMMA HarmlessInv ==
  ASSUME RowTypes, ProcTypes, RowTypes', Inv, NEW p \in Procs, Harmless(p), Booked
  PROVE  ProcInv(p)'
<1>1. ProcInv(p) /\ proc[p].answer.left \in Int
  BY LocalFields DEF Inv, ProcTypes
<1>2. /\ proc'[p].rsv # "next" /\ proc'[p].answer.win # "next"
      /\ proc'[p].answer # NoAnswer => proc'[p].answer.win # "none"
  BY <1>1 DEF ProcInv, Harmless, NoAnswer
<1>3. proc'[p].answer.win = "now" => proc'[p].answer = proc[p].answer
  BY DEF Harmless, NoAnswer
<1>4. ~At(p, "ask")' /\ ~At(p, "complete")'
  BY DEF Harmless, At
<1>5. proc'[p].answer.win = "now"
        => proc'[p].answer.left + unsent' <= credit' + unreserved' + reserved'
  BY <1>1, <1>3, ClaimStays DEF ProcInv
<1> QED
  BY <1>2, <1>4, <1>5 DEF ProcInv

\* A step that leaves the row alone.
LEMMA Quiet ==
  ASSUME RowTypes, ProcTypes, RowTypes', Inv, NEW p \in Procs, Others(p), Harmless(p),
         row' = row, credit' = credit, unreserved' = unreserved, unsent' <= unsent,
         reserved' = reserved, forgotten' = forgotten, fresh' \subseteq fresh \cup {p}
  PROVE  Inv'
<1> DEFINE n == unsent'
<1>1. n \in Int /\ n <= unsent
  BY DEF RowTypes
<1>2. Current' <=> Current
  BY DEF Current
<1>3. RowInv
  BY DEF Inv
<1>4. n <= reserved
  <2> HIDE DEF n
  <2> QED
    BY <1>1, <1>3, Numbers DEF RowInv
<1>5. row.known /\ row.resets = "now" => row.left + n <= credit + unreserved + forgotten
  <2> HIDE DEF n
  <2> QED
    BY <1>1, <1>3, Numbers DEF RowInv, NeverOverstated
<1>6. RowInv'
  BY <1>2, <1>3, <1>4, <1>5 DEF RowInv, NeverOverstated
<1>7. n + credit + unreserved + reserved <= unsent + credit + unreserved + reserved
  <2> HIDE DEF n
  <2> QED
    BY <1>1, Numbers
<1>8. Booked
  BY <1>7 DEF Booked
<1> QED
  BY <1>6, <1>8, HarmlessInv, Moved

\* A step that writes the row and spends nothing.
LEMMA Written ==
  ASSUME RowTypes, ProcTypes, RowTypes', Inv, NEW p \in Procs, Others(p), Harmless(p),
         fresh' = {}, UNCHANGED <<credit, unsent, unreserved, reserved>>, RowInv'
  PROVE  Inv'
<1>1. Booked
  BY Numbers DEF Booked
<1> QED
  BY <1>1, HarmlessInv, Moved

-----------------------------------------------------------------------------
(* The steps, one by one *)

LEMMA StopMoves ==
  ASSUME ProcTypes, NEW p \in Procs, Stop(p)
  PROVE  Others(p) /\ Harmless(p)
BY DEF Stop, Others, Harmless, Idle, ProcTypes

LEMMA GotoMoves ==
  ASSUME ProcTypes, NEW p \in Procs, NEW pc \in PC \ {"ask", "complete"}, Goto(p, pc)
  PROVE  Others(p) /\ Harmless(p)
<1>1. proc[p] \in Local
  BY DEF ProcTypes
<1>2. Others(p)
  BY DEF Goto, Others, ProcTypes
<1>3. proc'[p] = [proc[p] EXCEPT !.pc = pc]
  BY DEF Goto, ProcTypes
<1> QED
  BY <1>1, <1>2, <1>3 DEF Harmless, Local

LEMMA FailMoves ==
  ASSUME ProcTypes, NEW p \in Procs, NEW why \in Why, FailWith(p, why)
  PROVE  Others(p) /\ Harmless(p) /\ proc'[p].pc = "failing"
<1>1. proc[p] \in Local
  BY DEF ProcTypes
<1>2. Others(p)
  BY DEF FailWith, Others, ProcTypes
<1>3. proc'[p] = [proc[p] EXCEPT !.pc = "failing", !.why = why]
  BY DEF FailWith, ProcTypes
<1> QED
  BY <1>1, <1>2, <1>3 DEF Harmless, Local

LEMMA TurnedMoves ==
  ASSUME ProcTypes, NEW p \in Procs, Turned(p)
  PROVE  Others(p) /\ Harmless(p)
BY StopMoves, GotoMoves DEF Turned, PC

LEMMA QuietSteps ==
  ASSUME RowTypes, ProcTypes, RowTypes', Inv, NEW p \in Procs,
         \/ \E cost \in {1, 2} : Start(p, cost)
         \/ LandingMisconfigured(p) \/ LandingLook(p) \/ ClosingLook(p) \/ PollWinner(p)
         \/ NotSent(p) \/ Crash(p)
  PROVE  Inv'
<1>1. proc[p] \in Local /\ unsent \in Int
  BY DEF ProcTypes, RowTypes
<1>2. CASE \E cost \in {1, 2} : Start(p, cost)
  <2>1. Others(p) /\ Harmless(p)
    BY <1>2 DEF Start, Others, Harmless, Idle, ProcTypes
  <2> QED
    BY <1>1, <1>2, <2>1, Quiet DEF Start, ledger
<1>3. CASE LandingMisconfigured(p)
  <2>1. Others(p) /\ Harmless(p)
    BY <1>3 DEF LandingMisconfigured, Others, Harmless, Idle, ProcTypes
  <2> QED
    BY <1>1, <1>3, <2>1, Quiet DEF LandingMisconfigured, ledger
<1>4. CASE LandingLook(p)
  <2>1. ASSUME proc' = [proc EXCEPT ![p] = [@ EXCEPT !.pc = "reserve", !.at = "now",
                                                     !.again = At(p, "reread")]]
        PROVE  Others(p) /\ Harmless(p)
    BY <1>1, <2>1 DEF Others, Harmless, ProcTypes, Local
  <2>2. Others(p) /\ Harmless(p)
    BY <1>4, <2>1, StopMoves, GotoMoves DEF LandingLook, PC
  <2> QED
    BY <1>1, <1>4, <2>2, Quiet DEF LandingLook, ledger
<1>5. CASE ClosingLook(p)
  <2>1. ASSUME proc' = [proc EXCEPT ![p] = [@ EXCEPT !.pc = "reserve", !.at = "now"]]
        PROVE  Others(p) /\ Harmless(p)
    BY <1>1, <2>1 DEF Others, Harmless, ProcTypes, Local
  <2>2. Others(p) /\ Harmless(p)
    BY <1>5, <2>1, StopMoves DEF ClosingLook
  <2> QED
    BY <1>1, <1>5, <2>2, Quiet DEF ClosingLook, ledger
<1>6. CASE PollWinner(p)
  <2>1. Others(p) /\ Harmless(p)
    BY <1>1, <1>6 DEF PollWinner, Others, Harmless, ProcTypes, Local
  <2> QED
    BY <1>1, <1>6, <2>1, Quiet DEF PollWinner, ledger
<1>7. CASE NotSent(p)
  <2>1. ASSUME proc' = [proc EXCEPT ![p] = [@ EXCEPT !.pc = "recover", !.rsv = "none"]]
        PROVE  Others(p) /\ Harmless(p)
    BY <1>1, <2>1 DEF Others, Harmless, ProcTypes, Local
  <2>2. Others(p) /\ Harmless(p)
    BY <1>7, <2>1, StopMoves, FailMoves DEF NotSent, Why
  <2> QED
    BY <1>1, <1>7, <2>2, Quiet, ReleasedType DEF NotSent, totals
<1>8. CASE Crash(p)
  <2>1. unsent' <= unsent
    BY <1>1, <1>8, ReleasedType DEF Crash
  <2> QED
    BY <1>8, <2>1, StopMoves, Quiet DEF Crash, totals
<1> QED
  BY <1>2, <1>3, <1>4, <1>5, <1>6, <1>7, <1>8

LEMMA ResetSteps ==
  ASSUME RowTypes, ProcTypes, RowTypes', Inv, NEW p \in Procs, Others(p), Harmless(p),
         Write(WindowReset), row.resets = "past", UNCHANGED <<credit, ledger>>
  PROVE  Inv'
<1>1. row' = WindowReset /\ fresh' = {} /\ UNCHANGED <<credit, unsent, unreserved, reserved, forgotten>>
  BY DEF Write, ledger
<1>2. ~Current /\ ~Current' /\ ~row'.known /\ row'.resets = "none"
  BY <1>1 DEF Current, WindowReset, RowTypes, Health
<1>3. RowInv'
  BY <1>1, <1>2 DEF Inv, RowInv, NeverOverstated
<1> QED
  BY <1>1, <1>3, Written

LEMMA ResetsOf ==
  ASSUME RowTypes, ProcTypes, RowTypes', Inv, NEW p \in Procs,
         ReserveExpired(p) \/ ResetBeforeProbe(p)
  PROVE  Inv'
<1>1. CASE ReserveExpired(p)
  BY <1>1, TurnedMoves, ResetSteps DEF ReserveExpired, MaybeExpired
<1>2. CASE ResetBeforeProbe(p)
  <2>1. Others(p) /\ Harmless(p)
    BY <1>2 DEF ResetBeforeProbe, Others, Harmless, At
  <2> QED
    BY <1>2, <2>1, ResetSteps DEF ResetBeforeProbe
<1> QED
  BY <1>1, <1>2

\* Taking from the balance moves from the row to the books.
LEMMA TakeStep ==
  ASSUME RowTypes, ProcTypes, RowTypes', Inv, NEW p \in Procs, NEW c \in {1, 2},
         row.known, row.left >= c, Take(p, c), UNCHANGED <<credit, unreserved, forgotten>>
  PROVE  Inv'
<1>1. proc[p] \in Local /\ RowInv /\ ProcInv(p)
  BY DEF ProcTypes, Inv
<1>2. row.resets \in {"past", "now"}
  BY <1>1, Numbers DEF RowInv, When
<1>3. row' = [row EXCEPT !.left = @ - c] /\ fresh' = {}
  BY DEF Take, Write
<1>4. row'.left = row.left - c /\ row'.resets = row.resets /\ row'.known = row.known
  BY <1>3 DEF RowTypes, Health
<1>5. Current' <=> Current
  BY <1>4 DEF Current
<1>6. \/ row.resets = "now" /\ unsent' = unsent + c /\ reserved' = reserved + c
      \/ row.resets = "past" /\ unsent' = unsent /\ reserved' = reserved
  BY <1>2 DEF Take
<1>7. unsent' <= reserved' /\ Booked
  BY <1>1, <1>6, Numbers DEF RowInv, Booked
<1>8. NeverOverstated'
  BY <1>1, <1>4, <1>6, Numbers DEF RowInv, NeverOverstated
<1>9. ~Current' => reserved' = forgotten'
  BY <1>1, <1>5, <1>6 DEF RowInv, Current
<1>10. RowInv'
  BY <1>2, <1>4, <1>7, <1>8, <1>9 DEF RowInv
<1>11. Others(p) /\ proc'[p].pc = "ask" /\ proc'[p].rsv = row.resets
       /\ proc'[p].answer = proc[p].answer
  BY <1>1 DEF Take, Others, ProcTypes, Local
<1>12. ProcInv(p)'
  <2>1. proc[p].answer.left \in Int
    BY LocalFields DEF ProcTypes
  <2>2. proc'[p].answer.win = "now"
          => proc'[p].answer.left + unsent' <= credit' + unreserved' + reserved'
    BY <1>1, <1>7, <1>11, <2>1, ClaimStays DEF ProcInv
  <2> QED
    BY <1>1, <1>2, <1>3, <1>11, <2>2 DEF ProcInv, At, Probes
<1> QED
  BY <1>3, <1>7, <1>10, <1>11, <1>12, Moved

LEMMA ReserveStep ==
  ASSUME RowTypes, ProcTypes, RowTypes', Inv, NEW p \in Procs, NEW reserve \in Nat,
         Reserve(p, reserve)
  PROVE  Inv'
<1>1. CASE ~Reservable(p, reserve)
  BY <1>1, TurnedMoves, Quiet DEF Reserve, KeepRow, RowTypes
<1>2. CASE Reservable(p, reserve)
  <2>1. proc[p].cost \in {1, 2}
    BY LocalFields DEF ProcTypes
  <2>2. row.known /\ row.left >= proc[p].cost
    BY <1>2, <2>1, Numbers DEF Reservable
  <2>3. Take(p, proc[p].cost) /\ UNCHANGED <<credit, unreserved, forgotten>>
    BY <1>2 DEF Reserve
  <2> QED
    BY <2>1, <2>2, <2>3, TakeStep
<1> QED
  BY <1>1, <1>2

\* A consumer is elected to ask while the balance is unknown.
LEMMA ElectStep ==
  ASSUME RowTypes, ProcTypes, RowTypes', Inv, NEW p \in Procs, Others(p),
         row' = [row EXCEPT !.probe = "live"], fresh' \subseteq {p}, ~row.known,
         UNCHANGED <<credit, unsent, unreserved, reserved, forgotten>>,
         proc'[p].pc = "ask", proc'[p].rsv \in {"none", proc[p].rsv},
         proc'[p].answer = proc[p].answer
  PROVE  Inv'
<1>1. row'.known = row.known /\ row'.resets = row.resets /\ row'.left = row.left
  BY DEF RowTypes, Health
<1>2. RowInv'
  BY <1>1 DEF Inv, RowInv, NeverOverstated, Current
<1>3. Booked
  BY Numbers DEF Booked
<1>4. ProcInv(p)'
  <2>1. ProcInv(p)
    BY DEF Inv
  <2> QED
    BY <1>1, <2>1 DEF ProcInv, At, Probes
<1> QED
  BY <1>2, <1>3, <1>4, Moved

LEMMA ClaimStep ==
  ASSUME RowTypes, ProcTypes, RowTypes', Inv, NEW p \in Procs, ClaimProbe(p)
  PROVE  Inv'
<1>1. row' = [row EXCEPT !.probe = "live"] /\ fresh' = {p} /\ ~row.known
      /\ UNCHANGED <<credit, unsent, unreserved, reserved, forgotten>>
  BY DEF ClaimProbe, ProbeFree, ledger
<1>2. Others(p) /\ proc'[p].pc = "ask" /\ proc'[p].rsv = "none"
      /\ proc'[p].answer = proc[p].answer
  BY DEF ClaimProbe, Others, ProcTypes, Local
<1> QED
  BY <1>1, <1>2, ElectStep

LEMMA CompleteStep ==
  ASSUME RowTypes, ProcTypes, RowTypes', Inv, NEW p \in Procs, CompleteProbe(p)
  PROVE  Inv'
<1> DEFINE a == proc[p].answer
<1>1. ProcInv(p) /\ RowInv /\ At(p, "complete")
  BY DEF Inv, CompleteProbe
<1>2. Others(p) /\ Harmless(p)
  BY DEF CompleteProbe, Others, Harmless, Idle, ProcTypes
<1>3. UNCHANGED <<credit, unsent, unreserved, reserved, forgotten>>
  BY DEF CompleteProbe, ledger
<1>4. CASE KeepRow
  BY <1>2, <1>3, <1>4, Quiet DEF KeepRow, RowTypes
<1>5. CASE a # NoAnswer /\ p \in fresh /\ fresh' = {} /\ row'.known /\ row'.left = a.left
           /\ row'.resets = a.win
  <2>1. ~row.known
    BY <1>1, <1>5 DEF ProcInv
  <2>2. reserved = forgotten
    BY <1>1, <2>1 DEF RowInv, Current
  <2>3. a.win \notin {"none", "next"}
    BY <1>1, <1>5 DEF ProcInv
  <2>4. a.win = "now" => a.left + unsent <= credit + unreserved + forgotten
    BY <1>1, <2>2 DEF ProcInv
  <2> HIDE DEF a
  <2>5. RowInv'
    BY <1>1, <1>3, <1>5, <2>2, <2>3, <2>4 DEF RowInv, NeverOverstated
  <2> QED
    BY <1>2, <1>3, <1>5, <2>5, Written
<1> QED
  BY <1>4, <1>5 DEF CompleteProbe, Write, Completable

LEMMA ReconcileStep ==
  ASSUME RowTypes, ProcTypes, RowTypes', Inv, NEW p \in Procs, Reconcile(p)
  PROVE  Inv'
<1> DEFINE a == proc[p].answer
<1>1. ProcInv(p) /\ RowInv
  BY DEF Inv
<1>2. Others(p) /\ Harmless(p)
  BY StopMoves DEF Reconcile
<1>3. UNCHANGED <<credit, unsent, unreserved, reserved, forgotten>> /\ fresh' = {}
  BY DEF Reconcile, ledger, Write
<1>4. a.left \in Int /\ a.win \in When
  BY LocalFields DEF ProcTypes
<1>5. CASE row' = row
  <2>1. RowInv'
    BY <1>1, <1>3, <1>5 DEF RowInv, NeverOverstated, Current
  <2> QED
    BY <1>2, <1>3, <2>1, Written
<1>6. CASE a # NoAnswer /\ ~Stale(a)
           /\ row' = [row EXCEPT !.known = TRUE, !.resets = a.win,
                                 !.left = IF row.known /\ row.left < a.left THEN @ ELSE a.left]
  <2>1. row'.known /\ row'.resets = a.win
        /\ row'.left = IF row.known /\ row.left < a.left THEN row.left ELSE a.left
    BY <1>6 DEF RowTypes, Health
  <2>2. a.win \in {"past", "now"}
    BY <1>1, <1>4, <1>6 DEF ProcInv, When
  <2>3. row.resets # "next"
    BY <1>6, <2>2 DEF Stale, Rank, When
  <2>4. row.resets = "now" => a.win = "now"
    BY <1>6, <2>2 DEF Stale, Rank, When
  <2>5. Current => Current' /\ row.resets = "now" /\ row.known /\ row'.resets = "now"
    BY <2>1, <2>3, <2>4 DEF Current
  <2>6. ~Current => reserved = forgotten
                    /\ (a.win = "now" => a.left + unsent <= credit + unreserved + forgotten)
    BY <1>1 DEF RowInv, ProcInv
  <2> HIDE DEF a
  <2>7. NeverOverstated'
    <3>1. CASE Current
      BY <1>1, <1>3, <1>4, <2>1, <2>5, <3>1, Numbers DEF RowInv, NeverOverstated
    <3>2. CASE ~Current /\ a.win = "now"
      <4>1. row'.left <= a.left /\ row'.left \in Int
        BY <1>4, <2>1, Numbers
      <4> QED
        BY <1>3, <1>4, <2>6, <3>2, <4>1, Numbers DEF NeverOverstated
    <3> QED
      BY <2>1, <3>1, <3>2 DEF NeverOverstated
  <2>8. RowInv'
    BY <1>1, <1>3, <2>1, <2>2, <2>5, <2>6, <2>7 DEF RowInv
  <2> QED
    BY <1>2, <1>3, <2>8, Written
<1> QED
  BY <1>5, <1>6 DEF Reconcile, Reconciled, Write

\* A verdict leaves the balance alone.
LEMMA VerdictStep ==
  ASSUME RowTypes, ProcTypes, RowTypes', Inv, NEW p \in Procs, Others(p), Harmless(p),
         fresh' = {}, UNCHANGED <<credit, unsent, unreserved, reserved, forgotten>>,
         row'.known = row.known, row'.left = row.left, row'.resets = row.resets
  PROVE  Inv'
<1>1. RowInv'
  BY DEF Inv, RowInv, NeverOverstated, Current
<1> QED
  BY <1>1, Written

LEMMA VerdictSteps ==
  ASSUME RowTypes, ProcTypes, RowTypes', Inv, NEW p \in Procs, Block(p) \/ Terminate(p)
  PROVE  Inv'
<1>1. Others(p) /\ Harmless(p)
  BY StopMoves DEF Block, Terminate
<1>2. UNCHANGED <<credit, unsent, unreserved, reserved, forgotten>>
  BY DEF Block, Terminate, ledger
<1>3. RowInv
  BY DEF Inv
<1>4. CASE KeepRow
  BY <1>1, <1>2, <1>4, Quiet DEF KeepRow, RowTypes
<1>5. ASSUME NEW until \in When \ {"none"}, Write(Blocked(until)) PROVE Inv'
  <2>1. fresh' = {} /\ row'.known /\ row'.left = 0 /\ row'.resets = Later(row.resets, until)
    BY <1>5 DEF Write, Blocked, RowTypes, Health
  <2>2. row'.resets # "none"
    BY <1>5, <2>1, Numbers DEF Later, Rank, When
  <2>3. Current => Current'
    BY <1>5, <2>1, Numbers DEF Current, Later, Rank, When
  <2>4. row.resets = "next" => row'.resets = "next"
    BY <1>5, <2>1, Numbers DEF Later, Rank, When
  <2>5. NeverOverstated'
    <3>1. CASE ~Current
      BY <1>2, <1>3, <2>1, <3>1, Numbers DEF RowInv, NeverOverstated
    <3>2. CASE Current /\ row.resets = "now"
      BY <1>2, <1>3, <2>1, <3>2, Numbers DEF RowInv, NeverOverstated, Current
    <3> QED
      BY <2>4, <3>1, <3>2 DEF Current, NeverOverstated
  <2>6. RowInv'
    BY <1>2, <1>3, <2>1, <2>2, <2>3, <2>5 DEF RowInv
  <2> QED
    BY <1>1, <1>2, <2>1, <2>6, Written
<1>6. CASE Write([row EXCEPT !.health = "terminal", !.retry = "none"])
  <2>1. fresh' = {} /\ row'.known = row.known /\ row'.left = row.left
        /\ row'.resets = row.resets
    BY <1>6 DEF Write, RowTypes, Health
  <2> QED
    BY <1>1, <1>2, <2>1, VerdictStep
<1> QED
  BY <1>4, <1>5, <1>6, PauseType DEF Block, Terminate

\* A collector's answer replaces a balance that others may have reserved from:
\* that is what the row forgets.
LEMMA OverwriteStep ==
  ASSUME RowTypes, ProcTypes, RowTypes', Inv, NEW p \in Procs, PublishPut(p)
  PROVE  Inv'
<1> DEFINE a == proc[p].answer
<1>1. ProcInv(p) /\ RowInv
  BY DEF Inv
<1>2. Others(p) /\ Harmless(p)
  BY StopMoves, FailMoves DEF PublishPut, Why
<1>3. UNCHANGED <<credit, unsent, unreserved, reserved>>
  BY DEF PublishPut
<1>4. CASE KeepRow /\ UNCHANGED forgotten
  BY <1>2, <1>3, <1>4, Quiet DEF KeepRow, RowTypes
<1>5. CASE a = NoAnswer /\ Write(Healthy(a)) /\ UNCHANGED forgotten
  <2>1. fresh' = {} /\ row'.known = row.known /\ row'.left = row.left
        /\ row'.resets = row.resets
    BY <1>5 DEF Write, Healthy, RowTypes, Health
  <2> QED
    BY <1>2, <1>3, <1>5, <2>1, VerdictStep
<1>6. CASE a # NoAnswer /\ Write(Healthy(a)) /\ forgotten' = reserved
  <2>1. fresh' = {} /\ row'.known /\ row'.left = a.left /\ row'.resets = a.win
    BY <1>6 DEF Write, Healthy
  <2>2. a.win \notin {"none", "next"}
    BY <1>1, <1>6 DEF ProcInv
  <2>3. a.win = "now" => a.left + unsent <= credit + unreserved + reserved
    BY <1>1 DEF ProcInv
  <2> HIDE DEF a
  <2>4. RowInv'
    BY <1>1, <1>3, <1>6, <2>1, <2>2, <2>3 DEF RowInv, NeverOverstated
  <2> QED
    BY <1>2, <1>3, <2>1, <2>4, Written
<1> QED
  BY <1>4, <1>5, <1>6 DEF PublishPut

LEMMA CollectorSteps ==
  ASSUME RowTypes, ProcTypes, RowTypes', Inv, NEW p \in Procs, CollectorStep(p)
  PROVE  Inv'
<1>1. proc[p] \in Local
  BY DEF ProcTypes
<1>2. CASE CollectorLook(p)
  <2>1. CASE row.resets = "past"
    <3>1. Others(p) /\ Harmless(p)
      BY <1>2, <2>1 DEF CollectorLook, Others, Harmless, At
    <3> QED
      BY <1>2, <2>1, <3>1, ResetSteps DEF CollectorLook
  <2>2. CASE row.resets # "past"
    <3>1. Others(p) /\ Harmless(p)
      BY <1>2, <2>2 DEF CollectorLook, Others, Harmless, Idle, ProcTypes
    <3> QED
      BY <1>2, <2>2, <3>1, Quiet, Numbers DEF CollectorLook, ledger
  <2> QED
    BY <2>1, <2>2
<1>3. CASE CollectorTake(p)
  <2>1. CASE Takeable(p) /\ proc[p].known /\ Take(p, 1)
    <3>1. row.known /\ row.left >= 1
      BY <2>1, Numbers, ReserveAssumption DEF Takeable
    <3> QED
      BY <1>3, <2>1, <3>1, TakeStep DEF CollectorTake
  <2>2. CASE ~Takeable(p) /\ FailWith(p, "lost") /\ KeepRow /\ UNCHANGED <<unsent, reserved>>
    BY <1>3, <2>2, FailMoves, Quiet, Numbers DEF CollectorTake, KeepRow, Why
  <2>3. CASE /\ Takeable(p) /\ ~proc[p].known
             /\ Write([row EXCEPT !.probe = "live"])
             /\ proc' = [proc EXCEPT ![p] = [@ EXCEPT !.pc = "ask", !.at = "now"]]
             /\ UNCHANGED <<unsent, reserved>>
    <3>1. row' = [row EXCEPT !.probe = "live"] /\ fresh' = {} /\ ~row.known
      BY <2>3 DEF Takeable, Write
    <3>2. Others(p) /\ proc'[p].pc = "ask" /\ proc'[p].rsv = proc[p].rsv
          /\ proc'[p].answer = proc[p].answer
      BY <1>1, <2>3 DEF Others, ProcTypes, Local
    <3> QED
      BY <1>3, <2>3, <3>1, <3>2, ElectStep DEF CollectorTake
  <2> QED
    BY <1>3, <2>1, <2>2, <2>3 DEF CollectorTake
<1>4. CASE PublishLook(p) \/ FailLook(p)
  <2>1. Others(p) /\ Harmless(p)
    BY <1>4, GotoMoves DEF PublishLook, FailLook, PC
  <2> QED
    BY <1>4, <2>1, Quiet, Numbers DEF PublishLook, FailLook, ledger
<1>5. CASE FailPut(p)
  <2>1. UNCHANGED <<credit, unsent, unreserved, reserved, forgotten>>
    BY <1>5 DEF FailPut, ledger
  <2>2. Others(p) /\ Harmless(p)
    BY <1>5, StopMoves DEF FailPut
  <2>3. CASE KeepRow
    BY <2>1, <2>2, <2>3, Quiet, Numbers DEF KeepRow
  <2>4. ASSUME NEW until, Write(Unhealthy(proc[p].why, until)) PROVE Inv'
    <3>1. fresh' = {} /\ row'.known = row.known /\ row'.left = row.left
          /\ row'.resets = row.resets
      BY <2>4 DEF Write, Unhealthy, RowTypes, Health
    <3> QED
      BY <2>1, <2>2, <3>1, VerdictStep
  <2> QED
    BY <1>5, <2>3, <2>4 DEF FailPut
<1> QED
  BY <1>2, <1>3, <1>4, <1>5, OverwriteStep DEF CollectorStep

\* What an asked consumer holds afterwards.
Heard(p) ==
  /\ Others(p)
  /\ proc'[p].pc # "ask" /\ (proc'[p].pc = "complete" => Probes(p))
  /\ proc'[p].rsv \in {"none", proc[p].rsv}
  /\ proc'[p].answer \in {NoAnswer, proc[p].answer, [win |-> "now", left |-> credit']}

LEMMA HeardMoves ==
  ASSUME ProcTypes, NEW p \in Procs, ProviderAnswers(p) \/ ProviderLimits(p)
  PROVE  Heard(p)
<1>1. proc[p] \in Local
  BY DEF ProcTypes
<1>2. At(p, "ask")
  BY DEF ProviderAnswers, ProviderLimits
<1>3. ASSUME NEW a \in {NoAnswer, [win |-> "now", left |-> credit']},
             proc' = [proc EXCEPT ![p] = [@ EXCEPT !.pc = AfterAnswer(p), !.answer = a]]
      PROVE  Heard(p)
  <2>1. AfterAnswer(p) # "ask" /\ (AfterAnswer(p) = "complete" => Probes(p))
    BY DEF AfterAnswer
  <2>2. proc'[p].pc = AfterAnswer(p) /\ proc'[p].rsv = proc[p].rsv /\ proc'[p].answer = a
    BY <1>1, <1>3 DEF ProcTypes, Local
  <2>3. Others(p)
    BY <1>3 DEF Others, ProcTypes
  <2> QED
    BY <2>1, <2>2, <2>3 DEF Heard
<1>4. ASSUME Stop(p) \/ Goto(p, "refused") \/ \E why \in Why : FailWith(p, why) PROVE Heard(p)
  BY <1>4, StopMoves, GotoMoves, FailMoves DEF Heard, Harmless, PC
<1>5. CASE ProviderAnswers(p)
  BY <1>3, <1>4, <1>5 DEF ProviderAnswers, Why
<1>6. CASE ProviderLimits(p)
  <2> DEFINE pc == IF p \in Collectors THEN "failing" ELSE "limited"
  <2>1. proc' = [proc EXCEPT ![p] = [@ EXCEPT !.pc = pc, !.answer = [win |-> "now", left |-> 0],
                                              !.why = "limited"]] /\ credit' = 0
    BY <1>6 DEF ProviderLimits
  <2>2. Others(p)
    BY <2>1 DEF Others, ProcTypes
  <2>3. proc'[p].pc = pc /\ proc'[p].rsv = proc[p].rsv
        /\ proc'[p].answer = [win |-> "now", left |-> credit']
    BY <1>1, <2>1 DEF ProcTypes, Local
  <2> QED
    BY <2>2, <2>3 DEF Heard
<1> QED
  BY <1>5, <1>6

\* The books: what was reserved from this window leaves the ledger, the rest
\* is charged beside it.
LEMMA Books ==
  ASSUME RowTypes, ProcTypes, NEW p \in Procs,
         ProviderAnswers(p) \/ ProviderLimits(p)
  PROVE  /\ UNCHANGED <<reserved, forgotten>>
         /\ unsent' + credit + unreserved <= unsent + credit' + unreserved'
         /\ unsent' <= unsent
<1>1. proc[p].cost \in {1, 2} /\ credit \in Nat /\ unreserved \in Nat /\ unsent \in Int
  BY LocalFields, LimitAssumption DEF ProcTypes, RowTypes
<1>2. UNCHANGED <<reserved, forgotten>>
  BY DEF ProviderAnswers, ProviderLimits, totals
<1>3. CASE proc[p].rsv = "now"
  <2>1. Price(p) = proc[p].cost
    BY <1>3 DEF Price, Probes
  <2>2. unreserved' = unreserved /\ unsent' = unsent - proc[p].cost
    BY <1>1, <1>3 DEF ProviderAnswers, ProviderLimits, Released, Charged
  <2>3. credit' >= credit - proc[p].cost /\ credit' \in Int
    BY <1>1, <2>1 DEF ProviderAnswers, ProviderLimits
  <2> QED
    BY <1>1, <1>2, <2>2, <2>3
<1>4. CASE proc[p].rsv # "now"
  <2>1. Price(p) \in Nat
    BY <1>1 DEF Price
  <2> QED
    BY <1>1, <1>2, <1>4, <2>1 DEF ProviderAnswers, ProviderLimits, Released, Charged
<1> QED
  BY <1>3, <1>4

LEMMA AnswersStep ==
  ASSUME RowTypes, ProcTypes, RowTypes', Inv, NEW p \in Procs,
         ProviderAnswers(p) \/ ProviderLimits(p)
  PROVE  Inv'
<1> DEFINE c == credit'  u == unreserved'  n == unsent'
<1>1. c \in Int /\ u \in Int /\ u >= 0 /\ n \in Int
  BY LimitAssumption DEF RowTypes
<1>2. ProcInv(p) /\ RowInv /\ At(p, "ask")
  BY DEF Inv, ProviderAnswers, ProviderLimits
<1>3. UNCHANGED <<row, fresh>>
  BY DEF ProviderAnswers, ProviderLimits, KeepRow
<1>4. Current' <=> Current
  BY <1>3 DEF Current
<1>5. Heard(p)
  BY HeardMoves
<1>6. UNCHANGED <<reserved, forgotten>> /\ n + credit + unreserved <= unsent + c + u /\ n <= unsent
  BY Books
<1>7. n + credit + unreserved + reserved <= unsent + c + u + reserved /\ n <= reserved
  <2> HIDE DEF c, u, n
  <2> QED
    BY <1>1, <1>2, <1>6, Numbers DEF RowInv
<1>8. Booked
  BY <1>6, <1>7 DEF Booked
<1>9. NeverOverstated'
  <2> SUFFICES ASSUME row.known, row.resets = "now"
               PROVE  row.left + n <= c + u + forgotten
    BY <1>3, <1>6 DEF NeverOverstated
  <2>1. row.left + unsent <= credit + unreserved + forgotten
    BY <1>2 DEF RowInv, NeverOverstated
  <2> HIDE DEF c, u, n
  <2> QED
    BY <1>1, <1>6, <2>1, Numbers
<1>10. RowInv'
  BY <1>2, <1>3, <1>4, <1>6, <1>7, <1>9 DEF RowInv
<1>11. ProcInv(p)'
  <2>1. proc'[p].rsv # "next" /\ proc'[p].answer.win # "next"
        /\ (proc'[p].answer # NoAnswer => proc'[p].answer.win # "none")
    BY <1>2, <1>5 DEF Heard, ProcInv, NoAnswer
  <2>2. ~At(p, "ask")'
    BY <1>5 DEF Heard, At
  <2>3. proc'[p].answer.win = "now"
          => proc'[p].answer.left + unsent' <= credit' + unreserved' + reserved'
    <3>1. CASE proc'[p].answer = proc[p].answer
      <4>1. proc[p].answer.left \in Int
        BY LocalFields DEF ProcTypes
      <4> QED
        BY <1>2, <1>8, <3>1, <4>1, ClaimStays DEF ProcInv
    <3>2. CASE proc'[p].answer = [win |-> "now", left |-> credit']
      <4>1. proc'[p].answer.left = c
        BY <3>2
      <4>2. c + n <= c + u + reserved
        <5> HIDE DEF c, u, n
        <5> QED
          BY <1>1, <1>7, Numbers
      <4> QED
        BY <1>6, <4>1, <4>2
    <3>3. CASE proc'[p].answer = NoAnswer
      BY <3>3 DEF NoAnswer
    <3> QED
      BY <1>5, <3>1, <3>2, <3>3 DEF Heard
  <2>4. At(p, "complete")' => p \notin fresh' \/ ~row'.known
    BY <1>2, <1>3, <1>5 DEF Heard, ProcInv, At
  <2> QED
    BY <2>1, <2>2, <2>3, <2>4 DEF ProcInv
<1> QED
  BY <1>3, <1>5, <1>8, <1>10, <1>11, Moved DEF Heard

LEMMA NextWindowStep ==
  ASSUME RowTypes, ProcTypes, RowTypes', Inv, NextWindow
  PROVE  Inv'
<1>1. row \in Health /\ row.resets \in When /\ RowInv
  BY DEF RowTypes, Health, Inv
<1>2. row'.known = row.known /\ row'.left = row.left /\ row'.resets = Aged[row.resets]
      /\ unsent' = 0 /\ unreserved' = 0 /\ reserved' = 0 /\ forgotten' = 0 /\ credit' = Limit
  BY <1>1 DEF NextWindow, Health
<1>3. row'.resets # "next" /\ (row'.resets = "none" => row.resets = "none")
      /\ (row'.resets = "now" => row.resets = "next")
  BY <1>1, <1>2 DEF Aged, When
<1>4. RowInv'
  BY <1>1, <1>2, <1>3, LimitAssumption DEF RowInv, NeverOverstated
<1>5. ASSUME NEW p \in Procs PROVE ProcInv(p)'
  <2>1. proc[p] \in Local /\ ProcInv(p)
    BY DEF ProcTypes, Inv
  <2>2. proc[p].rsv \in When /\ proc[p].answer \in Answer /\ proc[p].answer.win \in When
    BY <2>1 DEF Local, Answer
  <2>3. proc'[p] = Older(proc[p]) /\ fresh' = fresh
    BY DEF NextWindow
  <2>4. proc'[p].pc = proc[p].pc /\ proc'[p].rsv = Aged[proc[p].rsv]
        /\ proc'[p].answer = [proc[p].answer EXCEPT !.win = Aged[@]]
    BY <2>1, <2>3 DEF Older, Local
  <2>5. proc'[p].answer.win = Aged[proc[p].answer.win]
        /\ (proc[p].answer = NoAnswer => proc'[p].answer = NoAnswer)
    BY <2>2, <2>4 DEF Answer, NoAnswer, Aged, When
  <2>6. proc'[p].rsv \notin {"now", "next"} /\ proc'[p].answer.win \notin {"now", "next"}
        /\ (proc'[p].rsv = "none" => proc[p].rsv = "none")
        /\ (proc'[p].answer.win = "none" => proc[p].answer.win = "none")
    BY <2>1, <2>2, <2>4, <2>5 DEF ProcInv, Aged, When
  <2> QED
    BY <1>2, <2>1, <2>3, <2>4, <2>5, <2>6 DEF ProcInv, At, Probes
<1> QED
  BY <1>4, <1>5 DEF Inv

LEMMA LapseStep ==
  ASSUME RowTypes, ProcTypes, RowTypes', Inv, ProbeLapses
  PROVE  Inv'
<1>1. row'.known = row.known /\ row'.left = row.left /\ row'.resets = row.resets
      /\ UNCHANGED <<fresh, proc, credit, unsent, unreserved, reserved, forgotten>>
  BY DEF ProbeLapses, ledger, RowTypes, Health
<1>2. RowInv'
  BY <1>1 DEF Inv, RowInv, NeverOverstated, Current
<1>3. ASSUME NEW p \in Procs PROVE ProcInv(p)'
  BY <1>1 DEF Inv, ProcInv, At, Probes
<1> QED
  BY <1>2, <1>3 DEF Inv

LEMMA InvStep ==
  ASSUME RowTypes, ProcTypes, RowTypes', Inv, [Next]_vars
  PROVE  Inv'
<1>1. ASSUME NEW p \in Landings, LandingStep(p) PROVE Inv'
  <2>1. p \in Procs /\ LandingReserve \in Nat
    BY ReserveAssumption DEF Procs
  <2> QED
    BY <1>1, <2>1, QuietSteps, ResetsOf, ReserveStep, ClaimStep, CompleteStep,
       ReconcileStep, VerdictSteps DEF LandingStep, LandingStart
<1>2. ASSUME NEW p \in Closings, ClosingStep(p) PROVE Inv'
  <2>1. p \in Procs /\ ClosingReserve \in Nat
    BY ReserveAssumption DEF Procs
  <2> QED
    BY <1>2, <2>1, QuietSteps, ResetsOf, ReserveStep, ReconcileStep, VerdictSteps
    DEF ClosingStep
<1>3. ASSUME NEW p \in Collectors, CollectorStep(p) PROVE Inv'
  BY <1>3, CollectorSteps DEF Procs
<1>4. ASSUME NEW p \in Procs, Request(p) \/ Fault(p) PROVE Inv'
  BY <1>4, AnswersStep, QuietSteps DEF Request, Fault
<1>5. CASE UNCHANGED vars
  <2>1. UNCHANGED <<row, fresh, proc, credit, unsent, unreserved, reserved, forgotten>>
    BY <1>5 DEF vars
  <2>2. RowInv'
    BY <2>1 DEF Inv, RowInv, NeverOverstated, Current
  <2>3. ASSUME NEW p \in Procs PROVE ProcInv(p)'
    BY <2>1 DEF Inv, ProcInv, At, Probes
  <2> QED
    BY <2>2, <2>3 DEF Inv
<1> QED
  BY <1>1, <1>2, <1>3, <1>4, <1>5, NextWindowStep, LapseStep DEF Next

\* The row never promises more than the provider has left for the window but for
\* what a collector's answer made it forget, for any number of landings, closing
\* captures and collectors, any limit and any reserves: a request may be lost,
\* late, refused, cut short or answered in the next window, and without a
\* collector's write nothing is forgotten.
THEOREM BalanceCorrect == Spec => []NeverOverstated
<1>1. Init => Inv
  <2> SUFFICES ASSUME Init PROVE Inv
    OBVIOUS
  <2>1. row.known /\ row.resets = "now" /\ row.left = credit /\ unsent = 0
        /\ unreserved = 0 /\ reserved = 0 /\ forgotten = 0 /\ credit \in Int
    BY LimitAssumption DEF Init
  <2>2. RowInv
    BY <2>1 DEF RowInv, NeverOverstated, Current
  <2>3. ASSUME NEW p \in Procs PROVE ProcInv(p)
    BY <2>1 DEF Init, ProcInv, Idle, NoAnswer, At, Probes
  <2> QED
    BY <2>2, <2>3 DEF Inv
<1>2. TypeOK /\ TypeOK' /\ Inv /\ [Next]_vars => Inv'
  <2>1. TypeOK' => RowTypes'
    BY DEF TypeOK, RowTypes
  <2> QED
    BY <2>1, TypesSplit, InvStep
<1>3. Inv => NeverOverstated
  BY DEF Inv, RowInv
<1> QED
  BY <1>1, <1>2, <1>3, TypeCorrect, PTL DEF Spec


-----------------------------------------------------------------------------
(* RefusalsStand.  One more fact is needed: while a probe's copy of the row *)
(* is current, the row has neither a pause nor a verdict, for both move the *)
(* version on.                                                              *)

Probing(p) == (At(p, "ask") /\ Probes(p)) \/ At(p, "complete")

Hold(p) == p \in fresh /\ Probing(p) => row.health # "terminal" /\ ~Ahead(row.retry)

HoldInv == \A p \in Procs : Hold(p)

LEMMA HoldMoved ==
  ASSUME HoldInv, NEW p \in Procs, Others(p), Hold(p)',
         \A q \in Procs \ {p} : q \in fresh' => q \in fresh /\ row' = row
  PROVE  HoldInv'
<1>1. ASSUME NEW q \in Procs, q # p PROVE Hold(q)'
  <2>1. proc'[q] = proc[q] /\ Hold(q)
    BY <1>1 DEF Others, HoldInv
  <2> QED
    BY <1>1, <2>1 DEF Hold, Probing, At, Probes
<1> QED
  BY <1>1 DEF HoldInv

\* A consumer that does not ask after its step.
LEMMA HoldMild ==
  ASSUME HoldInv, NEW p \in Procs, Others(p), Harmless(p),
         \A q \in Procs \ {p} : q \in fresh' => q \in fresh /\ row' = row
  PROVE  HoldInv'
<1>1. Hold(p)'
  BY DEF Harmless, Hold, Probing, At
<1> QED
  BY <1>1, HoldMoved

\* The steps that leave the row alone and send nothing.
LEMMA HoldQuietSteps ==
  ASSUME ProcTypes, HoldInv, NEW p \in Procs,
         \/ \E cost \in {1, 2} : Start(p, cost)
         \/ LandingMisconfigured(p) \/ LandingLook(p) \/ ClosingLook(p) \/ PollWinner(p)
         \/ PublishLook(p) \/ FailLook(p) \/ NotSent(p) \/ Crash(p)
  PROVE  HoldInv'
<1>1. proc[p] \in Local
  BY DEF ProcTypes
<1>2. row' = row /\ fresh' \subseteq fresh \cup {p}
  BY DEF Start, LandingMisconfigured, LandingLook, ClosingLook, PollWinner, PublishLook,
         FailLook, NotSent, Crash
<1>3. SUFFICES Others(p) /\ Harmless(p)
  BY <1>2, HoldMild
<1>4. CASE \E cost \in {1, 2} : Start(p, cost)
  BY <1>4 DEF Start, Others, Harmless, Idle, ProcTypes
<1>5. CASE LandingMisconfigured(p)
  BY <1>5 DEF LandingMisconfigured, Others, Harmless, Idle, ProcTypes
<1>6. CASE LandingLook(p)
  <2>1. ASSUME proc' = [proc EXCEPT ![p] = [@ EXCEPT !.pc = "reserve", !.at = "now",
                                                     !.again = At(p, "reread")]]
        PROVE  Others(p) /\ Harmless(p)
    BY <1>1, <2>1 DEF Others, Harmless, ProcTypes, Local
  <2> QED
    BY <1>6, <2>1, StopMoves, GotoMoves DEF LandingLook, PC
<1>7. CASE ClosingLook(p)
  <2>1. ASSUME proc' = [proc EXCEPT ![p] = [@ EXCEPT !.pc = "reserve", !.at = "now"]]
        PROVE  Others(p) /\ Harmless(p)
    BY <1>1, <2>1 DEF Others, Harmless, ProcTypes, Local
  <2> QED
    BY <1>7, <2>1, StopMoves DEF ClosingLook
<1>8. CASE PollWinner(p)
  BY <1>1, <1>8 DEF PollWinner, Others, Harmless, ProcTypes, Local
<1>9. CASE PublishLook(p) \/ FailLook(p)
  BY <1>9, GotoMoves DEF PublishLook, FailLook, PC
<1>10. CASE NotSent(p)
  <2>1. ASSUME proc' = [proc EXCEPT ![p] = [@ EXCEPT !.pc = "recover", !.rsv = "none"]]
        PROVE  Others(p) /\ Harmless(p)
    BY <1>1, <2>1 DEF Others, Harmless, ProcTypes, Local
  <2> QED
    BY <1>10, <2>1, StopMoves, FailMoves DEF NotSent, Why
<1>11. CASE Crash(p)
  BY <1>11, StopMoves DEF Crash
<1> QED
  BY <1>4, <1>5, <1>6, <1>7, <1>8, <1>9, <1>10, <1>11

\* The steps that write the row take its version from everyone.
LEMMA HoldWriteSteps ==
  ASSUME ProcTypes, HoldInv, NEW p \in Procs,
         \/ ReserveExpired(p) \/ ResetBeforeProbe(p)
         \/ CompleteProbe(p) \/ Reconcile(p) \/ Block(p) \/ Terminate(p)
         \/ CollectorLook(p) \/ PublishPut(p) \/ FailPut(p)
  PROVE  HoldInv'
<1>1. fresh' = {} \/ (fresh' \subseteq fresh \cup {p} /\ row' = row)
  BY DEF ReserveExpired, ResetBeforeProbe, CompleteProbe, Reconcile, Block, Terminate,
         CollectorLook, PublishPut, FailPut, Write, KeepRow
<1>2. ASSUME Harmless(p), Others(p) PROVE HoldInv'
  BY <1>1, <1>2, HoldMild
<1>3. CASE ReserveExpired(p)
  BY <1>2, <1>3, TurnedMoves DEF ReserveExpired
<1>4. CASE ResetBeforeProbe(p)
  BY <1>2, <1>4 DEF ResetBeforeProbe, Others, Harmless, At
<1>5. CASE CompleteProbe(p)
  BY <1>2, <1>5 DEF CompleteProbe, Others, Harmless, Idle, ProcTypes
<1>6. CASE Reconcile(p) \/ Block(p) \/ Terminate(p) \/ FailPut(p)
  BY <1>2, <1>6, StopMoves DEF Reconcile, Block, Terminate, FailPut
<1>7. CASE CollectorLook(p)
  <2>1. CASE UNCHANGED proc
    BY <1>2, <1>7, <2>1 DEF CollectorLook, Others, Harmless, At
  <2>2. CASE proc' = [proc EXCEPT ![p] = [Idle EXCEPT !.pc = "take", !.known = row.known]]
    BY <1>2, <2>2 DEF Others, Harmless, Idle, ProcTypes
  <2> QED
    BY <1>7, <2>1, <2>2 DEF CollectorLook
<1>8. CASE PublishPut(p)
  BY <1>2, <1>8, StopMoves, FailMoves DEF PublishPut, Why
<1> QED
  BY <1>3, <1>4, <1>5, <1>6, <1>7, <1>8

\* Nobody who has just taken from the balance, or was elected by a collector's
\* write, still has the row's version.
LEMMA HoldNobody ==
  ASSUME HoldInv, NEW p \in Procs, Others(p), fresh' = {}
  PROVE  HoldInv'
<1>1. Hold(p)'
  BY DEF Hold
<1> QED
  BY <1>1, HoldMoved

LEMMA HoldTakes ==
  ASSUME ProcTypes, HoldInv, NEW p \in Procs, NEW reserve \in Nat,
         Reserve(p, reserve) \/ CollectorTake(p)
  PROVE  HoldInv'
<1>1. proc[p] \in Local
  BY DEF ProcTypes
<1>2. ASSUME NEW cost, Take(p, cost) PROVE HoldInv'
  <2>1. Others(p) /\ fresh' = {}
    BY <1>2 DEF Take, Write, Others, ProcTypes
  <2> QED
    BY <2>1, HoldNobody
<1>3. CASE (Turned(p) \/ FailWith(p, "lost")) /\ KeepRow
  <2>1. Others(p) /\ Harmless(p)
    BY <1>3, TurnedMoves, FailMoves DEF Why
  <2> QED
    BY <1>3, <2>1, HoldMild DEF KeepRow
<1>4. CASE /\ Write([row EXCEPT !.probe = "live"])
           /\ proc' = [proc EXCEPT ![p] = [@ EXCEPT !.pc = "ask", !.at = "now"]]
  <2>1. Others(p) /\ fresh' = {}
    BY <1>4 DEF Write, Others, ProcTypes
  <2> QED
    BY <2>1, HoldNobody
<1> QED
  BY <1>2, <1>3, <1>4 DEF Reserve, CollectorTake

\* The elected probe sees neither a pause nor a verdict.
LEMMA HoldClaim ==
  ASSUME RowTypes, ProcTypes, HoldInv, NEW p \in Procs, ClaimProbe(p)
  PROVE  HoldInv'
<1>1. row' = [row EXCEPT !.probe = "live"] /\ fresh' = {p}
      /\ row.health # "terminal" /\ ~Ahead(row.retry)
  BY DEF ClaimProbe, ProbeFree
<1>2. row'.health = row.health /\ row'.retry = row.retry
  BY <1>1 DEF RowTypes, Health
<1>3. Others(p)
  BY DEF ClaimProbe, Others, ProcTypes
<1>4. Hold(p)'
  BY <1>1, <1>2 DEF Hold
<1> QED
  BY <1>1, <1>3, <1>4, HoldMoved

\* An answered probe was asking, under the version it still has.
LEMMA HoldAnswers ==
  ASSUME ProcTypes, HoldInv, NEW p \in Procs,
         ProviderAnswers(p) \/ ProviderLimits(p)
  PROVE  HoldInv'
<1>1. Hold(p) /\ At(p, "ask")
  BY DEF HoldInv, ProviderAnswers, ProviderLimits
<1>2. row' = row /\ fresh' = fresh
  BY DEF ProviderAnswers, ProviderLimits, KeepRow
<1>3. Heard(p)
  BY HeardMoves
<1>4. Probing(p)' => Probing(p)
  BY <1>1, <1>3 DEF Heard, Probing, At
<1>5. Hold(p)'
  BY <1>1, <1>2, <1>4 DEF Hold
<1> QED
  BY <1>2, <1>3, <1>5, HoldMoved DEF Heard

LEMMA HoldTime ==
  ASSUME RowTypes, ProcTypes, HoldInv, NextWindow \/ ProbeLapses
  PROVE  HoldInv'
<1>1. row.retry \in When /\ row \in Health
  BY DEF RowTypes, Health
<1>2. row'.health = row.health /\ (Ahead(row'.retry) => Ahead(row.retry)) /\ fresh' = fresh
  BY <1>1 DEF NextWindow, ProbeLapses, Health, Aged, Ahead, When
<1>3. ASSUME NEW p \in Procs PROVE Hold(p)'
  <2>1. Hold(p) /\ proc[p] \in Local
    BY DEF HoldInv, ProcTypes
  <2>2. proc[p].rsv \in When
    BY <2>1 DEF Local
  <2>3. proc'[p].pc = proc[p].pc /\ (proc'[p].rsv = "none" => proc[p].rsv = "none")
    <3>1. CASE NextWindow
      <4>1. proc'[p] = Older(proc[p])
        BY <3>1 DEF NextWindow
      <4>2. proc'[p].pc = proc[p].pc /\ proc'[p].rsv = Aged[proc[p].rsv]
        BY <2>1, <4>1 DEF Older, Local
      <4> QED
        BY <2>2, <4>2 DEF Aged, When
    <3>2. CASE ProbeLapses
      BY <3>2 DEF ProbeLapses
    <3> QED
      BY <3>1, <3>2
  <2> QED
    BY <1>2, <2>1, <2>3 DEF Hold, Probing, At, Probes
<1> QED
  BY <1>3 DEF HoldInv

LEMMA HoldStep ==
  ASSUME RowTypes, ProcTypes, HoldInv, [Next]_vars
  PROVE  HoldInv'
<1>1. ASSUME NEW p \in Landings, LandingStep(p) PROVE HoldInv'
  <2>1. p \in Procs /\ LandingReserve \in Nat
    BY ReserveAssumption DEF Procs
  <2> QED
    BY <1>1, <2>1, HoldQuietSteps, HoldWriteSteps, HoldTakes, HoldClaim
    DEF LandingStep, LandingStart
<1>2. ASSUME NEW p \in Closings, ClosingStep(p) PROVE HoldInv'
  <2>1. p \in Procs /\ ClosingReserve \in Nat
    BY ReserveAssumption DEF Procs
  <2> QED
    BY <1>2, <2>1, HoldQuietSteps, HoldWriteSteps, HoldTakes DEF ClosingStep
<1>3. ASSUME NEW p \in Collectors, CollectorStep(p) PROVE HoldInv'
  <2>1. p \in Procs /\ CollectorReserve \in Nat
    BY ReserveAssumption DEF Procs
  <2> QED
    BY <1>3, <2>1, HoldQuietSteps, HoldWriteSteps, HoldTakes DEF CollectorStep
<1>4. ASSUME NEW p \in Procs, Request(p) \/ Fault(p) PROVE HoldInv'
  BY <1>4, HoldAnswers, HoldQuietSteps DEF Request, Fault
<1>5. CASE UNCHANGED vars
  BY <1>5 DEF vars, HoldInv, Hold, Probing, At, Probes, Ahead
<1> QED
  BY <1>1, <1>2, <1>3, <1>4, <1>5, HoldTime DEF Next

-----------------------------------------------------------------------------
(* What a step may not do *)

KeepsSpent ==
  row.known /\ row'.known /\ row.resets = row'.resets /\ row.resets # "none"
    => \/ row'.left <= row.left
       \/ \E p \in Collectors : Overwrites(p) /\ row'.left = proc[p].answer.left
KeepsVerdict ==
  row.health = "terminal" /\ row'.health # "terminal"
    => \E p \in Collectors : Overwrites(p)
LiftsNothing ==
  \A p \in Landings :
    At(p, "complete") /\ ~At(p, "complete")'
      /\ (Ahead(row.retry) \/ row.health = "terminal") => row' = row
Stands == KeepsSpent /\ KeepsVerdict /\ LiftsNothing

LEMMA StandsKept ==
  ASSUME RowTypes, row' = row
  PROVE  Stands
<1>1. row.left \in Nat
  BY RowFields DEF RowTypes
<1> QED
  BY <1>1 DEF Stands, KeepsSpent, KeepsVerdict, LiftsNothing

\* A consumer that completes no probe.
LEMMA StandsBeside ==
  ASSUME NEW p \in Procs, Others(p), ~At(p, "complete"), KeepsSpent, KeepsVerdict
  PROVE  Stands
<1>1. ASSUME NEW q \in Landings, At(q, "complete") PROVE At(q, "complete")'
  <2>1. q \in Procs /\ q # p
    BY <1>1 DEF Procs
  <2> QED
    BY <1>1, <2>1 DEF Others, At
<1> QED
  BY <1>1 DEF Stands, LiftsNothing

\* The balance only goes down and the health stays.
LEMMA StandsSpending ==
  ASSUME RowTypes, NEW p \in Procs, Others(p), ~At(p, "complete"),
         row'.health = row.health, row'.left <= row.left \/ ~row'.known
  PROVE  Stands
<1>1. KeepsSpent /\ KeepsVerdict
  BY DEF KeepsSpent, KeepsVerdict
<1> QED
  BY <1>1, StandsBeside

LEMMA StandsTake ==
  ASSUME RowTypes, ProcTypes, NEW p \in Procs, NEW c \in {1, 2}, Take(p, c), ~At(p, "complete")
  PROVE  Stands
<1>1. row' = [row EXCEPT !.left = @ - c]
  BY DEF Take, Write
<1>2. row'.left = row.left - c /\ row'.health = row.health
  BY <1>1 DEF RowTypes, Health
<1>3. row'.left <= row.left
  BY <1>2, Numbers
<1>4. Others(p)
  BY DEF Take, Others, ProcTypes
<1> QED
  BY <1>2, <1>3, <1>4, StandsSpending

LEMMA StandsReserve ==
  ASSUME RowTypes, ProcTypes, NEW p \in Procs, NEW reserve \in Nat, Reserve(p, reserve)
  PROVE  Stands
<1>1. CASE ~Reservable(p, reserve)
  BY <1>1, StandsKept DEF Reserve, KeepRow
<1>2. CASE Reservable(p, reserve)
  <2>1. proc[p].cost \in {1, 2} /\ ~At(p, "complete")
    BY LocalFields DEF ProcTypes, Reserve, At
  <2> QED
    BY <1>2, <2>1, StandsTake DEF Reserve
<1> QED
  BY <1>1, <1>2

\* Resetting, electing, reconciling and recording a refusal.
LEMMA StandsWrites ==
  ASSUME RowTypes, ProcTypes, NEW p \in Procs,
         \/ ReserveExpired(p) \/ ResetBeforeProbe(p) \/ ClaimProbe(p)
         \/ Reconcile(p) \/ Terminate(p)
  PROVE  Stands
<1>1. row \in Health /\ row.left \in Int
  BY RowFields DEF RowTypes
<1>2. ~At(p, "complete")
  BY DEF ReserveExpired, ResetBeforeProbe, ClaimProbe, Reconcile, Terminate, At
<1>3. CASE ReserveExpired(p) \/ ResetBeforeProbe(p)
  <2>1. row' = WindowReset
    BY <1>3 DEF ReserveExpired, ResetBeforeProbe, Write
  <2>2. row'.health = row.health /\ ~row'.known
    BY <1>1, <2>1 DEF WindowReset, Health
  <2>3. Others(p)
    BY <1>3, TurnedMoves DEF ReserveExpired, ResetBeforeProbe, Others
  <2> QED
    BY <1>2, <2>2, <2>3, StandsSpending
<1>4. CASE ClaimProbe(p)
  <2>1. row'.health = row.health /\ row'.left = row.left
    BY <1>1, <1>4 DEF ClaimProbe, Health
  <2>2. Others(p)
    BY <1>4 DEF ClaimProbe, Others, ProcTypes
  <2> QED
    BY <1>1, <1>2, <2>1, <2>2, StandsSpending
<1>5. CASE Reconcile(p)
  <2> DEFINE a == proc[p].answer
  <2>1. a.left \in Int
    BY LocalFields DEF ProcTypes
  <2>2. CASE row' = row
    BY <2>2, StandsKept
  <2>3. CASE row' = [row EXCEPT !.known = TRUE, !.resets = a.win,
                                !.left = IF row.known /\ row.left < a.left THEN @ ELSE a.left]
    <3>1. row'.left = (IF row.known /\ row.left < a.left THEN row.left ELSE a.left)
          /\ row'.health = row.health
      BY <1>1, <2>3 DEF Health
    <3> HIDE DEF a
    <3>2. KeepsSpent /\ KeepsVerdict
      BY <1>1, <2>1, <3>1 DEF KeepsSpent, KeepsVerdict
    <3> QED
      BY <1>2, <1>5, <3>2, StopMoves, StandsBeside DEF Reconcile
  <2> QED
    BY <1>5, <2>2, <2>3 DEF Reconcile, Reconciled, Write
<1>6. CASE Terminate(p)
  <2>1. CASE KeepRow
    BY <2>1, StandsKept DEF KeepRow
  <2>2. CASE Write([row EXCEPT !.health = "terminal", !.retry = "none"])
    <3>1. row'.left = row.left /\ row'.health = "terminal"
      BY <1>1, <2>2 DEF Write, Health
    <3>2. KeepsSpent /\ KeepsVerdict
      BY <1>1, <3>1 DEF KeepsSpent, KeepsVerdict
    <3> QED
      BY <1>2, <1>6, <3>2, StopMoves, StandsBeside DEF Terminate
  <2> QED
    BY <1>6, <2>1, <2>2 DEF Terminate
<1> QED
  BY <1>3, <1>4, <1>5, <1>6

\* A probe that completes found the balance unknown and the account without a
\* pause or a verdict.
LEMMA StandsComplete ==
  ASSUME RowTypes, ProcTypes, Inv, HoldInv, NEW p \in Procs, CompleteProbe(p)
  PROVE  Stands
<1>1. CASE row' = row
  BY <1>1, StandsKept
<1>2. CASE p \in fresh
  <2>1. At(p, "complete") /\ ProcInv(p) /\ Hold(p)
    BY DEF CompleteProbe, Inv, HoldInv
  <2>2. ~row.known /\ row.health # "terminal" /\ ~Ahead(row.retry)
    BY <1>2, <2>1 DEF ProcInv, Hold, Probing
  <2> QED
    BY <2>2 DEF Stands, KeepsSpent, KeepsVerdict, LiftsNothing
<1> QED
  BY <1>1, <1>2 DEF CompleteProbe, Completable, KeepRow

LEMMA StandsBlock ==
  ASSUME RowTypes, ProcTypes, NEW p \in Procs, Block(p)
  PROVE  Stands
<1>1. CASE Final
  BY <1>1, StandsKept DEF Block, KeepRow
<1>2. CASE ~Final
  <2>1. PICK until \in PauseOf(p) : Write(Blocked(until))
    BY <1>2 DEF Block
  <2>2. row'.left = 0 /\ row.left \in Nat
    BY <2>1, RowFields DEF Write, Blocked, RowTypes, Health
  <2>3. KeepsSpent /\ KeepsVerdict
    BY <1>2, <2>2 DEF KeepsSpent, KeepsVerdict, Final
  <2>4. Others(p) /\ ~At(p, "complete")
    BY StopMoves DEF Block, At
  <2> QED
    BY <2>3, <2>4, StandsBeside
<1> QED
  BY <1>1, <1>2

\* Only over the row it has read does a collector give units back or lift a
\* verdict.
LEMMA StandsCollector ==
  ASSUME RowTypes, ProcTypes, NEW p \in Collectors, CollectorStep(p)
  PROVE  Stands
<1>1. p \in Procs /\ row \in Health /\ row.left \in Int /\ proc[p] \in Local
  BY Numbers DEF Procs, RowTypes, ProcTypes
<1>2. CASE row' = row
  BY <1>2, StandsKept
<1>3. CASE CollectorLook(p) /\ Write(WindowReset)
  <2>1. row'.health = row.health /\ ~row'.known
    BY <1>1, <1>3 DEF Write, WindowReset, Health
  <2>2. Others(p) /\ ~At(p, "complete")
    BY <1>3, <1>1 DEF CollectorLook, Others, At, ProcTypes
  <2> QED
    BY <1>1, <2>1, <2>2, StandsSpending
<1>4. CASE CollectorTake(p)
  <2>1. ~At(p, "complete")
    BY <1>4 DEF CollectorTake, At
  <2>2. CASE Take(p, 1)
    BY <1>1, <2>1, <2>2, StandsTake
  <2>3. CASE /\ Write([row EXCEPT !.probe = "live"])
             /\ proc' = [proc EXCEPT ![p] = [@ EXCEPT !.pc = "ask", !.at = "now"]]
    <3>1. row'.health = row.health /\ row'.left = row.left
      BY <1>1, <2>3 DEF Write, Health
    <3>2. Others(p)
      BY <2>3 DEF Others, ProcTypes
    <3> QED
      BY <1>1, <2>1, <3>1, <3>2, StandsSpending
  <2> QED
    BY <1>2, <1>4, <2>2, <2>3 DEF CollectorTake, KeepRow
<1>5. CASE PublishPut(p) /\ p \in fresh
  <2>1. Others(p) /\ proc'[p].pc \in {"idle", "failing"}
    <3>1. ASSUME Stop(p) PROVE Others(p) /\ proc'[p].pc = "idle"
      BY <1>1, <3>1, StopMoves DEF Stop, Idle, ProcTypes
    <3>2. ASSUME NEW why \in Why, FailWith(p, why) PROVE Others(p) /\ proc'[p].pc = "failing"
      BY <1>1, <3>2, FailMoves
    <3> QED
      BY <1>5, <3>1, <3>2 DEF PublishPut, Why
  <2>2. Overwrites(p) /\ ~At(p, "complete")
    BY <1>5, <2>1 DEF PublishPut, At, Overwrites
  <2>3. Write(Healthy(proc[p].answer))
    BY <1>5 DEF PublishPut
  <2>4. row'.left = proc[p].answer.left \/ row'.left = row.left
    BY <1>1, <2>3 DEF Write, Healthy, Health
  <2>5. KeepsSpent /\ KeepsVerdict
    BY <1>1, <2>2, <2>4 DEF KeepsSpent, KeepsVerdict
  <2> QED
    BY <1>1, <2>1, <2>2, <2>5, StandsBeside
<1>6. CASE FailPut(p) /\ p \in fresh
  <2>1. Others(p) /\ proc'[p].pc = "idle"
    BY <1>1, <1>6, StopMoves DEF FailPut, Stop, Idle, ProcTypes
  <2>2. Overwrites(p) /\ ~At(p, "complete")
    BY <1>6, <2>1 DEF FailPut, At, Overwrites
  <2>3. PICK until \in {"now", "next"} : Write(Unhealthy(proc[p].why, until))
    BY <1>6 DEF FailPut
  <2>4. row'.left = row.left
    BY <1>1, <2>3 DEF Write, Unhealthy, Health
  <2>5. KeepsSpent /\ KeepsVerdict
    BY <1>1, <2>2, <2>4 DEF KeepsSpent, KeepsVerdict
  <2> QED
    BY <1>1, <2>1, <2>2, <2>5, StandsBeside
<1> QED
  BY <1>2, <1>3, <1>4, <1>5, <1>6
  DEF CollectorStep, CollectorLook, PublishLook, PublishPut, FailLook, FailPut, KeepRow

\* Time moves no balance and ends nobody's step.
LEMMA StandsTime ==
  ASSUME RowTypes, ProcTypes, NextWindow \/ ProbeLapses
  PROVE  Stands
<1>1. row \in Health /\ row.left \in Nat
  BY RowFields DEF RowTypes
<1>2. row'.left = row.left /\ row'.health = row.health
  BY <1>1 DEF NextWindow, ProbeLapses, Health
<1>3. ASSUME NEW q \in Landings PROVE proc'[q].pc = proc[q].pc
  <2>1. q \in Procs /\ proc[q] \in Local
    BY DEF Procs, ProcTypes
  <2>2. CASE NextWindow
    <3>1. proc'[q] = Older(proc[q])
      BY <2>1, <2>2 DEF NextWindow
    <3> QED
      BY <2>1, <3>1 DEF Older, Local
  <2> QED
    BY <2>2 DEF ProbeLapses
<1>4. LiftsNothing
  BY <1>3 DEF LiftsNothing, At
<1> QED
  BY <1>1, <1>2, <1>4 DEF Stands, KeepsSpent, KeepsVerdict

LEMMA StandsStep ==
  ASSUME RowTypes, ProcTypes, Inv, HoldInv, [Next]_vars
  PROVE  Stands
<1>1. ASSUME row' = row PROVE Stands
  BY <1>1, StandsKept
<1>2. ASSUME NEW p \in Landings, LandingStep(p) PROVE Stands
  <2>1. p \in Procs /\ LandingReserve \in Nat
    BY ReserveAssumption DEF Procs
  <2>2. CASE LandingStart(p) \/ LandingMisconfigured(p) \/ LandingLook(p) \/ PollWinner(p)
    BY <1>1, <2>2 DEF LandingStart, Start, LandingMisconfigured, LandingLook, PollWinner
  <2> QED
    BY <1>2, <2>1, <2>2, StandsReserve, StandsWrites, StandsComplete, StandsBlock
    DEF LandingStep
<1>3. ASSUME NEW p \in Closings, ClosingStep(p) PROVE Stands
  <2>1. p \in Procs /\ ClosingReserve \in Nat
    BY ReserveAssumption DEF Procs
  <2>2. CASE Start(p, 1) \/ ClosingLook(p)
    BY <1>1, <2>2 DEF Start, ClosingLook
  <2> QED
    BY <1>3, <2>1, <2>2, StandsReserve, StandsWrites, StandsBlock DEF ClosingStep
<1>4. ASSUME NEW p \in Procs, Request(p) \/ Fault(p) PROVE Stands
  <2>1. row' = row
    BY <1>4 DEF Request, Fault, ProviderAnswers, ProviderLimits, NotSent, Crash, KeepRow
  <2> QED
    BY <1>1, <2>1
<1>5. CASE UNCHANGED vars
  BY <1>1, <1>5 DEF vars
<1> QED
  BY <1>2, <1>3, <1>4, <1>5, StandsCollector, StandsTime DEF Next

LEMMA OnlyMover ==
  ASSUME ProcTypes, NEW p \in Procs,
         LandingStep(p) \/ ClosingStep(p) \/ CollectorStep(p) \/ Request(p) \/ Fault(p)
  PROVE  Others(p)
<1>1. CASE \/ \E reserve \in {LandingReserve, ClosingReserve} : Reserve(p, reserve)
           \/ CollectorTake(p)
  <2>1. ASSUME Turned(p) PROVE Others(p)
    BY <2>1, TurnedMoves
  <2>2. ASSUME NEW cost, Take(p, cost) PROVE Others(p)
    BY <2>2 DEF Take, Others, ProcTypes
  <2>3. ASSUME proc' = [proc EXCEPT ![p] = [@ EXCEPT !.pc = "ask", !.at = "now"]] PROVE Others(p)
    BY <2>3 DEF Others, ProcTypes
  <2> QED
    BY <1>1, <2>1, <2>2, <2>3, FailMoves DEF Reserve, CollectorTake, Why
<1>2. CASE \/ \E cost \in {1, 2} : Start(p, cost)
           \/ LandingMisconfigured(p) \/ LandingLook(p) \/ ClosingLook(p) \/ PollWinner(p)
           \/ CollectorLook(p) \/ PublishLook(p) \/ FailLook(p)
  BY <1>2 DEF Start, LandingMisconfigured, LandingLook, ClosingLook, PollWinner, CollectorLook,
              PublishLook, FailLook, Stop, Goto, Others, ProcTypes
<1>3. CASE ReserveExpired(p)
  BY <1>3, TurnedMoves DEF ReserveExpired
<1>4. CASE ResetBeforeProbe(p) \/ ClaimProbe(p) \/ CompleteProbe(p)
  BY <1>4 DEF ResetBeforeProbe, ClaimProbe, CompleteProbe, Others, ProcTypes
<1>5. CASE Reconcile(p) \/ Block(p) \/ Terminate(p) \/ PublishPut(p) \/ FailPut(p) \/ Crash(p)
  BY <1>5, StopMoves, FailMoves
  DEF Reconcile, Block, Terminate, PublishPut, FailPut, Crash, Why
<1>6. CASE Request(p)
  BY <1>6, HeardMoves DEF Request, Heard
<1>7. CASE NotSent(p)
  BY <1>7, StopMoves, FailMoves DEF NotSent, Others, ProcTypes, Why
<1> QED
  BY <1>1, <1>2, <1>3, <1>4, <1>5, <1>6, <1>7
  DEF LandingStep, LandingStart, ClosingStep, CollectorStep, Fault

\* A landing that goes from its look to its request has just reserved, above
\* what it must leave.
LEMMA OnlyReserving ==
  ASSUME ProcTypes, [Next]_vars, NEW p \in Landings,
         At(p, "reserve"), proc'[p].pc = "ask"
  PROVE  Reserve(p, LandingReserve) /\ Reservable(p, LandingReserve)
<1>1. p \in Procs /\ proc[p] \in Local /\ proc'[p] # proc[p]
  BY DEF Procs, ProcTypes, At
<1>2. ASSUME NEW q \in Procs, Others(q) PROVE q = p
  BY <1>1, <1>2 DEF Others
<1>3. ASSUME Turned(p) \/ Stop(p) PROVE FALSE
  BY <1>1, <1>3, TurnedMoves, StopMoves DEF Harmless
<1>4. CASE LandingStep(p)
  <2>1. ReserveExpired(p) \/ Reserve(p, LandingReserve)
    BY <1>4 DEF LandingStep, LandingStart, Start, LandingMisconfigured, LandingLook,
                ResetBeforeProbe, ClaimProbe, PollWinner, CompleteProbe, Reconcile, Block,
                Terminate, At
  <2> QED
    BY <1>3, <2>1 DEF ReserveExpired, Reserve
<1>5. CASE Request(p) \/ Fault(p)
  BY <1>3, <1>5 DEF Request, Fault, ProviderAnswers, ProviderLimits, NotSent, Crash, At
<1>6. ASSUME NEW q \in Landings, LandingStep(q) PROVE LandingStep(p)
  BY <1>2, <1>6, OnlyMover DEF Procs
<1>7. ASSUME NEW q \in Closings \cup Collectors, ClosingStep(q) \/ CollectorStep(q) PROVE FALSE
  <2>1. q \in Procs /\ q # p
    BY KindsAssumption DEF Procs
  <2> QED
    BY <1>2, <1>7, <2>1, OnlyMover
<1>8. ASSUME NEW q \in Procs, Request(q) \/ Fault(q) PROVE Request(p) \/ Fault(p)
  BY <1>2, <1>8, OnlyMover
<1>9. ~NextWindow
  <2>1. ASSUME NextWindow PROVE proc'[p].pc = proc[p].pc
    <3>1. proc'[p] = Older(proc[p])
      BY <1>1, <2>1 DEF NextWindow
    <3> QED
      BY <1>1, <3>1 DEF Older, Local
  <2> QED
    BY <2>1 DEF At
<1>10. ~ProbeLapses /\ ~UNCHANGED vars
  BY <1>1 DEF ProbeLapses, vars
<1> QED
  BY <1>4, <1>5, <1>6, <1>7, <1>8, <1>9, <1>10 DEF Next

LEMMA SparesStep ==
  ASSUME RowTypes, ProcTypes, RowTypes', Inv, [Next]_vars,
         NEW p \in Landings, At(p, "reserve"), proc'[p].pc = "ask", row.resets = "now"
  PROVE  credit + unreserved + forgotten - unsent' >= LandingReserve
<1> DEFINE c == proc[p].cost
<1>1. p \in Procs
  BY DEF Procs
<1>2. c \in Int /\ LandingReserve \in Int
  BY <1>1, LocalFields, ReserveAssumption DEF ProcTypes
<1>3. row.known /\ row.left >= LandingReserve + c /\ unsent' = unsent + c
  BY OnlyReserving DEF Reserve, Reservable, Take
<1>4. row.left + unsent <= credit + unreserved + forgotten
  BY <1>3 DEF Inv, RowInv, NeverOverstated
<1> HIDE DEF c
<1>5. unsent + c + LandingReserve <= credit + unreserved + forgotten
  BY <1>2, <1>3, <1>4, Numbers
<1> QED
  BY <1>2, <1>3, <1>5, Numbers

LEMMA InvInit == Init => Inv /\ HoldInv
<1> SUFFICES ASSUME Init PROVE Inv /\ HoldInv
  OBVIOUS
<1>1. row.known /\ row.resets = "now" /\ row.left = credit /\ unsent = 0
      /\ unreserved = 0 /\ reserved = 0 /\ forgotten = 0 /\ credit \in Int /\ fresh = {}
  BY LimitAssumption DEF Init
<1>2. RowInv
  BY <1>1 DEF RowInv, NeverOverstated, Current
<1>3. ASSUME NEW p \in Procs PROVE ProcInv(p) /\ Hold(p)
  BY <1>1 DEF Init, ProcInv, Idle, NoAnswer, At, Probes, Hold
<1> QED
  BY <1>2, <1>3 DEF Inv, HoldInv

\* Landing is served from what is above its reserve, whoever else spends: what
\* the provider keeps for the others is at least that reserve but for what a
\* collector's answer made the row forget, for any number of landings, closing
\* captures and collectors and any limit and reserves.
THEOREM LandingSparesCorrect == Spec => LandingSparesLive
<1>1. TypeOK /\ TypeOK' /\ Inv /\ [Next]_vars => Inv'
  <2>1. TypeOK' => RowTypes'
    BY DEF TypeOK, RowTypes
  <2> QED
    BY <2>1, TypesSplit, InvStep
<1>2. TypeOK /\ TypeOK' /\ Inv /\ [Next]_vars
        => [\A p \in Landings :
              At(p, "reserve") /\ proc'[p].pc = "ask" /\ row.resets = "now"
                => credit + unreserved + forgotten - unsent' >= LandingReserve]_vars
  <2>1. TypeOK' => RowTypes'
    BY DEF TypeOK, RowTypes
  <2> QED
    BY <2>1, TypesSplit, SparesStep
<1> QED
  BY <1>1, <1>2, InvInit, TypeCorrect, PTL DEF Spec, LandingSparesLive

\* No call gives a window's units back and nothing lifts a refusal, except a
\* collector over the row it has just read; and no probe lifts a pause or a
\* refusal recorded since it was elected: however any number of landings, closing
\* captures and collectors interleave.
THEOREM RefusalsCorrect == Spec => RefusalsStand
<1>1. TypeOK /\ TypeOK' /\ Inv /\ HoldInv /\ [Next]_vars => Inv' /\ HoldInv' /\ Stands
  <2>1. TypeOK' => RowTypes'
    BY DEF TypeOK, RowTypes
  <2> QED
    BY <2>1, TypesSplit, InvStep, HoldStep, StandsStep
<1>2. Stands =>
        /\ [row.known /\ row'.known /\ row.resets = row'.resets /\ row.resets # "none"
              => \/ row'.left <= row.left
                 \/ \E p \in Collectors : Overwrites(p) /\ row'.left = proc[p].answer.left]_vars
        /\ [row.health = "terminal" /\ row'.health # "terminal"
              => \E p \in Collectors : Overwrites(p)]_vars
        /\ [\A p \in Landings :
              At(p, "complete") /\ ~At(p, "complete")'
                /\ (Ahead(row.retry) \/ row.health = "terminal") => row' = row]_vars
  BY DEF Stands, KeepsSpent, KeepsVerdict, LiftsNothing
<1> QED
  BY <1>1, <1>2, InvInit, TypeCorrect, PTL
  DEF Spec, RefusalsStand, NeverRefunded, TerminalStands, ProbeLiftsNothing
=============================================================================
