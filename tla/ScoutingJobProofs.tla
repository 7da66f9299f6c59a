--------------------------- MODULE ScoutingJobProofs ---------------------------
(***************************************************************************)
(* Proofs about ScoutingJob, for any number of keys, callers and attempts. *)
(* What a caller knows when it stands between two calls (Fit, Knows) makes *)
(* the row invariants inductive: a transaction is fenced by what was read, *)
(* so what was read when its caller got there still holds when it commits. *)
(***************************************************************************)
EXTENDS ScoutingJob, FiniteSetTheorems, TLAPS

Lifecycle == {"claim", "reclaim", "complete", "finish", "refinish"}
Finishes == {"finish", "refinish"}
RetryPC == {"job", "retryPointer", "retry", "latest", "adopt", "readopt"}
RequestPC == {"lookup", "receipt", "pointer", "create", "rereceipt", "winner", "repointer",
              "records", "converge", "raced"}
ReportPC == {"run", "head", "binding", "version", "complete", "lost", "reload"}

CodeFits(r) == r.code # "none" <=> r.status \in Failed
Seen(l, s) == /\ l.seenJob.status = s
              /\ l.seenAttempt.status = s
              /\ l.seenJob.count = l.n

\* What a caller with locals l knows at position pc.
Fit(l, pc) ==
  /\ pc \in RequestPC \cup RetryPC => l.key \in Keys /\ l.stage \in {"create", "retry"}
  /\ pc \in RetryPC => l.stage = "retry"
  /\ pc = "winner" => l.stage = "create"
  /\ pc \in {"retryPointer", "retry"} =>
       l.seenJob.status = "failed_retryable" /\ l.seenJob.count < MaxAttempts
  /\ pc \in {"read", "readJob", "readAttempt"} => l.stage \in Lifecycle
  /\ pc \in {"event", "claim"} => l.stage = "claim" /\ Seen(l, "queued")
  /\ pc = "reevent" => l.stage = "reclaim"
  /\ pc \in ReportPC => l.stage = "complete"
  /\ pc \in {"version", "complete"} => Seen(l, "in_progress")
  /\ pc \in {"marker", "finish"} => l.stage = "finish" /\ \E s \in Active : Seen(l, s)
  /\ pc = "remarker" => l.stage = "refinish"
  /\ pc # "done" /\ l.stage \in Finishes => l.code \in Codes
Knows(l) ==
  /\ l.stage \in Lifecycle \cup {"retry"} => l.job \in Keys
  /\ l.stage \in Lifecycle => l.n \in Number
  /\ CodeFits(l.seenJob)
  /\ CodeFits(l.seenAttempt)
Good(l) == l \in Local /\ Fit(l, l.pc) /\ Knows(l)

LocalsGood == proc \in [Callers -> Local] /\ \A p \in Callers : Good(proc[p])

RowsType ==
  /\ current \in BOOLEAN
  /\ receipt \in [Keys -> Receipt]
  /\ marker \in Marker
  /\ job \in [Keys -> JobRow]
  /\ attempt \in [Keys -> [Number -> AttemptRow]]
  /\ outbox \in [Keys -> [Number -> {"none", "pending"}]]
  /\ binding \in [Keys -> Nat]
  /\ head \in Nat
CodesFit ==
  \A k \in Keys : CodeFits(job[k]) /\ \A n \in Number : CodeFits(attempt[k][n])

TypeInv == RowsType /\ CodesFit /\ LocalsGood

-----------------------------------------------------------------------------
(* What a call leaves in its locals. *)

LEMMA MoveGood ==
  ASSUME NEW l, Good(l), NEW pc \in PC, Fit(l, pc)
  PROVE  Good(Goto(l, pc))
<1> DEFINE x == Goto(l, pc)
<1>1. x \in Local
  BY DEF Good, Goto, Local
<1>2. /\ x.pc = pc /\ x.key = l.key /\ x.stage = l.stage /\ x.job = l.job /\ x.n = l.n
      /\ x.code = l.code /\ x.seenJob = l.seenJob /\ x.seenAttempt = l.seenAttempt
  BY DEF Good, Goto, Local
<1> HIDE DEF x
<1>3. Fit(x, x.pc)
  BY <1>2 DEF Fit, Seen
<1>4. Knows(x)
  BY <1>2 DEF Knows, Good
<1> QED
  BY <1>1, <1>3, <1>4 DEF Good, x

LEMMA NoRowsFit ==
  /\ NoJob \in JobRow /\ CodeFits(NoJob)
  /\ NoAttempt \in AttemptRow /\ CodeFits(NoAttempt)
<1>1. 0 \in 0..MaxAttempts
  BY AttemptsAssumption
<1> QED
  BY <1>1 DEF NoJob, JobRow, NoAttempt, AttemptRow, CodeFits, Failed, Status

LEMMA IdleGood == Good(Idle)
<1>1. 0 \in 0..MaxAttempts
  BY AttemptsAssumption
<1>2. Idle \in Local
  BY <1>1, NoRowsFit DEF Idle, Local, PC, Stage, Out
<1>3. /\ Idle.pc = "idle" /\ Idle.stage = "none"
      /\ Idle.seenJob = NoJob /\ Idle.seenAttempt = NoAttempt
  BY DEF Idle
<1>4. Fit(Idle, Idle.pc)
  BY <1>3 DEF Fit, RequestPC, RetryPC, ReportPC, Finishes
<1>5. Knows(Idle)
  BY <1>3, NoRowsFit DEF Knows, Lifecycle
<1> QED
  BY <1>2, <1>4, <1>5 DEF Good

LEMMA IdleLocal == Idle \in Local
BY IdleGood DEF Good

LEMMA AnswerGood ==
  ASSUME NEW l, Good(l), NEW out \in Out
  PROVE  Good(Answer(l, out))
<1> DEFINE x == Answer(l, out)
<1>1. x \in Local
  BY IdleGood DEF Good, Answer, Local, PC
<1>2. /\ x.pc = "done" /\ x.stage = l.stage /\ x.key = l.key /\ x.job = l.job
      /\ x.n = l.n /\ x.seenJob = NoJob /\ x.seenAttempt = NoAttempt
  BY DEF Answer, Idle
<1> HIDE DEF x
<1>3. Fit(x, x.pc)
  BY <1>2 DEF Fit, RequestPC, RetryPC, ReportPC
<1>4. Knows(x)
  BY <1>2, NoRowsFit DEF Knows, Good
<1> QED
  BY <1>1, <1>3, <1>4 DEF Good, x

LEMMA ReadingGood ==
  ASSUME NEW l, l \in Local, l.job \in Keys, l.n \in Number,
         NEW stage \in Lifecycle, stage \in Finishes => l.code \in Codes
  PROVE  Good(Reading(l, stage))
<1> DEFINE x == Reading(l, stage)
<1>1. stage \in Stage
  BY DEF Lifecycle, Stage
<1>2. x \in Local
  BY <1>1, NoRowsFit DEF Reading, Local, PC
<1>3. /\ x.pc = "read" /\ x.stage = stage /\ x.key = l.key /\ x.job = l.job
      /\ x.n = l.n /\ x.code = l.code
      /\ x.seenJob = NoJob /\ x.seenAttempt = NoAttempt
  BY DEF Reading, Local
<1> HIDE DEF x
<1>4. Fit(x, x.pc)
  BY <1>3 DEF Fit, RequestPC, RetryPC, ReportPC
<1>5. Knows(x)
  BY <1>3, NoRowsFit DEF Knows
<1> QED
  BY <1>2, <1>4, <1>5 DEF Good, x

LEMMA FinishingGood ==
  ASSUME NEW l, l \in Local, l.job \in Keys, l.n \in Number, NEW code \in Codes
  PROVE  Good(Finishing(l, code))
<1> DEFINE c == [l EXCEPT !.code = code]
<1>1. c \in Local /\ c.job = l.job /\ c.n = l.n /\ c.code = code
  BY DEF Local
<1>2. Finishing(l, code) = Reading(c, "finish")
  BY DEF Finishing, Reading, Local
<1> HIDE DEF c
<1>3. "finish" \in Lifecycle
  BY DEF Lifecycle
<1> QED
  BY <1>1, <1>2, <1>3, ReadingGood

\* What a caller concludes from the two rows, whichever it read last.
LEMMA JudgedGood ==
  ASSUME NEW l, Good(l), l.pc \in {"readJob", "readAttempt"}
  PROVE  Good(Judged(l))
<1>1. l \in Local /\ l.stage \in Lifecycle /\ l.job \in Keys /\ l.n \in Number
  BY DEF Good, Fit, Knows
<1>2. l.stage \in Finishes => l.code \in Codes
  BY DEF Good, Fit
<1>3. Good(Answer(l, "stale")) /\ Good(Answer(l, "ambiguous")) /\ Good(Answer(l, "finished"))
  BY AnswerGood DEF Out
<1>4. CASE l.stage \in {"claim", "reclaim"}
  <2>1. ASSUME l.stage = "claim", Seen(l, "queued") PROVE Good(Goto(l, "event"))
    <3>1. Fit(l, "event")
      BY <2>1 DEF Fit, RequestPC, RetryPC, ReportPC, Finishes
    <3> QED
      BY <3>1, MoveGood DEF PC
  <2>2. ASSUME l.stage = "reclaim" PROVE Good(Goto(l, "reevent"))
    <3>1. Fit(l, "reevent")
      BY <2>2 DEF Fit, RequestPC, RetryPC, ReportPC, Finishes
    <3> QED
      BY <3>1, MoveGood DEF PC
  <2> QED
    BY <1>3, <1>4, <2>1, <2>2 DEF Judged, Seen
<1>5. CASE l.stage = "complete"
  <2>1. ASSUME Seen(l, "in_progress") PROVE Good(Goto(l, "version"))
    <3>1. Fit(l, "version")
      BY <1>5, <2>1 DEF Fit, RequestPC, RetryPC, ReportPC, Finishes
    <3> QED
      BY <3>1, MoveGood DEF PC
  <2>2. Good(Finishing(l, "workflow-terminal-failure"))
    BY <1>1, FinishingGood DEF Codes, Terminal
  <2> QED
    BY <1>5, <2>1, <2>2 DEF Judged, Seen
<1>6. CASE l.stage \in Finishes
  <2>1. ASSUME l.stage = "finish", NEW s \in Active, Seen(l, s)
        PROVE  Good(Goto(l, "marker"))
    <3>1. Fit(l, "marker")
      BY <1>2, <2>1 DEF Fit, RequestPC, RetryPC, ReportPC, Finishes
    <3> QED
      BY <3>1, MoveGood DEF PC
  <2>2. ASSUME l.stage = "refinish" PROVE Good(Goto(l, "remarker"))
    <3>1. Fit(l, "remarker")
      BY <1>2, <2>2 DEF Fit, RequestPC, RetryPC, ReportPC, Finishes
    <3> QED
      BY <3>1, MoveGood DEF PC
  <2>3. ASSUME l.stage = "finish", l.seenJob.count = l.n,
               l.seenJob.status = l.seenAttempt.status, l.seenJob.status \in Active
        PROVE  Good(Goto(l, "marker"))
    BY <2>1, <2>3 DEF Seen
  <2> QED
    BY <1>3, <1>6, <2>2, <2>3 DEF Judged, Finishes
<1> QED
  BY <1>1, <1>4, <1>5, <1>6 DEF Lifecycle, Finishes

-----------------------------------------------------------------------------
(* Whose attempt a caller works on. *)

\* The caller claimed the attempt it names, and may still report on it.
Held(l) ==
  /\ l.pc # "done"
  /\ \/ l.stage = "complete"
     \/ l.stage = "finish" /\ l.code # "event-version-changed"
\* From locals l to x nothing is claimed.
Keeps(l, x) == Held(x) => Held(l) /\ x.job = l.job /\ x.n = l.n

LEMMA AnswerKeeps == \A l, out : Keeps(l, Answer(l, out))
BY DEF Keeps, Held, Answer, Idle

LEMMA MoveKeeps ==
  ASSUME NEW l \in Local, l.pc # "done", NEW pc
  PROVE  Keeps(l, Goto(l, pc))
BY DEF Keeps, Held, Goto, Local

LEMMA FinishingKeeps ==
  ASSUME NEW l \in Local, l.pc # "done", NEW code,
         l.stage = "complete" \/ code = "event-version-changed"
  PROVE  Keeps(l, Finishing(l, code))
BY DEF Keeps, Held, Finishing, Reading, Local

LEMMA JudgedKeeps ==
  ASSUME NEW l, Good(l), l.pc \in {"readJob", "readAttempt"}
  PROVE  Keeps(l, Judged(l))
<1>1. l \in Local /\ l.pc # "done" /\ l.stage \in Lifecycle
  BY DEF Good, Fit
<1>2. \A pc : Keeps(l, Goto(l, pc))
  BY <1>1, MoveKeeps
<1>3. l.stage = "complete" => Keeps(l, Finishing(l, "workflow-terminal-failure"))
  BY <1>1, FinishingKeeps
<1>4. CASE l.stage \in {"claim", "reclaim"}
  BY <1>2, <1>4, AnswerKeeps DEF Judged
<1>5. CASE l.stage = "complete"
  BY <1>2, <1>3, <1>5 DEF Judged
<1>6. CASE l.stage \in Finishes
  BY <1>2, <1>6, AnswerKeeps DEF Judged, Finishes
<1> QED
  BY <1>1, <1>4, <1>5, <1>6 DEF Lifecycle, Finishes

\* The locals stay good and no worker claims anything.
Quiet == LocalsGood' /\ \A w \in Workers : Keeps(proc[w], proc'[w])

LEMMA Moves ==
  ASSUME LocalsGood, NEW p \in Callers, NEW x, Good(x), Become(p, x),
         p \in Workers => Keeps(proc[p], x)
  PROVE  Quiet
<1>1. proc'[p] = x /\ \A q \in Callers : q # p => proc'[q] = proc[q]
  BY DEF LocalsGood, Become
<1>2. x \in Local
  BY DEF Good
<1>3. LocalsGood'
  <2>1. proc' \in [Callers -> Local]
    BY <1>2 DEF LocalsGood, Become
  <2>2. \A q \in Callers : Good(proc'[q])
    BY <1>1 DEF LocalsGood
  <2> QED
    BY <2>1, <2>2 DEF LocalsGood
<1>4. ASSUME NEW w \in Workers PROVE Keeps(proc[w], proc'[w])
  BY <1>1 DEF Callers, Keeps
<1> QED
  BY <1>3, <1>4 DEF Quiet

LEMMA ClientsApart ==
  ASSUME NEW c \in Clients
  PROVE  c \in Callers /\ c \notin Workers
BY CallersAssumption DEF Callers

-----------------------------------------------------------------------------
(* Steps that write no row. *)

LEMMA RequestMoves ==
  ASSUME NEW l, Good(l), l.pc \in RequestPC \cup RetryPC, NEW pc \in RequestPC,
         pc = "winner" => l.stage = "create"
  PROVE  Good(Goto(l, pc))
<1>1. Fit(l, pc)
  BY DEF Good, Fit, RequestPC, RetryPC, ReportPC, Finishes
<1>2. pc \in PC
  BY DEF RequestPC, PC
<1> QED
  BY <1>1, <1>2, MoveGood

LEMMA RetryMoves ==
  ASSUME NEW l, Good(l), l.pc \in RequestPC \cup RetryPC, l.stage = "retry",
         NEW pc \in {"job", "latest", "adopt", "readopt"}
  PROVE  Good(Goto(l, pc))
<1>1. Fit(l, pc)
  BY DEF Good, Fit, RequestPC, RetryPC, ReportPC, Finishes
<1>2. pc \in PC
  BY DEF PC
<1> QED
  BY <1>1, <1>2, MoveGood

\* A request takes a step to good locals.
LEMMA ClientMoves ==
  ASSUME TypeInv, NEW c \in Clients, NEW x, Good(x), Become(c, x)
  PROVE  Quiet
BY ClientsApart, Moves DEF TypeInv

LEMMA ClientGood ==
  ASSUME TypeInv, NEW c \in Clients
  PROVE  Good(proc[c]) /\ proc[c] \in Local
BY ClientsApart DEF TypeInv, LocalsGood, Good

LEMMA RequestQuiet ==
  ASSUME TypeInv, NEW c \in Clients,
         \/ Lookup(c) \/ ReadReceipt(c) \/ RereadPointer(c)
         \/ ReadRecords(c) \/ ReadRaced(c) \/ Readopt(c)
  PROVE  Quiet
<1> DEFINE l == proc[c]
<1>1. Good(l)
  BY ClientGood
<1> HIDE DEF l
<1>2. \A out \in Out : Good(Answer(l, out))
  BY <1>1, AnswerGood
<1>3. /\ "refused" \in Out /\ "corrupt" \in Out /\ "replayed" \in Out
      /\ "converged" \in Out /\ "adopted" \in Out
  BY DEF Out
<1>4. CASE Lookup(c)
  <2>1. Good(Goto(l, "receipt"))
    BY <1>1, <1>4, RequestMoves DEF Lookup, l, RequestPC
  <2>2. \E x : Good(x) /\ Become(c, x)
    BY <1>2, <1>3, <1>4, <2>1 DEF Lookup, l
  <2> QED
    BY <2>2, ClientMoves
<1>5. CASE ReadReceipt(c)
  <2>1. l.pc \in {"receipt", "rereceipt"} /\ l.pc \in RequestPC /\ l.stage \in {"create", "retry"}
    BY <1>1, <1>5 DEF ReadReceipt, l, Good, Fit, RequestPC
  <2>2. /\ Good(Goto(l, "pointer"))
        /\ l.stage = "create" => Good(Goto(l, "winner"))
    BY <1>1, <2>1, RequestMoves DEF RequestPC
  <2>3. l.stage = "retry" => Good(Goto(l, "job")) /\ Good(Goto(l, "latest"))
    BY <1>1, <2>1, RetryMoves
  <2> DEFINE pc == CASE l.pc = "receipt" /\ l.stage = "create" -> "pointer"
                     [] l.pc = "receipt" /\ l.stage = "retry" -> "job"
                     [] l.pc = "rereceipt" /\ l.stage = "create" -> "winner"
                     [] OTHER -> "latest"
  <2>4. Good(Goto(l, pc))
    BY <2>1, <2>2, <2>3
  <2>5. \E x : Good(x) /\ Become(c, x)
    BY <1>2, <1>3, <1>5, <2>4 DEF ReadReceipt, l
  <2> QED
    BY <2>5, ClientMoves
<1>6. CASE RereadPointer(c)
  <2>1. \E x : Good(x) /\ Become(c, x)
    BY <1>2, <1>3, <1>6 DEF RereadPointer, l
  <2> QED
    BY <2>1, ClientMoves
<1>7. CASE ReadRecords(c)
  <2>1. Good(Goto(l, "converge"))
    BY <1>1, <1>7, RequestMoves DEF ReadRecords, l, RequestPC
  <2>2. \E x : Good(x) /\ Become(c, x)
    BY <1>2, <1>3, <1>7, <2>1 DEF ReadRecords, l
  <2> QED
    BY <2>2, ClientMoves
<1>8. CASE ReadRaced(c)
  <2>1. \E x : Good(x) /\ Become(c, x)
    BY <1>2, <1>3, <1>8 DEF ReadRaced, l
  <2> QED
    BY <2>1, ClientMoves
<1>9. CASE Readopt(c)
  <2>1. \E x : Good(x) /\ Become(c, x)
    BY <1>2, <1>3, <1>9 DEF Readopt, l
  <2> QED
    BY <2>1, ClientMoves
<1> QED
  BY <1>4, <1>5, <1>6, <1>7, <1>8, <1>9

LEMMA SeeJobGood ==
  ASSUME NEW l, Good(l), NEW j \in JobRow, CodeFits(j), NEW pc \in PC,
         Fit([l EXCEPT !.seenJob = j], pc)
  PROVE  Good([l EXCEPT !.pc = pc, !.seenJob = j])
<1> DEFINE c == [l EXCEPT !.seenJob = j]
           x == [l EXCEPT !.pc = pc, !.seenJob = j]
<1>1. x \in Local
  BY DEF Good, Local
<1>2. /\ x.pc = pc /\ x.key = l.key /\ x.stage = l.stage /\ x.job = l.job /\ x.n = l.n
      /\ x.code = l.code /\ x.seenJob = j /\ x.seenAttempt = l.seenAttempt
  BY DEF Good, Local
<1>3. /\ c.key = l.key /\ c.stage = l.stage /\ c.job = l.job /\ c.n = l.n
      /\ c.code = l.code /\ c.seenJob = j /\ c.seenAttempt = l.seenAttempt
  BY DEF Good, Local
<1>4. Fit(c, pc)
  OBVIOUS
<1> HIDE DEF x, c
<1>5. Fit(x, x.pc)
  BY <1>2, <1>3, <1>4 DEF Fit, Seen
<1>6. Knows(x)
  BY <1>2 DEF Knows, Good
<1> QED
  BY <1>1, <1>5, <1>6 DEF Good, x

LEMMA SeeAttemptGood ==
  ASSUME NEW l, Good(l), l.pc \in {"read", "readAttempt"},
         NEW a \in AttemptRow, CodeFits(a), NEW pc \in {"readJob", "readAttempt"}
  PROVE  Good([l EXCEPT !.pc = pc, !.seenAttempt = a])
<1> DEFINE x == [l EXCEPT !.pc = pc, !.seenAttempt = a]
<1>1. pc \in PC
  BY DEF PC
<1>2. x \in Local
  BY <1>1 DEF Good, Local
<1>3. /\ x.pc = pc /\ x.key = l.key /\ x.stage = l.stage /\ x.job = l.job /\ x.n = l.n
      /\ x.code = l.code /\ x.seenJob = l.seenJob /\ x.seenAttempt = a
  BY DEF Good, Local
<1> HIDE DEF x
<1>4. Fit(x, x.pc)
  BY <1>3 DEF Good, Fit, RequestPC, RetryPC, ReportPC
<1>5. Knows(x)
  BY <1>3 DEF Knows, Good
<1> QED
  BY <1>2, <1>4, <1>5 DEF Good, x

LEMMA RowsRead ==
  ASSUME TypeInv, NEW k \in Keys
  PROVE  /\ job[k] \in JobRow /\ CodeFits(job[k])
         /\ \A n \in Number : attempt[k][n] \in AttemptRow /\ CodeFits(attempt[k][n])
BY DEF TypeInv, RowsType, CodesFit

LEMMA StartRequestQuiet ==
  ASSUME TypeInv, NEW c \in Clients, NEW k \in Keys,
         \/ StartCreate(c, k)
         \/ \E j \in Keys : \E v \in 1..job[j].ver : StartRetry(c, k, j, v)
  PROVE  Quiet
<1>1. CASE StartCreate(c, k)
  <2> DEFINE x == [Idle EXCEPT !.pc = "lookup", !.stage = "create", !.key = k]
  <2>1. x \in Local
    <3>1. "lookup" \in PC /\ "create" \in Stage
      BY DEF PC, Stage
    <3> QED
      BY <3>1, IdleLocal DEF Local
  <2>2. /\ x.pc = "lookup" /\ x.stage = "create" /\ x.key = k
        /\ x.seenJob = NoJob /\ x.seenAttempt = NoAttempt
    BY DEF Idle
  <2>3. Become(c, x)
    BY <1>1 DEF StartCreate
  <2> HIDE DEF x
  <2>4. Fit(x, x.pc) /\ Knows(x)
    BY <2>2, NoRowsFit DEF Fit, Knows, RequestPC, RetryPC, ReportPC, Lifecycle, Finishes
  <2>5. Good(x)
    BY <2>1, <2>4 DEF Good
  <2> QED
    BY <2>3, <2>5, ClientMoves
<1>2. ASSUME NEW j \in Keys, NEW v \in 1..job[j].ver, StartRetry(c, k, j, v)
      PROVE  Quiet
  <2> DEFINE x == [Idle EXCEPT !.pc = "receipt", !.stage = "retry",
                               !.key = k, !.job = j, !.exp = v]
  <2>0. v \in Nat
    BY DEF TypeInv, RowsType, JobRow
  <2>1. x \in Local
    <3>1. "receipt" \in PC /\ "retry" \in Stage
      BY DEF PC, Stage
    <3> QED
      BY <2>0, <3>1, IdleLocal DEF Local
  <2>2. /\ x.pc = "receipt" /\ x.stage = "retry" /\ x.key = k /\ x.job = j
        /\ x.seenJob = NoJob /\ x.seenAttempt = NoAttempt
    BY DEF Idle
  <2>3. Become(c, x)
    BY <1>2 DEF StartRetry
  <2> HIDE DEF x
  <2>4. Fit(x, x.pc) /\ Knows(x)
    BY <2>2, NoRowsFit DEF Fit, Knows, RequestPC, RetryPC, ReportPC, Lifecycle, Finishes
  <2>5. Good(x)
    BY <2>1, <2>4 DEF Good
  <2> QED
    BY <2>3, <2>5, ClientMoves
<1> QED
  BY <1>1, <1>2

LEMMA PointerQuiet ==
  ASSUME TypeInv, NEW c \in Clients, ReadPointer(c)
  PROVE  Quiet
<1> DEFINE l == proc[c]
<1>1. Good(l) /\ l.pc \in {"pointer", "retryPointer"}
  BY ClientGood DEF ReadPointer
<1>2. Good(Answer(l, "refused"))
  BY <1>1, AnswerGood DEF Out
<1>3. ASSUME l.pc = "pointer" PROVE Good(Goto(l, "create"))
  BY <1>1, <1>3, RequestMoves DEF RequestPC
<1>4. ASSUME l.pc = "retryPointer" PROVE Good(Goto(l, "retry"))
  <2>1. Fit(l, "retry")
    BY <1>1, <1>4 DEF Good, Fit, RequestPC, RetryPC, ReportPC
  <2> QED
    BY <1>1, <2>1, MoveGood DEF PC
<1>5. \E x : Good(x) /\ Become(c, x)
  BY <1>1, <1>2, <1>3, <1>4 DEF ReadPointer
<1> QED
  BY <1>5, ClientMoves

LEMMA WinnerQuiet ==
  ASSUME TypeInv, NEW c \in Clients, ReadWinner(c)
  PROVE  Quiet
<1> DEFINE l == proc[c]
           x == [l EXCEPT !.pc = "records", !.job = marker.job, !.kind = marker.kind]
<1>1. Good(l) /\ l.pc = "winner" /\ l.stage = "create"
  BY ClientGood DEF ReadWinner, Good, Fit
<1>2. Good(Goto(l, "repointer"))
  BY <1>1, RequestMoves DEF RequestPC
<1>3. Good(x)
  <2>1. x \in Local
    BY <1>1 DEF Good, Local, PC, TypeInv, RowsType, Marker
  <2>2. /\ x.pc = "records" /\ x.key = l.key /\ x.stage = l.stage /\ x.n = l.n
        /\ x.code = l.code /\ x.seenJob = l.seenJob /\ x.seenAttempt = l.seenAttempt
    BY <1>1 DEF Good, Local
  <2> HIDE DEF x
  <2>3. Fit(x, x.pc) /\ Knows(x)
    BY <1>1, <2>2 DEF Good, Fit, Knows, RequestPC, RetryPC, ReportPC, Lifecycle, Finishes
  <2> QED
    BY <2>1, <2>3 DEF Good
<1>4. \E y : Good(y) /\ Become(c, y)
  BY <1>2, <1>3 DEF ReadWinner
<1> QED
  BY <1>4, ClientMoves

LEMMA RetryReadQuiet ==
  ASSUME TypeInv, NEW c \in Clients, ReadJob(c) \/ ReadLatest(c)
  PROVE  Quiet
<1> DEFINE l == proc[c]
           j == job[l.job]
           adopt == [l EXCEPT !.pc = "adopt", !.seenJob = j]
           look == [l EXCEPT !.pc = "retryPointer", !.seenJob = j]
           s == [l EXCEPT !.seenJob = j]
<1>1. Good(l) /\ l.pc \in {"job", "latest"} /\ l.stage = "retry" /\ l.job \in Keys
  BY ClientGood DEF ReadJob, ReadLatest, Good, Fit, Knows, RetryPC
<1>2. j \in JobRow /\ CodeFits(j)
  BY <1>1, RowsRead
<1>3. s.key = l.key /\ s.stage = "retry" /\ s.seenJob = j
  BY <1>1 DEF Good, Local
<1>4. l.key \in Keys
  BY <1>1 DEF Good, Fit, RetryPC
<1> HIDE DEF s, j, l
<1>5. Fit(s, "adopt")
  BY <1>3, <1>4 DEF Fit, RequestPC, RetryPC, ReportPC, Finishes
<1>6. ASSUME j.status = "failed_retryable", ~ (j.count >= MaxAttempts)
      PROVE  Fit(s, "retryPointer")
  <2>1. j.count < MaxAttempts
    BY <1>2, <1>6, AttemptsAssumption DEF JobRow
  <2> QED
    BY <1>3, <1>4, <1>6, <2>1 DEF Fit, RequestPC, RetryPC, ReportPC, Finishes
<1>7. Good(adopt)
  BY <1>1, <1>2, <1>5, SeeJobGood DEF s, PC
<1>8. j.status = "failed_retryable" /\ ~ (j.count >= MaxAttempts) => Good(look)
  BY <1>1, <1>2, <1>6, SeeJobGood DEF s, PC
<1>9. Good(Answer(l, "refused")) /\ Good(Goto(l, "repointer"))
  BY <1>1, AnswerGood, RequestMoves DEF Out, RequestPC, RetryPC
<1> HIDE DEF adopt, look
<1>10. CASE ReadJob(c)
  <2>1. Become(c, IF Converged(j, l.exp) THEN adopt
                  ELSE IF j.status # "failed_retryable" \/ j.ver # l.exp
                          \/ j.count >= MaxAttempts
                  THEN Answer(l, "refused") ELSE look)
    BY <1>10 DEF ReadJob, j, l, adopt, look
  <2>2. \E y : Good(y) /\ Become(c, y)
    BY <1>7, <1>8, <1>9, <2>1
  <2> QED
    BY <2>2, ClientMoves
<1>11. CASE ReadLatest(c)
  <2>1. \E y : Good(y) /\ Become(c, y)
    BY <1>7, <1>9, <1>11 DEF ReadLatest, j, l, adopt
  <2> QED
    BY <2>1, ClientMoves
<1> QED
  BY <1>10, <1>11

LEMMA WorkerGood ==
  ASSUME TypeInv, NEW p \in Workers \cup Finalizers
  PROVE  p \in Callers /\ Good(proc[p]) /\ proc[p] \in Local
BY DEF TypeInv, LocalsGood, Good, Callers

LEMMA WorkMoves ==
  ASSUME TypeInv, NEW p \in Workers \cup Finalizers,
         NEW x, Good(x), Become(p, x), Keeps(proc[p], x)
  PROVE  Quiet
BY WorkerGood, Moves DEF TypeInv

LEMMA StartWorkQuiet ==
  ASSUME TypeInv, NEW w \in Workers, NEW k \in Keys, NEW n \in Number, StartWork(w, k, n)
  PROVE  Quiet
<1> DEFINE i == [Idle EXCEPT !.job = k, !.n = n]
           x == Reading(i, "claim")
<1>1. i \in Local /\ i.job = k /\ i.n = n
  <2>1. n \in 0..MaxAttempts
    BY AttemptsAssumption DEF Number
  <2> QED
    BY <2>1, IdleLocal DEF Local
<1>2. Good(x)
  BY <1>1, ReadingGood DEF Lifecycle, Finishes
<1>3. Keeps(proc[w], x)
  BY <1>1 DEF Keeps, Held, Reading, Local
<1>4. Become(w, x)
  BY DEF StartWork
<1> HIDE DEF x
<1> QED
  BY <1>2, <1>3, <1>4, WorkMoves

LEMMA StartFinishQuiet ==
  ASSUME TypeInv, NEW f \in Finalizers, NEW k \in Keys, NEW n \in Number, NEW code \in Codes,
         StartFinish(f, k, n, code)
  PROVE  Quiet
<1> DEFINE i == [Idle EXCEPT !.job = k, !.n = n]
           x == Finishing(i, code)
<1>1. i \in Local /\ i.job = k /\ i.n = n
  <2>1. n \in 0..MaxAttempts
    BY AttemptsAssumption DEF Number
  <2> QED
    BY <2>1, IdleLocal DEF Local
<1>2. Good(x)
  BY <1>1, FinishingGood
<1>3. Become(f, x)
  BY DEF StartFinish
<1>4. f \in Callers /\ f \notin Workers
  BY CallersAssumption DEF Callers
<1> HIDE DEF x
<1> QED
  BY <1>2, <1>3, <1>4, Moves DEF TypeInv

\* A worker that has claimed goes on, or turns to report a failure.
LEMMA ReportMoves ==
  ASSUME NEW l, Good(l), l.pc \in ReportPC
  PROVE  /\ l \in Local /\ l.pc # "done" /\ l.stage = "complete"
         /\ l.job \in Keys /\ l.n \in Number
         /\ \A pc \in {"head", "binding", "lost", "reload"} :
              Good(Goto(l, pc)) /\ Keeps(l, Goto(l, pc))
         /\ \A code \in Codes : Good(Finishing(l, code)) /\ Keeps(l, Finishing(l, code))
         /\ Good(Answer(l, "completed")) /\ Keeps(l, Answer(l, "completed"))
<1>1. l \in Local /\ l.pc # "done" /\ l.stage = "complete" /\ l.job \in Keys /\ l.n \in Number
  BY DEF Good, Fit, Knows, ReportPC, Lifecycle
<1>2. ASSUME NEW pc \in {"head", "binding", "lost", "reload"}
      PROVE  Good(Goto(l, pc)) /\ Keeps(l, Goto(l, pc))
  <2>1. Fit(l, pc)
    BY <1>1 DEF Fit, RequestPC, RetryPC, ReportPC, Finishes
  <2>2. pc \in PC
    BY DEF PC
  <2> QED
    BY <1>1, <2>1, <2>2, MoveGood, MoveKeeps
<1>3. \A code \in Codes : Good(Finishing(l, code)) /\ Keeps(l, Finishing(l, code))
  BY <1>1, FinishingGood, FinishingKeeps
<1>4. Good(Answer(l, "completed")) /\ Keeps(l, Answer(l, "completed"))
  BY AnswerGood, AnswerKeeps DEF Out
<1> QED
  BY <1>1, <1>2, <1>3, <1>4

LEMMA CodeNames ==
  /\ "event-version-changed" \in Codes /\ "fixture-contract-invalid" \in Codes
  /\ "fixture-transient-failure" \in Codes /\ "workflow-temporarily-unavailable" \in Codes
  /\ "workflow-terminal-failure" \in Codes /\ "workflow-timeout" \in Codes
  /\ \A code \in Codes : code # "none"
BY DEF Codes, Retryable, Terminal

LEMMA ReadEventQuiet ==
  ASSUME TypeInv, NEW w \in Workers, ReadEvent(w)
  PROVE  Quiet
<1> DEFINE l == proc[w]
<1>1. Good(l) /\ l \in Local /\ l.pc \in {"event", "reevent"}
  BY WorkerGood DEF ReadEvent
<1>2. l.stage \in {"claim", "reclaim"} /\ l.job \in Keys /\ l.n \in Number /\ l.pc # "done"
  BY <1>1 DEF Good, Fit, Knows, Lifecycle
<1>3. Good(Finishing(l, "event-version-changed"))
  BY <1>1, <1>2, FinishingGood, CodeNames
<1>4. Keeps(l, Finishing(l, "event-version-changed"))
  BY <1>1, <1>2, FinishingKeeps
<1>5. Good(Answer(l, "stale")) /\ Keeps(l, Answer(l, "stale"))
  BY <1>1, AnswerGood, AnswerKeeps DEF Out
<1>6. ASSUME l.pc = "event" PROVE Good(Goto(l, "claim"))
  <2>1. Fit(l, "claim")
    BY <1>1, <1>6 DEF Good, Fit, RequestPC, RetryPC, ReportPC, Finishes
  <2> QED
    BY <1>1, <2>1, MoveGood DEF PC
<1>7. Keeps(l, Goto(l, "claim"))
  BY <1>1, <1>2, MoveKeeps
<1>8. \E x : Good(x) /\ Keeps(l, x) /\ Become(w, x)
  BY <1>1, <1>3, <1>4, <1>5, <1>6, <1>7 DEF ReadEvent
<1> QED
  BY <1>8, WorkMoves

LEMMA RunQuiet ==
  ASSUME TypeInv, NEW w \in Workers, Run(w)
  PROVE  Quiet
<1> DEFINE l == proc[w]
<1>1. Good(l) /\ l.pc \in ReportPC
  BY WorkerGood DEF Run, ReportPC
<1>2. \E x : Good(x) /\ Keeps(l, x) /\ Become(w, x)
  BY <1>1, ReportMoves, CodeNames DEF Run
<1> QED
  BY <1>2, WorkMoves

LEMMA ReadHeadQuiet ==
  ASSUME TypeInv, NEW w \in Workers, ReadHead(w)
  PROVE  Quiet
<1> DEFINE l == proc[w]
           x == [l EXCEPT !.pc = "binding", !.head = head]
<1>1. Good(l) /\ l.pc \in ReportPC
  BY WorkerGood DEF ReadHead, ReportPC
<1>2. l \in Local /\ l.pc # "done" /\ l.stage = "complete" /\ l.job \in Keys /\ l.n \in Number
  BY <1>1, ReportMoves
<1>3. x \in Local
  BY <1>2 DEF Local, PC, TypeInv, RowsType
<1>4. /\ x.pc = "binding" /\ x.stage = l.stage /\ x.key = l.key /\ x.job = l.job
      /\ x.n = l.n /\ x.code = l.code
      /\ x.seenJob = l.seenJob /\ x.seenAttempt = l.seenAttempt
  BY <1>2 DEF Local
<1>5. \A code \in Codes : Good(Finishing(l, code)) /\ Keeps(l, Finishing(l, code))
  BY <1>1, ReportMoves
<1>6. Become(w, x) \/ \E code \in Codes : Become(w, Finishing(l, code))
  BY CodeNames DEF ReadHead
<1> HIDE DEF x, l
<1>7. Fit(x, x.pc) /\ Knows(x)
  BY <1>1, <1>2, <1>4 DEF Good, Fit, Knows, RequestPC, RetryPC, ReportPC, Finishes
<1>8. Good(x)
  BY <1>3, <1>7 DEF Good
<1>9. Keeps(l, x)
  BY <1>2, <1>4 DEF Keeps, Held
<1>10. \E y : Good(y) /\ Keeps(l, y) /\ Become(w, y)
  BY <1>5, <1>6, <1>8, <1>9
<1> QED
  BY <1>10, WorkMoves DEF l

LEMMA ReadBindingQuiet ==
  ASSUME TypeInv, NEW w \in Workers, ReadBinding(w)
  PROVE  Quiet
<1> DEFINE l == proc[w]
           r == Reading(l, "complete")
           x == [r EXCEPT !.head = l.head]
<1>1. Good(l) /\ l.pc \in ReportPC
  BY WorkerGood DEF ReadBinding, ReportPC
<1>2. l \in Local /\ l.pc # "done" /\ l.stage = "complete" /\ l.job \in Keys /\ l.n \in Number
  BY <1>1, ReportMoves
<1>3. Good(r)
  BY <1>2, ReadingGood DEF Lifecycle, Finishes
<1>4. r.job = l.job /\ r.n = l.n /\ r.stage = "complete" /\ l.head \in Nat
  BY <1>2 DEF Reading, Local
<1>5. /\ Good(Goto(l, "reload")) /\ Keeps(l, Goto(l, "reload"))
      /\ Good(Answer(l, "completed")) /\ Keeps(l, Answer(l, "completed"))
      /\ \A code \in Codes : Good(Finishing(l, code)) /\ Keeps(l, Finishing(l, code))
  BY <1>1, ReportMoves
<1>6. \/ Become(w, x) \/ Become(w, Goto(l, "reload")) \/ Become(w, Answer(l, "completed"))
      \/ \E code \in Codes : Become(w, Finishing(l, code))
  BY CodeNames DEF ReadBinding
<1>7. Good(x) /\ x.job = l.job /\ x.n = l.n
  <2> HIDE DEF r, l
  <2>1. x \in Local
    BY <1>3, <1>4 DEF Good, Local
  <2>2. /\ x.pc = r.pc /\ x.stage = r.stage /\ x.key = r.key /\ x.job = r.job
        /\ x.n = r.n /\ x.code = r.code
        /\ x.seenJob = r.seenJob /\ x.seenAttempt = r.seenAttempt
    BY <1>3 DEF Good, Local
  <2> HIDE DEF x
  <2>3. Fit(x, x.pc) /\ Knows(x)
    BY <1>3, <2>2 DEF Good, Fit, Knows, Seen
  <2> QED
    BY <1>4, <2>1, <2>2, <2>3 DEF Good
<1> HIDE DEF x, r, l
<1>8. Keeps(l, x)
  BY <1>2, <1>7 DEF Keeps, Held
<1>9. \E y : Good(y) /\ Keeps(l, y) /\ Become(w, y)
  BY <1>5, <1>6, <1>7, <1>8
<1> QED
  BY <1>9, WorkMoves DEF l

LEMMA CheckVersionQuiet ==
  ASSUME TypeInv, NEW w \in Workers, CheckVersion(w)
  PROVE  Quiet
<1> DEFINE l == proc[w]
<1>1. Good(l) /\ l.pc = "version" /\ l.pc \in ReportPC
  BY WorkerGood DEF CheckVersion, ReportPC
<1>2. Good(Goto(l, "complete"))
  <2>1. Fit(l, "complete")
    BY <1>1 DEF Good, Fit, RequestPC, RetryPC, ReportPC, Finishes
  <2> QED
    BY <1>1, <2>1, MoveGood DEF PC
<1>3. Keeps(l, Goto(l, "complete"))
  BY <1>1, ReportMoves, MoveKeeps
<1>4. /\ Good(Finishing(l, "event-version-changed"))
      /\ Keeps(l, Finishing(l, "event-version-changed"))
  BY <1>1, ReportMoves, CodeNames
<1>5. \E x : Good(x) /\ Keeps(l, x) /\ Become(w, x)
  BY <1>2, <1>3, <1>4 DEF CheckVersion
<1> QED
  BY <1>5, WorkMoves

LEMMA ReadFirstQuiet ==
  ASSUME TypeInv, NEW p \in Workers \cup Finalizers, ReadFirst(p)
  PROVE  Quiet
<1> DEFINE l == proc[p]
           x == [l EXCEPT !.pc = "readAttempt", !.seenJob = job[l.job]]
           y == [l EXCEPT !.pc = "readJob", !.seenAttempt = attempt[l.job][l.n]]
           s == [l EXCEPT !.seenJob = job[l.job]]
<1>1. Good(l) /\ l.pc = "read"
  BY WorkerGood DEF ReadFirst
<1>2. l \in Local /\ l.stage \in Lifecycle /\ l.job \in Keys /\ l.n \in Number
  BY <1>1 DEF Good, Fit, Knows
<1>3. /\ job[l.job] \in JobRow /\ CodeFits(job[l.job])
      /\ attempt[l.job][l.n] \in AttemptRow /\ CodeFits(attempt[l.job][l.n])
  BY <1>2, RowsRead
<1>4. Fit(s, "readAttempt")
  <2>1. s.stage = l.stage /\ s.code = l.code
    BY <1>2 DEF Local
  <2> QED
    BY <1>1, <1>2, <2>1 DEF Good, Fit, RequestPC, RetryPC, ReportPC
<1>5. Good(x)
  BY <1>1, <1>3, <1>4, SeeJobGood DEF PC
<1>6. Good(y)
  BY <1>1, <1>3, SeeAttemptGood
<1>7. Keeps(l, x) /\ Keeps(l, y)
  BY <1>1, <1>2 DEF Keeps, Held, Local
<1>8. \E z : Good(z) /\ Keeps(l, z) /\ Become(p, z)
  BY <1>5, <1>6, <1>7 DEF ReadFirst
<1> QED
  BY <1>8, WorkMoves

LEMMA ReadSecondQuiet ==
  ASSUME TypeInv, NEW p \in Workers \cup Finalizers, ReadSecond(p)
  PROVE  Quiet
<1> DEFINE l == proc[p]
           x == [l EXCEPT !.seenJob = job[l.job]]
           y == [l EXCEPT !.seenAttempt = attempt[l.job][l.n]]
<1>1. Good(l) /\ l.pc \in {"readJob", "readAttempt"}
  BY WorkerGood DEF ReadSecond
<1>2. l \in Local /\ l.stage \in Lifecycle /\ l.job \in Keys /\ l.n \in Number
  BY <1>1 DEF Good, Fit, Knows
<1>3. /\ job[l.job] \in JobRow /\ CodeFits(job[l.job])
      /\ attempt[l.job][l.n] \in AttemptRow /\ CodeFits(attempt[l.job][l.n])
  BY <1>2, RowsRead
<1>4. ASSUME NEW z, z \in Local, z.pc = l.pc, z.stage = l.stage, z.job = l.job, z.n = l.n,
             z.code = l.code, CodeFits(z.seenJob), CodeFits(z.seenAttempt)
      PROVE  Good(Judged(z)) /\ Keeps(l, Judged(z))
  <2>1. Fit(z, z.pc) /\ Knows(z)
    BY <1>1, <1>2, <1>4 DEF Good, Fit, Knows, RequestPC, RetryPC, ReportPC
  <2>2. Good(z)
    BY <1>4, <2>1 DEF Good
  <2>3. Good(Judged(z)) /\ Keeps(z, Judged(z))
    BY <1>1, <1>4, <2>2, JudgedGood, JudgedKeeps
  <2> QED
    BY <1>4, <2>3 DEF Keeps, Held
<1>5. Good(Judged(x)) /\ Keeps(l, Judged(x))
  <2>1. x \in Local
    BY <1>2, <1>3 DEF Local
  <2>2. /\ x.pc = l.pc /\ x.stage = l.stage /\ x.job = l.job /\ x.n = l.n /\ x.code = l.code
        /\ x.seenJob = job[l.job] /\ x.seenAttempt = l.seenAttempt
    BY <1>2 DEF Local
  <2>3. CodeFits(l.seenAttempt)
    BY <1>1 DEF Good, Knows
  <2> HIDE DEF x, l
  <2> QED
    BY <1>3, <1>4, <2>1, <2>2, <2>3
<1>6. Good(Judged(y)) /\ Keeps(l, Judged(y))
  <2>1. y \in Local
    BY <1>2, <1>3 DEF Local
  <2>2. /\ y.pc = l.pc /\ y.stage = l.stage /\ y.job = l.job /\ y.n = l.n /\ y.code = l.code
        /\ y.seenAttempt = attempt[l.job][l.n] /\ y.seenJob = l.seenJob
    BY <1>2 DEF Local
  <2>3. CodeFits(l.seenJob)
    BY <1>1 DEF Good, Knows
  <2> HIDE DEF y, l
  <2> QED
    BY <1>3, <1>4, <2>1, <2>2, <2>3
<1>7. \E z : Good(z) /\ Keeps(l, z) /\ Become(p, z)
  BY <1>5, <1>6 DEF ReadSecond
<1> QED
  BY <1>7, WorkMoves

LEMMA ReadMarkerQuiet ==
  ASSUME TypeInv, NEW p \in Workers \cup Finalizers, ReadMarker(p)
  PROVE  Quiet
<1> DEFINE l == proc[p]
<1>1. Good(l) /\ l \in Local /\ l.pc \in {"marker", "remarker"}
  BY WorkerGood DEF ReadMarker
<1>2. /\ Good(Answer(l, "corrupt")) /\ Keeps(l, Answer(l, "corrupt"))
      /\ Good(Answer(l, "stale")) /\ Keeps(l, Answer(l, "stale"))
  BY <1>1, AnswerGood, AnswerKeeps DEF Out
<1>3. ASSUME l.pc = "marker" PROVE Good(Goto(l, "finish"))
  <2>1. Fit(l, "finish")
    BY <1>1, <1>3 DEF Good, Fit, RequestPC, RetryPC, ReportPC
  <2> QED
    BY <1>1, <2>1, MoveGood DEF PC
<1>4. Keeps(l, Goto(l, "finish"))
  BY <1>1, MoveKeeps
<1>5. \E x : Good(x) /\ Keeps(l, x) /\ Become(p, x)
  BY <1>1, <1>2, <1>3, <1>4 DEF ReadMarker
<1> QED
  BY <1>5, WorkMoves

LEMMA EndQuiet ==
  ASSUME TypeInv, NEW p \in Callers, Return(p) \/ Abort(p)
  PROVE  Quiet
<1>1. Become(p, Idle) /\ Keeps(proc[p], Idle)
  BY DEF Return, Abort, Keeps, Held, Idle
<1> QED
  BY <1>1, IdleGood, Moves DEF TypeInv

-----------------------------------------------------------------------------
(* Steps that write rows. *)

\* A step that writes no row of the jobs.
LEMMA RowsStay ==
  ASSUME TypeInv, UNCHANGED rows, current' \in BOOLEAN
  PROVE  RowsType' /\ CodesFit'
BY DEF TypeInv, RowsType, CodesFit, rows

LEMMA PutJob ==
  ASSUME TypeInv, NEW k \in Keys, NEW j \in JobRow, CodeFits(j),
         job' = [job EXCEPT ![k] = j]
  PROVE  job' \in [Keys -> JobRow] /\ \A i \in Keys : CodeFits(job'[i])
<1>1. \A i \in Keys : job'[i] = IF i = k THEN j ELSE job[i]
  BY DEF TypeInv, RowsType
<1> QED
  BY <1>1 DEF TypeInv, RowsType, CodesFit

LEMMA PutAttempt ==
  ASSUME TypeInv, NEW k \in Keys, NEW n \in Number, NEW a \in AttemptRow, CodeFits(a),
         attempt' = [attempt EXCEPT ![k][n] = a]
  PROVE  /\ attempt' \in [Keys -> [Number -> AttemptRow]]
         /\ \A i \in Keys, m \in Number : CodeFits(attempt'[i][m])
<1>1. \A i \in Keys, m \in Number :
        attempt'[i][m] = IF i = k /\ m = n THEN a ELSE attempt[i][m]
  BY DEF TypeInv, RowsType
<1> QED
  BY <1>1 DEF TypeInv, RowsType, CodesFit

\* A job and its attempt are queued, with their receipt, lock and outbox record.
LEMMA QueueTypes ==
  ASSUME TypeInv, NEW k \in Keys, NEW n \in Number, NEW j \in JobRow, CodeFits(j),
         NEW key \in Keys, NEW r \in Receipt,
         receipt' = [receipt EXCEPT ![key] = r],
         marker' = [kind |-> "active", job |-> k, n |-> n],
         job' = [job EXCEPT ![k] = j],
         attempt' = [attempt EXCEPT ![k][n] = QueuedAttempt],
         outbox' = [outbox EXCEPT ![k][n] = "pending"],
         UNCHANGED <<current, binding, head>>
  PROVE  RowsType' /\ CodesFit'
<1>1. QueuedAttempt \in AttemptRow /\ CodeFits(QueuedAttempt)
  BY DEF QueuedAttempt, AttemptRow, CodeFits, Status, Active, Failed
<1>2. marker' \in Marker
  <2>1. n \in 0..MaxAttempts
    BY AttemptsAssumption DEF Number
  <2> QED
    BY <2>1 DEF Marker
<1>3. receipt' \in [Keys -> Receipt] /\ outbox' \in [Keys -> [Number -> {"none", "pending"}]]
  BY DEF TypeInv, RowsType
<1>4. current' \in BOOLEAN /\ binding' \in [Keys -> Nat] /\ head' \in Nat
  BY DEF TypeInv, RowsType
<1>5. job' \in [Keys -> JobRow] /\ \A i \in Keys : CodeFits(job'[i])
  BY PutJob
<1>6. /\ attempt' \in [Keys -> [Number -> AttemptRow]]
      /\ \A i \in Keys, m \in Number : CodeFits(attempt'[i][m])
  BY <1>1, PutAttempt
<1> QED
  BY <1>2, <1>3, <1>4, <1>5, <1>6 DEF RowsType, CodesFit

\* A receipt that a request writes over a job.
LEMMA ReceiptTypes ==
  ASSUME TypeInv, NEW key \in Keys, NEW r \in Receipt,
         receipt' = [receipt EXCEPT ![key] = r],
         UNCHANGED <<current, marker, job, attempt, outbox, binding, head>>
  PROVE  RowsType' /\ CodesFit'
BY DEF TypeInv, RowsType, CodesFit

LEMMA CreateSafe ==
  ASSUME TypeInv, NEW c \in Clients, Create(c)
  PROVE  RowsType' /\ CodesFit' /\ Quiet
<1> DEFINE l == proc[c]
<1>1. Good(l) /\ l.pc = "create" /\ l.key \in Keys
  BY ClientGood DEF Create, Good, Fit, RequestPC
<1>2. CASE Creatable(l)
  <2>1. 1 \in Number /\ 1 \in 0..MaxAttempts
    BY AttemptsAssumption DEF Number
  <2>2. Queued(1) \in JobRow /\ CodeFits(Queued(1))
    BY <2>1 DEF Queued, JobRow, CodeFits, Status, Active, Failed
  <2>3. [action |-> "create", job |-> l.key, exp |-> 0] \in Receipt
    BY <1>1 DEF Receipt
  <2>4. /\ receipt' = [receipt EXCEPT ![l.key] = [action |-> "create", job |-> l.key, exp |-> 0]]
        /\ marker' = [kind |-> "active", job |-> l.key, n |-> 1]
        /\ job' = [job EXCEPT ![l.key] = Queued(1)]
        /\ attempt' = [attempt EXCEPT ![l.key][1] = QueuedAttempt]
        /\ outbox' = [outbox EXCEPT ![l.key][1] = "pending"]
        /\ UNCHANGED <<current, binding, head>>
        /\ Become(c, Answer(l, "created"))
    BY <1>2 DEF Create
  <2>5. Good(Answer(l, "created"))
    BY <1>1, AnswerGood DEF Out
  <2> QED
    BY <1>1, <2>1, <2>2, <2>3, <2>4, <2>5, QueueTypes, ClientMoves
<1>3. CASE ~ Creatable(l)
  <2>1. UNCHANGED rows /\ UNCHANGED current /\ Become(c, Goto(l, "rereceipt"))
    BY <1>3 DEF Create, rows
  <2>2. Good(Goto(l, "rereceipt"))
    BY <1>1, RequestMoves DEF RequestPC
  <2>3. current' \in BOOLEAN
    BY <2>1 DEF TypeInv, RowsType
  <2> QED
    BY <2>1, <2>2, <2>3, RowsStay, ClientMoves
<1> QED
  BY <1>2, <1>3

LEMMA RetrySafe ==
  ASSUME TypeInv, NEW c \in Clients, Retry(c)
  PROVE  RowsType' /\ CodesFit' /\ Quiet
<1> DEFINE l == proc[c]
           n == l.seenJob.count + 1
<1>1. /\ Good(l) /\ l \in Local /\ l.pc = "retry" /\ l.key \in Keys /\ l.job \in Keys
      /\ l.seenJob.count < MaxAttempts
  BY ClientGood DEF Retry, Good, Fit, Knows, RetryPC
<1>2. l.seenJob \in JobRow /\ l.exp \in Nat
  BY <1>1 DEF Local
<1>3. CASE Retriable(l)
  <2>1. n \in Number /\ n \in 0..MaxAttempts
    BY <1>1, <1>2, AttemptsAssumption DEF Number, JobRow
  <2>2. Requeued(l.seenJob, n) \in JobRow /\ CodeFits(Requeued(l.seenJob, n))
    <3>1. l.seenJob.ver + 1 \in Nat
      BY <1>2 DEF JobRow
    <3> QED
      BY <2>1, <3>1 DEF Requeued, Queued, JobRow, CodeFits, Status, Active, Failed
  <2>3. [action |-> "retry", job |-> l.job, exp |-> l.exp] \in Receipt
    BY <1>1, <1>2 DEF Receipt
  <2>4. /\ receipt' = [receipt EXCEPT ![l.key] = [action |-> "retry", job |-> l.job, exp |-> l.exp]]
        /\ marker' = [kind |-> "active", job |-> l.job, n |-> n]
        /\ job' = [job EXCEPT ![l.job] = Requeued(l.seenJob, n)]
        /\ attempt' = [attempt EXCEPT ![l.job][n] = QueuedAttempt]
        /\ outbox' = [outbox EXCEPT ![l.job][n] = "pending"]
        /\ UNCHANGED <<current, binding, head>>
        /\ Become(c, Answer(l, "retried"))
    BY <1>3 DEF Retry
  <2>5. Good(Answer(l, "retried"))
    BY <1>1, AnswerGood DEF Out
  <2> HIDE DEF n
  <2> QED
    BY <1>1, <2>1, <2>2, <2>3, <2>4, <2>5, QueueTypes, ClientMoves
<1>4. CASE ~ Retriable(l)
  <2>1. UNCHANGED rows /\ UNCHANGED current /\ Become(c, Goto(l, "rereceipt"))
    BY <1>4 DEF Retry, rows
  <2>2. Good(Goto(l, "rereceipt"))
    BY <1>1, RequestMoves DEF RequestPC, RetryPC
  <2>3. current' \in BOOLEAN
    BY <2>1 DEF TypeInv, RowsType
  <2> QED
    BY <2>1, <2>2, <2>3, RowsStay, ClientMoves
<1> QED
  BY <1>3, <1>4

LEMMA ConvergeSafe ==
  ASSUME TypeInv, NEW c \in Clients, Converge(c) \/ Adopt(c)
  PROVE  RowsType' /\ CodesFit' /\ Quiet
<1> DEFINE l == proc[c]
<1>1. Good(l) /\ l \in Local /\ l.pc \in {"converge", "adopt"} /\ l.key \in Keys
  BY ClientGood DEF Converge, Adopt, Good, Fit, RequestPC, RetryPC
<1>2. l.job \in Keys \cup {NoKey} /\ l.exp \in Nat /\ 0 \in Nat
  BY <1>1 DEF Local
<1>3. \A out \in Out : Good(Answer(l, out))
  BY <1>1, AnswerGood
<1>4. "converged" \in Out /\ "adopted" \in Out
  BY DEF Out
<1>5. l.pc = "converge" => Good(Goto(l, "raced"))
  BY <1>1, RequestMoves DEF RequestPC
<1>6. l.pc = "adopt" => Good(Goto(l, "readopt"))
  <2>1. l.pc = "adopt" => l.stage = "retry"
    BY <1>1 DEF Good, Fit, RetryPC
  <2> QED
    BY <1>1, <2>1, RetryMoves DEF RetryPC
<1>7. \E x : Good(x) /\ Become(c, x)
  BY <1>3, <1>4, <1>5, <1>6 DEF Converge, Adopt
<1>8. UNCHANGED <<current, marker, job, attempt, outbox, binding, head>>
  BY DEF Converge, Adopt
<1>9. \/ UNCHANGED receipt
      \/ receipt' = [receipt EXCEPT ![l.key] = [action |-> "create", job |-> l.job, exp |-> 0]]
      \/ receipt' = [receipt EXCEPT ![l.key] = [action |-> "retry", job |-> l.job, exp |-> l.exp]]
  BY DEF Converge, Adopt
<1>10. /\ [action |-> "create", job |-> l.job, exp |-> 0] \in Receipt
       /\ [action |-> "retry", job |-> l.job, exp |-> l.exp] \in Receipt
  BY <1>2 DEF Receipt
<1>11. RowsType' /\ CodesFit'
  <2>1. CASE UNCHANGED receipt
    <3>1. UNCHANGED rows /\ current' \in BOOLEAN
      BY <1>8, <2>1 DEF rows, TypeInv, RowsType
    <3> QED
      BY <3>1, RowsStay
  <2> QED
    BY <1>1, <1>8, <1>9, <1>10, <2>1, ReceiptTypes
<1> QED
  BY <1>7, <1>11, ClientMoves

\* A lifecycle call moves a job and an attempt on from what it saw of them.
LEMMA MoveTypes ==
  ASSUME TypeInv, NEW l \in Local, l.job \in Keys, l.n \in Number,
         NEW status \in Status, NEW jobCode \in Codes \cup {"none"},
         NEW attemptCode \in Codes \cup {"none"},
         jobCode # "none" <=> status \in Failed,
         attemptCode # "none" <=> status \in Failed,
         job' = [job EXCEPT ![l.job] =
                   [l.seenJob EXCEPT !.status = status, !.ver = @ + 1, !.code = jobCode]],
         attempt' = [attempt EXCEPT ![l.job][l.n] =
                   [l.seenAttempt EXCEPT !.status = status, !.ver = @ + 1, !.code = attemptCode]]
  PROVE  /\ job' \in [Keys -> JobRow] /\ \A i \in Keys : CodeFits(job'[i])
         /\ attempt' \in [Keys -> [Number -> AttemptRow]]
         /\ \A i \in Keys, m \in Number : CodeFits(attempt'[i][m])
<1> DEFINE j == [l.seenJob EXCEPT !.status = status, !.ver = @ + 1, !.code = jobCode]
           a == [l.seenAttempt EXCEPT !.status = status, !.ver = @ + 1, !.code = attemptCode]
<1>1. l.seenJob \in JobRow /\ l.seenAttempt \in AttemptRow
  BY DEF Local
<1>2. j \in JobRow /\ CodeFits(j)
  <2> DEFINE b == l.seenJob
  <2>1. b \in JobRow /\ b.ver + 1 \in Nat
    BY <1>1 DEF JobRow
  <2>2. j = [b EXCEPT !.status = status, !.ver = b.ver + 1, !.code = jobCode]
    BY <2>1 DEF JobRow
  <2> HIDE DEF b, j
  <2>3. j \in JobRow
    BY <2>1, <2>2 DEF JobRow
  <2>4. j.code = jobCode /\ j.status = status
    BY <2>1, <2>2 DEF JobRow
  <2> QED
    BY <2>3, <2>4 DEF CodeFits
<1>3. a \in AttemptRow /\ CodeFits(a)
  <2> DEFINE b == l.seenAttempt
  <2>1. b \in AttemptRow /\ b.ver + 1 \in Nat
    BY <1>1 DEF AttemptRow
  <2>2. a = [b EXCEPT !.status = status, !.ver = b.ver + 1, !.code = attemptCode]
    BY <2>1 DEF AttemptRow
  <2> HIDE DEF b, a
  <2>3. a \in AttemptRow
    BY <2>1, <2>2 DEF AttemptRow
  <2>4. a.code = attemptCode /\ a.status = status
    BY <2>1, <2>2 DEF AttemptRow
  <2> QED
    BY <2>3, <2>4 DEF CodeFits
<1>4. job' = [job EXCEPT ![l.job] = j] /\ attempt' = [attempt EXCEPT ![l.job][l.n] = a]
  OBVIOUS
<1> HIDE DEF j, a
<1>5. job' \in [Keys -> JobRow] /\ \A i \in Keys : CodeFits(job'[i])
  BY <1>2, <1>4, PutJob
<1>6. /\ attempt' \in [Keys -> [Number -> AttemptRow]]
      /\ \A i \in Keys, m \in Number : CodeFits(attempt'[i][m])
  BY <1>3, <1>4, PutAttempt
<1> QED
  BY <1>5, <1>6

LEMMA SettleTypes ==
  ASSUME TypeInv, NEW l \in Local, l.job \in Keys, l.n \in Number,
         NEW status \in Ended, NEW code \in Codes \cup {"none"},
         code # "none" <=> status \in Failed,
         Settle(l, status, code),
         UNCHANGED <<current, receipt, outbox>>,
         binding' \in [Keys -> Nat], head' \in Nat
  PROVE  RowsType' /\ CodesFit'
<1>1. status \in Status
  BY DEF Status
<1>2. /\ job' \in [Keys -> JobRow] /\ \A i \in Keys : CodeFits(job'[i])
      /\ attempt' \in [Keys -> [Number -> AttemptRow]]
      /\ \A i \in Keys, m \in Number : CodeFits(attempt'[i][m])
  BY <1>1, MoveTypes DEF Settle
<1>3. marker' \in Marker
  BY DEF Settle, Marker, TypeInv, RowsType
<1>4. /\ current' \in BOOLEAN /\ receipt' \in [Keys -> Receipt]
      /\ outbox' \in [Keys -> [Number -> {"none", "pending"}]]
  BY DEF TypeInv, RowsType
<1> QED
  BY <1>2, <1>3, <1>4 DEF RowsType, CodesFit

LEMMA CompleteSafe ==
  ASSUME TypeInv, NEW w \in Workers, Complete(w)
  PROVE  RowsType' /\ CodesFit' /\ Quiet
<1> DEFINE l == proc[w]
<1>1. Good(l) /\ l.pc \in ReportPC
  BY WorkerGood DEF Complete, ReportPC
<1>2. /\ l \in Local /\ l.job \in Keys /\ l.n \in Number
      /\ Good(Goto(l, "lost")) /\ Keeps(l, Goto(l, "lost"))
      /\ Good(Answer(l, "completed")) /\ Keeps(l, Answer(l, "completed"))
      /\ \A code \in Codes : Good(Finishing(l, code)) /\ Keeps(l, Finishing(l, code))
  BY <1>1, ReportMoves
<1>3. \E x : Good(x) /\ Keeps(l, x) /\ Become(w, x)
  BY <1>2, CodeNames DEF Complete
<1>4. Quiet
  BY <1>3, WorkMoves
<1>5. CASE Completable(l)
  <2>1. /\ Settle(l, "completed", "none")
        /\ binding' = [binding EXCEPT ![l.job] = l.head + 1] /\ head' = l.head + 1
        /\ UNCHANGED <<current, receipt, outbox>>
    BY <1>5 DEF Complete
  <2>2. l.head + 1 \in Nat
    BY <1>2 DEF Local
  <2>3. binding' \in [Keys -> Nat] /\ head' \in Nat
    BY <2>1, <2>2 DEF TypeInv, RowsType
  <2>4. "completed" \in Ended /\ "completed" \notin Failed
    BY DEF Ended, Failed
  <2> QED
    BY <1>2, <1>4, <2>1, <2>3, <2>4, SettleTypes
<1>6. CASE ~ Completable(l)
  <2>1. UNCHANGED rows /\ current' \in BOOLEAN
    BY <1>6 DEF Complete, rows, TypeInv, RowsType
  <2> QED
    BY <1>4, <2>1, RowsStay
<1> QED
  BY <1>5, <1>6

LEMMA FinishSafe ==
  ASSUME TypeInv, NEW p \in Workers \cup Finalizers, Finish(p)
  PROVE  RowsType' /\ CodesFit' /\ Quiet
<1> DEFINE l == proc[p]
<1>1. Good(l) /\ l \in Local /\ l.pc = "finish"
  BY WorkerGood DEF Finish
<1>2. l.stage = "finish" /\ l.job \in Keys /\ l.n \in Number /\ l.code \in Codes
  BY <1>1 DEF Good, Fit, Knows, Lifecycle, Finishes
<1>3. CASE Fenced(l) /\ Mine(marker, l)
  <2>1. /\ Settle(l, StatusOf(l.code), l.code) /\ Become(p, Answer(l, "finished"))
        /\ UNCHANGED <<current, receipt, outbox, binding, head>>
    BY <1>3 DEF Finish
  <2>2. /\ StatusOf(l.code) \in Ended /\ StatusOf(l.code) \in Failed
        /\ l.code # "none"
    BY <1>2, CodeNames DEF StatusOf, Ended, Failed
  <2>3. binding' \in [Keys -> Nat] /\ head' \in Nat
    BY <2>1 DEF TypeInv, RowsType
  <2>4. RowsType' /\ CodesFit'
    BY <1>1, <1>2, <2>1, <2>2, <2>3, SettleTypes
  <2>5. Good(Answer(l, "finished")) /\ Keeps(l, Answer(l, "finished"))
    BY <1>1, AnswerGood, AnswerKeeps DEF Out
  <2> QED
    BY <2>1, <2>4, <2>5, WorkMoves
<1>4. CASE ~ (Fenced(l) /\ Mine(marker, l))
  <2>1. /\ UNCHANGED rows /\ UNCHANGED current /\ Become(p, Reading(l, "refinish"))
    BY <1>4 DEF Finish, rows
  <2>2. Good(Reading(l, "refinish"))
    BY <1>1, <1>2, ReadingGood DEF Lifecycle
  <2>3. Keeps(l, Reading(l, "refinish"))
    BY <1>1 DEF Keeps, Held, Reading, Local
  <2>4. current' \in BOOLEAN
    BY <2>1 DEF TypeInv, RowsType
  <2> QED
    BY <2>1, <2>2, <2>3, <2>4, RowsStay, WorkMoves
<1> QED
  BY <1>3, <1>4

LEMMA LocalsMove ==
  ASSUME LocalsGood, NEW p \in Callers, NEW x, Good(x), Become(p, x)
  PROVE  LocalsGood'
<1>1. proc' \in [Callers -> Local]
  BY DEF LocalsGood, Become, Good
<1>2. \A q \in Callers : Good(proc'[q])
  BY DEF LocalsGood, Become
<1> QED
  BY <1>1, <1>2 DEF LocalsGood

LEMMA ClaimSafe ==
  ASSUME TypeInv, NEW w \in Workers, Claim(w)
  PROVE  RowsType' /\ CodesFit' /\ LocalsGood'
<1> DEFINE l == proc[w]
<1>1. w \in Callers /\ Good(l) /\ l \in Local /\ l.pc = "claim"
  BY WorkerGood DEF Claim
<1>2. l.stage = "claim" /\ Seen(l, "queued") /\ l.job \in Keys /\ l.n \in Number
  BY <1>1 DEF Good, Fit, Knows, Lifecycle
<1>3. CASE Claimable(l)
  <2>1. /\ job' = [job EXCEPT ![l.job] =
                     [l.seenJob EXCEPT !.status = "in_progress", !.ver = @ + 1]]
        /\ attempt' = [attempt EXCEPT ![l.job][l.n] =
                         [l.seenAttempt EXCEPT !.status = "in_progress", !.ver = @ + 1]]
        /\ Become(w, Goto(Reading(l, "complete"), "run"))
        /\ UNCHANGED <<current, receipt, marker, outbox, binding, head>>
    BY <1>3 DEF Claim
  <2>2. /\ l.seenJob \in JobRow /\ l.seenAttempt \in AttemptRow
        /\ l.seenJob.code = "none" /\ l.seenAttempt.code = "none"
    BY <1>1, <1>2 DEF Good, Knows, Seen, CodeFits, Failed, Local
  <2>3. /\ [l.seenJob EXCEPT !.status = "in_progress", !.ver = @ + 1]
            = [l.seenJob EXCEPT !.status = "in_progress", !.ver = @ + 1, !.code = "none"]
        /\ [l.seenAttempt EXCEPT !.status = "in_progress", !.ver = @ + 1]
            = [l.seenAttempt EXCEPT !.status = "in_progress", !.ver = @ + 1, !.code = "none"]
    BY <2>2 DEF JobRow, AttemptRow
  <2>4. "in_progress" \in Status /\ "in_progress" \notin Failed
    BY DEF Status, Active, Failed
  <2>5. /\ job' \in [Keys -> JobRow] /\ \A i \in Keys : CodeFits(job'[i])
        /\ attempt' \in [Keys -> [Number -> AttemptRow]]
        /\ \A i \in Keys, m \in Number : CodeFits(attempt'[i][m])
    BY <1>1, <1>2, <2>1, <2>3, <2>4, MoveTypes
  <2>6. RowsType' /\ CodesFit'
    BY <2>1, <2>5 DEF TypeInv, RowsType, CodesFit
  <2>7. Good(Goto(Reading(l, "complete"), "run"))
    <3> DEFINE r == Reading(l, "complete")
    <3>1. Good(r) /\ r.stage = "complete"
      BY <1>1, <1>2, ReadingGood DEF Lifecycle, Finishes, Reading, Local
    <3> HIDE DEF r
    <3>2. Fit(r, "run")
      BY <3>1 DEF Fit, RequestPC, RetryPC, ReportPC, Finishes
    <3>3. Good(Goto(r, "run"))
      BY <3>1, <3>2, MoveGood DEF PC
    <3> QED
      BY <3>3 DEF r
  <2> QED
    BY <1>1, <2>1, <2>6, <2>7, LocalsMove DEF TypeInv
<1>4. CASE ~ Claimable(l)
  <2>1. UNCHANGED rows /\ UNCHANGED current /\ Become(w, Reading(l, "reclaim"))
    BY <1>4 DEF Claim, rows
  <2>2. Good(Reading(l, "reclaim"))
    BY <1>1, <1>2, ReadingGood DEF Lifecycle, Finishes
  <2>3. current' \in BOOLEAN
    BY <2>1 DEF TypeInv, RowsType
  <2> QED
    BY <1>1, <2>1, <2>2, <2>3, RowsStay, LocalsMove DEF TypeInv
<1> QED
  BY <1>3, <1>4

-----------------------------------------------------------------------------
(* Every step either writes no row, and nobody claims, or is one of the    *)
(* transactions.                                                           *)

LEMMA ReadsWriteNothing ==
  /\ \A c \in Callers : ReadReceipt(c) \/ ReadPointer(c) \/ Lookup(c) \/ ReadWinner(c)
                        \/ RereadPointer(c) \/ ReadRecords(c) \/ ReadRaced(c) \/ ReadJob(c)
                        \/ ReadLatest(c) \/ Readopt(c) => UNCHANGED <<current, rows>>
  /\ \A c \in Callers : ReadEvent(c) \/ Run(c) \/ ReadHead(c) \/ ReadBinding(c)
                        \/ CheckVersion(c) \/ ReadFirst(c) \/ ReadSecond(c) \/ ReadMarker(c)
                        \/ Return(c) \/ Abort(c) => UNCHANGED <<current, rows>>
BY DEF ReadReceipt, ReadPointer, Lookup, ReadWinner, RereadPointer, ReadRecords, ReadRaced,
       ReadJob, ReadLatest, Readopt, ReadEvent, Run, ReadHead, ReadBinding, CheckVersion,
       ReadFirst, ReadSecond, ReadMarker, Return, Abort

Still == UNCHANGED rows /\ current' \in BOOLEAN /\ Quiet
ClientWrites == \E c \in Clients : Create(c) \/ Retry(c) \/ Converge(c) \/ Adopt(c)
Ends == \/ \E w \in Workers : Complete(w)
        \/ \E p \in Workers \cup Finalizers : Finish(p)
Claims == \E w \in Workers : Claim(w)

LEMMA StillStays ==
  ASSUME TypeInv, UNCHANGED <<current, rows>>, Quiet
  PROVE  Still
BY DEF Still, TypeInv, RowsType

LEMMA IdleLocalsQuiet ==
  ASSUME TypeInv, UNCHANGED proc
  PROVE  Quiet
<1>1. LocalsGood'
  BY DEF TypeInv, LocalsGood
<1> QED
  BY <1>1 DEF Quiet, Keeps

LEMMA ClientStepCases ==
  ASSUME TypeInv, NEW c \in Clients, ClientStep(c)
  PROVE  Still \/ ClientWrites
<1>0. c \in Callers
  BY ClientsApart
<1>1. CASE \/ Lookup(c) \/ ReadReceipt(c) \/ RereadPointer(c)
           \/ ReadRecords(c) \/ ReadRaced(c) \/ Readopt(c)
  BY <1>0, <1>1, RequestQuiet, ReadsWriteNothing, StillStays
<1>2. CASE ReadPointer(c)
  BY <1>0, <1>2, PointerQuiet, ReadsWriteNothing, StillStays
<1>3. CASE ReadWinner(c)
  BY <1>0, <1>3, WinnerQuiet, ReadsWriteNothing, StillStays
<1>4. CASE ReadJob(c) \/ ReadLatest(c)
  BY <1>0, <1>4, RetryReadQuiet, ReadsWriteNothing, StillStays
<1>5. CASE Create(c) \/ Retry(c) \/ Converge(c) \/ Adopt(c)
  BY <1>5 DEF ClientWrites
<1> QED
  BY <1>1, <1>2, <1>3, <1>4, <1>5 DEF ClientStep

LEMMA WorkerStepCases ==
  ASSUME TypeInv, NEW w \in Workers, WorkerStep(w)
  PROVE  Still \/ Claims \/ Ends
<1>0. w \in Callers
  BY DEF Callers
<1>1. CASE ReadEvent(w)
  BY <1>0, <1>1, ReadEventQuiet, ReadsWriteNothing, StillStays
<1>2. CASE Run(w)
  BY <1>0, <1>2, RunQuiet, ReadsWriteNothing, StillStays
<1>3. CASE ReadHead(w)
  BY <1>0, <1>3, ReadHeadQuiet, ReadsWriteNothing, StillStays
<1>4. CASE ReadBinding(w)
  BY <1>0, <1>4, ReadBindingQuiet, ReadsWriteNothing, StillStays
<1>5. CASE CheckVersion(w)
  BY <1>0, <1>5, CheckVersionQuiet, ReadsWriteNothing, StillStays
<1>6. CASE Claim(w) \/ Complete(w)
  BY <1>6 DEF Claims, Ends
<1> QED
  BY <1>1, <1>2, <1>3, <1>4, <1>5, <1>6 DEF WorkerStep

LEMMA FinishStepCases ==
  ASSUME TypeInv, NEW p \in Workers \cup Finalizers, FinishStep(p)
  PROVE  Still \/ Ends
<1>0. p \in Callers
  BY DEF Callers
<1>1. CASE ReadFirst(p)
  BY <1>0, <1>1, ReadFirstQuiet, ReadsWriteNothing, StillStays
<1>2. CASE ReadSecond(p)
  BY <1>0, <1>2, ReadSecondQuiet, ReadsWriteNothing, StillStays
<1>3. CASE ReadMarker(p)
  BY <1>0, <1>3, ReadMarkerQuiet, ReadsWriteNothing, StillStays
<1>4. CASE Finish(p)
  BY <1>4 DEF Ends
<1> QED
  BY <1>1, <1>2, <1>3, <1>4 DEF FinishStep

LEMMA StepCases ==
  ASSUME TypeInv, [Next]_vars
  PROVE  Still \/ ForeignReport \/ ClientWrites \/ Claims \/ Ends
<1>1. ASSUME NEW c \in Clients,
             \/ \E k \in CreateKeys : StartCreate(c, k)
             \/ \E k, j \in Keys : \E v \in 1..job[j].ver : StartRetry(c, k, j, v)
      PROVE  Still
  <2>1. Quiet
    BY <1>1, KeysAssumption, StartRequestQuiet
  <2>2. UNCHANGED <<current, rows>>
    BY <1>1 DEF StartCreate, StartRetry
  <2> QED
    BY <2>1, <2>2, StillStays
<1>2. ASSUME NEW c \in Clients, ClientStep(c) PROVE Still \/ ClientWrites
  BY <1>2, ClientStepCases
<1>3. ASSUME NEW w \in Workers, NEW k \in Keys, NEW n \in Number, StartWork(w, k, n)
      PROVE  Still
  <2>1. UNCHANGED <<current, rows>>
    BY <1>3 DEF StartWork
  <2> QED
    BY <1>3, <2>1, StartWorkQuiet, StillStays
<1>4. ASSUME NEW w \in Workers, WorkerStep(w) PROVE Still \/ Claims \/ Ends
  BY <1>4, WorkerStepCases
<1>5. ASSUME NEW p \in Workers \cup Finalizers, FinishStep(p) PROVE Still \/ Ends
  BY <1>5, FinishStepCases
<1>6. ASSUME NEW f \in Finalizers, NEW k \in Keys, NEW n \in Number,
             NEW code \in {"workflow-timeout", "workflow-temporarily-unavailable"},
             StartFinish(f, k, n, code)
      PROVE  Still
  <2>1. UNCHANGED <<current, rows>>
    BY <1>6 DEF StartFinish
  <2>2. code \in Codes
    BY CodeNames
  <2> QED
    BY <1>6, <2>1, <2>2, StartFinishQuiet, StillStays
<1>7. ASSUME NEW p \in Callers, Return(p) \/ Abort(p) PROVE Still
  BY <1>7, EndQuiet, ReadsWriteNothing, StillStays
<1>8. CASE EventMoves
  BY <1>8, IdleLocalsQuiet DEF EventMoves, Still
<1>9. CASE UNCHANGED vars
  BY <1>9, IdleLocalsQuiet DEF vars, Still, TypeInv, RowsType
<1> QED
  BY <1>1, <1>2, <1>3, <1>4, <1>5, <1>6, <1>7, <1>8, <1>9 DEF Next

-----------------------------------------------------------------------------
(* Types *)

LEMMA TypesInit == Init => TypeInv
<1> SUFFICES ASSUME Init PROVE TypeInv
  OBVIOUS
<1>1. 0 \in 0..MaxAttempts
  BY AttemptsAssumption
<1>2. RowsType
  <2>1. marker \in Marker
    BY <1>1 DEF Init, Marker
  <2>2. receipt \in [Keys -> Receipt]
    BY DEF Init, Receipt, NoReceipt
  <2>3. job \in [Keys -> JobRow] /\ attempt \in [Keys -> [Number -> AttemptRow]]
    BY NoRowsFit DEF Init
  <2> QED
    BY <2>1, <2>2, <2>3 DEF Init, RowsType
<1>3. CodesFit
  BY NoRowsFit DEF Init, CodesFit
<1>4. LocalsGood
  BY IdleLocal, IdleGood DEF Init, LocalsGood
<1> QED
  BY <1>2, <1>3, <1>4 DEF TypeInv

LEMMA TypesStep == TypeInv /\ [Next]_vars => TypeInv'
<1> SUFFICES ASSUME TypeInv, [Next]_vars PROVE TypeInv'
  OBVIOUS
<1>1. CASE Still
  BY <1>1, RowsStay DEF Still, Quiet, TypeInv
<1>2. CASE ForeignReport
  <2>1. RowsType' /\ CodesFit'
    BY <1>2 DEF ForeignReport, TypeInv, RowsType, CodesFit
  <2>2. Quiet
    BY <1>2, IdleLocalsQuiet DEF ForeignReport
  <2> QED
    BY <2>1, <2>2 DEF Quiet, TypeInv
<1>3. CASE ClientWrites
  <2>1. RowsType' /\ CodesFit' /\ Quiet
    BY <1>3, CreateSafe, RetrySafe, ConvergeSafe DEF ClientWrites
  <2> QED
    BY <2>1 DEF Quiet, TypeInv
<1>4. CASE Claims
  BY <1>4, ClaimSafe DEF Claims, TypeInv
<1>5. CASE Ends
  <2>1. RowsType' /\ CodesFit' /\ Quiet
    BY <1>5, CompleteSafe, FinishSafe DEF Ends
  <2> QED
    BY <2>1 DEF Quiet, TypeInv
<1> QED
  BY <1>1, <1>2, <1>3, <1>4, <1>5, StepCases

\* Every row and every caller's locals stay in their types, and a job has a failure code
\* exactly when it failed, whatever the number of keys, callers and attempts.
THEOREM TypeCorrect == Spec => []TypeOK
<1>1. TypeInv => TypeOK
  BY DEF TypeInv, RowsType, CodesFit, CodeFits, LocalsGood, TypeOK
<1> QED
  BY <1>1, TypesInit, TypesStep, PTL DEF Spec

-----------------------------------------------------------------------------
(* The lock: a transaction that makes a job active finds the lock row free *)
(* of an active job and takes it; one that ends a job holds it.            *)

LEMMA LockKept ==
  ASSUME LockIsTheActiveJob, UNCHANGED <<marker, job>>
  PROVE  LockIsTheActiveJob'
BY DEF LockIsTheActiveJob

LEMMA LockTaken ==
  ASSUME TypeInv, LockIsTheActiveJob, marker.kind # "active",
         NEW k \in Keys, NEW n, NEW j, j.status = "queued", j.count = n,
         job' = [job EXCEPT ![k] = j],
         marker' = [kind |-> "active", job |-> k, n |-> n]
  PROVE  LockIsTheActiveJob'
<1>1. \A i \in Keys : job'[i] = IF i = k THEN j ELSE job[i]
  BY DEF TypeInv, RowsType
<1>2. \A i \in Keys : job[i].status \notin Active
  BY DEF LockIsTheActiveJob
<1>3. \A i \in Keys : job'[i].status \in Active =>
        marker' = [kind |-> "active", job |-> i, n |-> job'[i].count]
  BY <1>1, <1>2
<1>4. marker'.job \in Keys /\ job'[marker'.job].status \in Active
  BY <1>1 DEF Active
<1> QED
  BY <1>3, <1>4 DEF LockIsTheActiveJob

LEMMA LockReleased ==
  ASSUME TypeInv, LockIsTheActiveJob, NEW l \in Local, l.job \in Keys, Mine(marker, l),
         NEW status \in Ended, NEW code, Settle(l, status, code)
  PROVE  LockIsTheActiveJob'
<1> DEFINE j == [l.seenJob EXCEPT !.status = status, !.ver = @ + 1, !.code = code]
<1>1. \A i \in Keys : job'[i] = IF i = l.job THEN j ELSE job[i]
  BY DEF TypeInv, RowsType, Settle
<1>2. j.status = status /\ status \notin Active
  BY DEF Local, JobRow, Ended, Active
<1>3. \A i \in Keys : job[i].status \in Active => i = l.job
  BY DEF LockIsTheActiveJob, Mine
<1>4. \A i \in Keys : job'[i].status \notin Active
  BY <1>1, <1>2, <1>3
<1>5. marker'.kind = "terminal"
  BY DEF Settle, TypeInv, RowsType, Marker
<1> QED
  BY <1>4, <1>5 DEF LockIsTheActiveJob

LEMMA LockStep == TypeInv /\ LockIsTheActiveJob /\ [Next]_vars => LockIsTheActiveJob'
<1> SUFFICES ASSUME TypeInv, LockIsTheActiveJob, [Next]_vars PROVE LockIsTheActiveJob'
  OBVIOUS
<1>1. CASE Still
  BY <1>1, LockKept DEF Still, rows
<1>2. CASE ForeignReport
  BY <1>2, LockKept DEF ForeignReport
<1>3. ASSUME NEW c \in Clients, Create(c) PROVE LockIsTheActiveJob'
  <2> DEFINE l == proc[c]
  <2>1. l.key \in Keys
    BY <1>3, ClientGood DEF Create, Good, Fit, RequestPC
  <2>2. CASE Creatable(l)
    <3>1. /\ marker.kind # "active"
          /\ marker' = [kind |-> "active", job |-> l.key, n |-> 1]
          /\ job' = [job EXCEPT ![l.key] = Queued(1)]
      BY <1>3, <2>2 DEF Create, Creatable
    <3>2. Queued(1).status = "queued" /\ Queued(1).count = 1
      BY DEF Queued
    <3> QED
      BY <2>1, <3>1, <3>2, LockTaken
  <2>3. CASE ~ Creatable(l)
    BY <1>3, <2>3, LockKept DEF Create
  <2> QED
    BY <2>2, <2>3
<1>4. ASSUME NEW c \in Clients, Retry(c) PROVE LockIsTheActiveJob'
  <2> DEFINE l == proc[c]
             n == l.seenJob.count + 1
  <2>1. l.job \in Keys
    BY <1>4, ClientGood DEF Retry, Good, Fit, Knows, RetryPC
  <2>2. CASE Retriable(l)
    <3>1. /\ marker.kind # "active"
          /\ marker' = [kind |-> "active", job |-> l.job, n |-> n]
          /\ job' = [job EXCEPT ![l.job] = Requeued(l.seenJob, n)]
      BY <1>4, <2>2 DEF Retry, Retriable, RetryLock
    <3>2. Requeued(l.seenJob, n).status = "queued" /\ Requeued(l.seenJob, n).count = n
      BY DEF Queued, Requeued
    <3> QED
      BY <2>1, <3>1, <3>2, LockTaken
  <2>3. CASE ~ Retriable(l)
    BY <1>4, <2>3, LockKept DEF Retry
  <2> QED
    BY <2>2, <2>3
<1>5. ASSUME NEW c \in Clients, Converge(c) \/ Adopt(c) PROVE LockIsTheActiveJob'
  BY <1>5, LockKept DEF Converge, Adopt
<1>6. ASSUME NEW w \in Workers, Claim(w) PROVE LockIsTheActiveJob'
  <2> DEFINE l == proc[w]
             j == [l.seenJob EXCEPT !.status = "in_progress", !.ver = @ + 1]
  <2>1. Seen(l, "queued") /\ l.job \in Keys /\ l \in Local
    BY <1>6, WorkerGood DEF Claim, Good, Fit, Knows, Lifecycle
  <2>2. CASE Claimable(l)
    <3>1. job' = [job EXCEPT ![l.job] = j] /\ marker' = marker
      BY <1>6, <2>2 DEF Claim
    <3>2. \A i \in Keys : job'[i] = IF i = l.job THEN j ELSE job[i]
      BY <3>1 DEF TypeInv, RowsType
    <3>3. j.status \in Active /\ j.count = l.seenJob.count
      BY <2>1 DEF Local, JobRow, Active
    <3>4. job[l.job].status \in Active /\ job[l.job].count = l.seenJob.count
      BY <2>1, <2>2 DEF Claimable, Fenced, JobFence, Seen, Active
    <3> HIDE DEF j
    <3> QED
      BY <2>1, <3>1, <3>2, <3>3, <3>4 DEF LockIsTheActiveJob
  <2>3. CASE ~ Claimable(l)
    BY <1>6, <2>3, LockKept DEF Claim
  <2> QED
    BY <2>2, <2>3
<1>7. ASSUME NEW w \in Workers, Complete(w) PROVE LockIsTheActiveJob'
  <2> DEFINE l == proc[w]
  <2>1. l \in Local /\ l.job \in Keys
    BY <1>7, WorkerGood, ReportMoves DEF Complete, ReportPC
  <2>2. CASE Completable(l)
    <3>1. Mine(marker, l) /\ Settle(l, "completed", "none")
      BY <1>7, <2>2 DEF Complete, Completable
    <3>2. "completed" \in Ended
      BY DEF Ended
    <3> QED
      BY <2>1, <3>1, <3>2, LockReleased
  <2>3. CASE ~ Completable(l)
    BY <1>7, <2>3, LockKept DEF Complete
  <2> QED
    BY <2>2, <2>3
<1>8. ASSUME NEW p \in Workers \cup Finalizers, Finish(p) PROVE LockIsTheActiveJob'
  <2> DEFINE l == proc[p]
  <2>1. l \in Local /\ l.job \in Keys
    BY <1>8, WorkerGood DEF Finish, Good, Fit, Knows, Lifecycle
  <2>2. CASE Fenced(l) /\ Mine(marker, l)
    <3>1. Settle(l, StatusOf(l.code), l.code)
      BY <1>8, <2>2 DEF Finish
    <3>2. StatusOf(l.code) \in Ended
      BY DEF StatusOf, Ended
    <3> QED
      BY <2>1, <2>2, <3>1, <3>2, LockReleased
  <2>3. CASE ~ (Fenced(l) /\ Mine(marker, l))
    BY <1>8, <2>3, LockKept DEF Finish
  <2> QED
    BY <2>2, <2>3
<1> QED
  BY <1>1, <1>2, <1>3, <1>4, <1>5, <1>6, <1>7, <1>8, StepCases DEF ClientWrites, Claims, Ends

\* At most one job of the digest is queued or running, and the lock row names it and its
\* current attempt: creations, retries, claims and ends of any number of callers never leave
\* a lock without its job or an active job without its lock.
THEOREM LockCorrect == Spec => []LockIsTheActiveJob
<1>1. Init => LockIsTheActiveJob
  BY DEF Init, LockIsTheActiveJob, NoJob, Active
<1> QED
  BY <1>1, TypesInit, TypesStep, LockStep, PTL DEF Spec

-----------------------------------------------------------------------------
(* What the fences make of a transaction: it either queues a new attempt   *)
(* of a job or moves the current attempt and its job on, from the very     *)
(* rows that are there when it commits.                                    *)

QueuesAttempt(k, n, j) ==
  /\ \/ job[k].status = "none" /\ n = 1 /\ j = Queued(1)
     \/ /\ job[k].status = "failed_retryable" /\ n = job[k].count + 1
        /\ j = [status |-> "queued", ver |-> job[k].ver + 1, count |-> n, code |-> "none"]
  /\ attempt[k][n].status = "none"
  /\ job' = [job EXCEPT ![k] = j]
  /\ attempt' = [attempt EXCEPT ![k][n] = QueuedAttempt]
  /\ outbox' = [outbox EXCEPT ![k][n] = "pending"]
  /\ UNCHANGED <<binding, head>>
Advances(k, n, to, code) ==
  /\ job[k].status \in Active /\ attempt[k][n].status = job[k].status
  /\ job[k].count = n
  /\ to = "in_progress" => job[k].status = "queued"
  /\ code # "none" <=> to \in Failed
  /\ job' = [job EXCEPT ![k] =
                [job[k] EXCEPT !.status = to, !.ver = @ + 1, !.code = code]]
  /\ attempt' = [attempt EXCEPT ![k][n] =
                    [attempt[k][n] EXCEPT !.status = to, !.ver = @ + 1, !.code = code]]
  /\ UNCHANGED outbox
  /\ IF to = "completed"
     THEN binding[k] = 0 /\ head' = head + 1 /\ binding' = [binding EXCEPT ![k] = head + 1]
     ELSE UNCHANGED <<binding, head>>
JobsStay == UNCHANGED <<job, attempt, outbox, binding>> /\ head' >= head

LEMMA JobsStayStill ==
  ASSUME TypeInv, UNCHANGED <<job, attempt, outbox, binding, head>>
  PROVE  JobsStay
BY DEF JobsStay, TypeInv, RowsType

\* What a fenced caller saw is what is there.
LEMMA SawWhatIs ==
  ASSUME TypeInv, NEW l, Good(l), l.job \in Keys, l.n \in Number, Fenced(l),
         NEW s \in Active, Seen(l, s)
  PROVE  /\ l.seenJob = job[l.job] /\ l.seenAttempt = attempt[l.job][l.n]
         /\ job[l.job].status = s /\ attempt[l.job][l.n].status = s /\ job[l.job].count = l.n
<1> DEFINE j == l.seenJob
           a == l.seenAttempt
           k == job[l.job]
           b == attempt[l.job][l.n]
<1>1. j \in JobRow /\ a \in AttemptRow /\ CodeFits(j) /\ CodeFits(a)
  BY DEF Good, Local, Knows
<1>2. k \in JobRow /\ b \in AttemptRow /\ CodeFits(k) /\ CodeFits(b)
  BY RowsRead
<1>3. /\ k.ver = j.ver /\ k.status = j.status /\ k.count = j.count
      /\ b.ver = a.ver /\ b.status = a.status
      /\ j.status = s /\ a.status = s /\ j.count = l.n
  BY DEF Fenced, JobFence, AttemptFence, Seen
<1> HIDE DEF j, a, k, b
<1>4. s \notin Failed
  BY DEF Active, Failed
<1>5. j.code = "none" /\ a.code = "none" /\ k.code = "none" /\ b.code = "none"
  BY <1>1, <1>2, <1>3, <1>4 DEF CodeFits
<1>6. j = k
  BY <1>1, <1>2, <1>3, <1>5 DEF JobRow
<1>7. a = b
  BY <1>1, <1>2, <1>3, <1>5 DEF AttemptRow
<1> QED
  BY <1>3, <1>6, <1>7 DEF j, a, k, b

LEMMA CreateQueues ==
  ASSUME TypeInv, NEW c \in Clients, Create(c)
  PROVE  JobsStay \/ \E k \in Keys, n \in Number : \E j : QueuesAttempt(k, n, j)
<1> DEFINE l == proc[c]
<1>1. l.key \in Keys
  BY ClientGood DEF Create, Good, Fit, RequestPC
<1>2. CASE Creatable(l)
  <2>1. QueuesAttempt(l.key, 1, Queued(1))
    BY <1>2 DEF Create, Creatable, QueuesAttempt
  <2>2. 1 \in Number
    BY AttemptsAssumption DEF Number
  <2> QED
    BY <1>1, <2>1, <2>2
<1>3. CASE ~ Creatable(l)
  BY <1>3, JobsStayStill DEF Create
<1> QED
  BY <1>2, <1>3

LEMMA RetryQueues ==
  ASSUME TypeInv, NEW c \in Clients, Retry(c)
  PROVE  JobsStay \/ \E k \in Keys, n \in Number : \E j : QueuesAttempt(k, n, j)
<1> DEFINE l == proc[c]
           n == l.seenJob.count + 1
<1>1. /\ l \in Local /\ l.job \in Keys /\ l.seenJob.status = "failed_retryable"
      /\ l.seenJob.count < MaxAttempts
  BY ClientGood DEF Retry, Good, Fit, Knows, RetryPC
<1>2. CASE Retriable(l)
  <2>1. n \in Number
    BY <1>1, AttemptsAssumption DEF Number, Local, JobRow
  <2>2. /\ job[l.job].status = "failed_retryable" /\ n = job[l.job].count + 1
        /\ job[l.job].ver = l.seenJob.ver /\ attempt[l.job][n].status = "none"
    BY <1>1, <1>2 DEF Retriable, JobFence
  <2>3. Requeued(l.seenJob, n) =
          [status |-> "queued", ver |-> job[l.job].ver + 1, count |-> n, code |-> "none"]
    BY <2>2 DEF Requeued, Queued
  <2>4. /\ job' = [job EXCEPT ![l.job] = Requeued(l.seenJob, n)]
        /\ attempt' = [attempt EXCEPT ![l.job][n] = QueuedAttempt]
        /\ outbox' = [outbox EXCEPT ![l.job][n] = "pending"]
        /\ UNCHANGED <<binding, head>>
    BY <1>2 DEF Retry
  <2> HIDE DEF n
  <2>5. QueuesAttempt(l.job, n, Requeued(l.seenJob, n))
    BY <2>2, <2>3, <2>4 DEF QueuesAttempt
  <2> QED
    BY <1>1, <2>1, <2>5
<1>3. CASE ~ Retriable(l)
  BY <1>3, JobsStayStill DEF Retry
<1> QED
  BY <1>2, <1>3

LEMMA ClaimAdvances ==
  ASSUME TypeInv, NEW w \in Workers, Claim(w)
  PROVE  \/ JobsStay /\ Become(w, Reading(proc[w], "reclaim"))
         \/ /\ proc[w].job \in Keys /\ proc[w].n \in Number
            /\ Advances(proc[w].job, proc[w].n, "in_progress", "none")
            /\ Become(w, Goto(Reading(proc[w], "complete"), "run"))
<1> DEFINE l == proc[w]
<1>1. Good(l) /\ Seen(l, "queued") /\ l.job \in Keys /\ l.n \in Number
  BY WorkerGood DEF Claim, Good, Fit, Knows, Lifecycle
<1>2. CASE Claimable(l)
  <2>1. /\ l.seenJob = job[l.job] /\ l.seenAttempt = attempt[l.job][l.n]
        /\ job[l.job].status = "queued" /\ attempt[l.job][l.n].status = "queued"
        /\ job[l.job].count = l.n
    BY <1>1, <1>2, SawWhatIs DEF Claimable, Active
  <2>2. job[l.job] \in JobRow /\ attempt[l.job][l.n] \in AttemptRow
        /\ job[l.job].code = "none" /\ attempt[l.job][l.n].code = "none"
    BY <1>1, <2>1, RowsRead DEF CodeFits, Failed
  <2>3. /\ job' = [job EXCEPT ![l.job] =
                     [l.seenJob EXCEPT !.status = "in_progress", !.ver = @ + 1]]
        /\ attempt' = [attempt EXCEPT ![l.job][l.n] =
                         [l.seenAttempt EXCEPT !.status = "in_progress", !.ver = @ + 1]]
        /\ UNCHANGED <<outbox, binding, head>>
    BY <1>2 DEF Claim
  <2>4. [l.seenJob EXCEPT !.status = "in_progress", !.ver = @ + 1] =
          [job[l.job] EXCEPT !.status = "in_progress", !.ver = @ + 1, !.code = "none"]
    BY <2>1, <2>2 DEF JobRow
  <2>5. [l.seenAttempt EXCEPT !.status = "in_progress", !.ver = @ + 1] =
          [attempt[l.job][l.n] EXCEPT !.status = "in_progress", !.ver = @ + 1, !.code = "none"]
    BY <2>1, <2>2 DEF AttemptRow
  <2>6. "in_progress" \notin Failed /\ "queued" \in Active
    BY DEF Failed, Active
  <2>7. Become(w, Goto(Reading(l, "complete"), "run"))
    BY <1>2 DEF Claim
  <2> HIDE DEF l
  <2>8. Advances(l.job, l.n, "in_progress", "none")
    BY <2>1, <2>3, <2>4, <2>5, <2>6 DEF Advances
  <2> QED
    BY <1>1, <2>7, <2>8 DEF l
<1>3. CASE ~ Claimable(l)
  BY <1>3, JobsStayStill DEF Claim
<1> QED
  BY <1>2, <1>3

LEMMA CompleteAdvances ==
  ASSUME TypeInv, NEW w \in Workers, Complete(w)
  PROVE  JobsStay \/ \E k \in Keys, n \in Number : Advances(k, n, "completed", "none")
<1> DEFINE l == proc[w]
<1>1. Good(l) /\ l.pc = "complete" /\ l.pc \in ReportPC
  BY WorkerGood DEF Complete, ReportPC
<1>2. Seen(l, "in_progress") /\ l.job \in Keys /\ l.n \in Number
  BY <1>1, ReportMoves DEF Good, Fit
<1>3. CASE Completable(l)
  <2>1. /\ l.seenJob = job[l.job] /\ l.seenAttempt = attempt[l.job][l.n]
        /\ job[l.job].status = "in_progress" /\ attempt[l.job][l.n].status = "in_progress"
        /\ job[l.job].count = l.n
    BY <1>1, <1>2, <1>3, SawWhatIs DEF Completable, Active
  <2>2. /\ Settle(l, "completed", "none") /\ UNCHANGED outbox
        /\ binding[l.job] = 0 /\ head' = head + 1
        /\ binding' = [binding EXCEPT ![l.job] = head + 1]
    BY <1>3 DEF Complete, Completable, SlotFree
  <2>3. "completed" \notin Failed /\ "in_progress" \in Active
    BY DEF Failed, Active
  <2> HIDE DEF l
  <2>4. /\ job' = [job EXCEPT ![l.job] =
                     [job[l.job] EXCEPT !.status = "completed", !.ver = @ + 1, !.code = "none"]]
        /\ attempt' = [attempt EXCEPT ![l.job][l.n] =
             [attempt[l.job][l.n] EXCEPT !.status = "completed", !.ver = @ + 1, !.code = "none"]]
    BY <2>1, <2>2 DEF Settle
  <2>5. Advances(l.job, l.n, "completed", "none")
    BY <2>1, <2>2, <2>3, <2>4 DEF Advances
  <2> QED
    BY <1>2, <2>5
<1>4. CASE ~ Completable(l)
  BY <1>4, JobsStayStill DEF Complete
<1> QED
  BY <1>3, <1>4

LEMMA FinishAdvances ==
  ASSUME TypeInv, NEW p \in Workers \cup Finalizers, Finish(p)
  PROVE  \/ JobsStay
         \/ \E k \in Keys, n \in Number, to \in Failed, code \in Codes : Advances(k, n, to, code)
<1> DEFINE l == proc[p]
<1>1. Good(l) /\ l.pc = "finish"
  BY WorkerGood DEF Finish
<1>2. l.job \in Keys /\ l.n \in Number /\ l.code \in Codes
  BY <1>1 DEF Good, Fit, Knows, Lifecycle, Finishes
<1>3. PICK s \in Active : Seen(l, s)
  BY <1>1 DEF Good, Fit
<1>4. CASE Fenced(l) /\ Mine(marker, l)
  <2>1. /\ l.seenJob = job[l.job] /\ l.seenAttempt = attempt[l.job][l.n]
        /\ job[l.job].status = s /\ attempt[l.job][l.n].status = s
        /\ job[l.job].count = l.n
    BY <1>1, <1>2, <1>3, <1>4, SawWhatIs
  <2>2. /\ Settle(l, StatusOf(l.code), l.code)
        /\ UNCHANGED <<outbox, binding, head>>
    BY <1>4 DEF Finish
  <2>3. StatusOf(l.code) \in Failed /\ l.code # "none"
    BY <1>2, CodeNames DEF StatusOf, Failed
  <2> HIDE DEF l
  <2>4. /\ job' = [job EXCEPT ![l.job] =
             [job[l.job] EXCEPT !.status = StatusOf(l.code), !.ver = @ + 1, !.code = l.code]]
        /\ attempt' = [attempt EXCEPT ![l.job][l.n] = [attempt[l.job][l.n] EXCEPT
             !.status = StatusOf(l.code), !.ver = @ + 1, !.code = l.code]]
    BY <2>1, <2>2 DEF Settle
  <2> DEFINE to == StatusOf(l.code)
  <2> HIDE DEF to
  <2>5. to \in Failed /\ to # "completed" /\ to # "in_progress"
    BY <2>3 DEF to, Failed
  <2>6. Advances(l.job, l.n, to, l.code)
    BY <2>1, <2>2, <2>3, <2>4, <2>5 DEF Advances, to
  <2> QED
    BY <1>2, <2>5, <2>6
<1>5. CASE ~ (Fenced(l) /\ Mine(marker, l))
  BY <1>5, JobsStayStill DEF Finish
<1> QED
  BY <1>4, <1>5

LEMMA RowCases ==
  ASSUME TypeInv, [Next]_vars
  PROVE  \/ JobsStay
         \/ \E k \in Keys, n \in Number : \E j : QueuesAttempt(k, n, j)
         \/ \E k \in Keys, n \in Number, to \in {"in_progress"} \cup Ended :
              \E code : Advances(k, n, to, code)
<1>1. CASE Still
  BY <1>1, JobsStayStill DEF Still, rows
<1>2. CASE ForeignReport
  BY <1>2 DEF ForeignReport, JobsStay, TypeInv, RowsType
<1>3. CASE ClientWrites
  <2>1. ASSUME NEW c \in Clients, Converge(c) \/ Adopt(c) PROVE JobsStay
    BY <2>1, JobsStayStill DEF Converge, Adopt
  <2> QED
    BY <1>3, <2>1, CreateQueues, RetryQueues DEF ClientWrites
<1>4. CASE Claims
  BY <1>4, ClaimAdvances DEF Claims
<1>5. CASE Ends
  <2>1. "completed" \in Ended /\ Failed \subseteq Ended
    BY DEF Ended, Failed
  <2> QED
    BY <1>5, <2>1, CompleteAdvances, FinishAdvances DEF Ends
<1> QED
  BY <1>1, <1>2, <1>3, <1>4, <1>5, StepCases

\* The rows after either kind of transaction, field by field.
LEMMA QueuedRows ==
  ASSUME TypeInv, NEW k \in Keys, NEW n \in Number, NEW j, QueuesAttempt(k, n, j)
  PROVE  /\ \A i \in Keys : job'[i] = IF i = k THEN j ELSE job[i]
         /\ \A i \in Keys, m \in Number :
              attempt'[i][m] = IF i = k /\ m = n THEN QueuedAttempt ELSE attempt[i][m]
         /\ \A i \in Keys, m \in Number :
              outbox'[i][m] = IF i = k /\ m = n THEN "pending" ELSE outbox[i][m]
         /\ j.status = "queued" /\ j.count = n /\ j.code = "none"
         /\ QueuedAttempt.status = "queued" /\ QueuedAttempt.code = "none"
<1>1. /\ \A i \in Keys : job'[i] = IF i = k THEN j ELSE job[i]
      /\ \A i \in Keys, m \in Number :
           attempt'[i][m] = IF i = k /\ m = n THEN QueuedAttempt ELSE attempt[i][m]
      /\ \A i \in Keys, m \in Number :
           outbox'[i][m] = IF i = k /\ m = n THEN "pending" ELSE outbox[i][m]
  BY DEF TypeInv, RowsType, QueuesAttempt
<1>2. /\ j.status = "queued" /\ j.count = n /\ j.code = "none"
      /\ QueuedAttempt.status = "queued" /\ QueuedAttempt.code = "none"
  BY DEF QueuesAttempt, Queued, QueuedAttempt
<1> QED
  BY <1>1, <1>2

LEMMA AdvancedRows ==
  ASSUME TypeInv, NEW k \in Keys, NEW n \in Number, NEW to, NEW code, Advances(k, n, to, code)
  PROVE  /\ \A i \in Keys : i # k => job'[i] = job[i]
         /\ \A i \in Keys, m \in Number : i # k \/ m # n => attempt'[i][m] = attempt[i][m]
         /\ job'[k].status = to /\ job'[k].count = job[k].count /\ job'[k].code = code
         /\ job'[k].ver = job[k].ver + 1
         /\ attempt'[k][n].status = to /\ attempt'[k][n].code = code
         /\ attempt'[k][n].ver = attempt[k][n].ver + 1
<1> DEFINE j == [job[k] EXCEPT !.status = to, !.ver = @ + 1, !.code = code]
           a == [attempt[k][n] EXCEPT !.status = to, !.ver = @ + 1, !.code = code]
<1>1. job[k] \in JobRow /\ attempt[k][n] \in AttemptRow
  BY RowsRead
<1>2. /\ j.status = to /\ j.count = job[k].count /\ j.code = code
      /\ j.ver = job[k].ver + 1
  BY <1>1 DEF JobRow
<1>3. a.status = to /\ a.code = code /\ a.ver = attempt[k][n].ver + 1
  BY <1>1 DEF AttemptRow
<1>4. job' = [job EXCEPT ![k] = j] /\ attempt' = [attempt EXCEPT ![k][n] = a]
  BY DEF Advances
<1> HIDE DEF j, a
<1>5. /\ \A i \in Keys : job'[i] = IF i = k THEN j ELSE job[i]
      /\ \A i \in Keys, m \in Number :
           attempt'[i][m] = IF i = k /\ m = n THEN a ELSE attempt[i][m]
  BY <1>4 DEF TypeInv, RowsType
<1> QED
  BY <1>2, <1>3, <1>5

-----------------------------------------------------------------------------
(* The job and its attempts *)

LEMMA AgreeStep == TypeInv /\ RowsAgree /\ [Next]_vars => RowsAgree'
<1> SUFFICES ASSUME TypeInv, RowsAgree, [Next]_vars PROVE RowsAgree'
  OBVIOUS
<1>1. CASE JobsStay
  BY <1>1 DEF JobsStay, RowsAgree
<1>2. ASSUME NEW k \in Keys, NEW n \in Number, NEW j, QueuesAttempt(k, n, j) PROVE RowsAgree'
  <2>1. /\ \A i \in Keys : job'[i] = IF i = k THEN j ELSE job[i]
        /\ \A i \in Keys, m \in Number :
             attempt'[i][m] = IF i = k /\ m = n THEN QueuedAttempt ELSE attempt[i][m]
        /\ \A i \in Keys, m \in Number :
             outbox'[i][m] = IF i = k /\ m = n THEN "pending" ELSE outbox[i][m]
        /\ j.status = "queued" /\ j.count = n /\ j.code = "none"
        /\ QueuedAttempt.status = "queued" /\ QueuedAttempt.code = "none"
    BY <1>2, QueuedRows
  <2>2. n = job[k].count + 1 /\ job[k].status \in {"none", "failed_retryable"}
    BY <1>2 DEF QueuesAttempt, RowsAgree
  <2>3. job[k].count \in Nat /\ n \in Nat
    BY RowsRead, AttemptsAssumption DEF JobRow, Number
  <2>4. ASSUME NEW m \in Number
        PROVE  /\ m = n => attempt'[k][m] = QueuedAttempt
               /\ m < n => attempt'[k][m].status = "failed_retryable"
               /\ m > n => attempt'[k][m].status = "none"
               /\ attempt'[k][m].status = "none" <=> outbox'[k][m] = "none"
    <3>0. m \in Nat
      BY AttemptsAssumption DEF Number
    <3>1. m < n => m = job[k].count \/ m < job[k].count
      BY <2>2, <2>3, <3>0
    <3>2. m > n => m > job[k].count /\ m # n
      BY <2>2, <2>3, <3>0
    <3>3. m < n => m # n /\ job[k].count # 0
      BY <2>2, <2>3, <3>0 DEF Number
    <3>4. m < n => attempt[k][m].status = "failed_retryable"
      BY <2>2, <3>1, <3>3 DEF RowsAgree
    <3>5. m > n => attempt[k][m].status = "none"
      BY <3>2 DEF RowsAgree
    <3>6. m # n => (attempt[k][m].status = "none" <=> outbox[k][m] = "none")
      BY DEF RowsAgree
    <3> QED
      BY <2>1, <3>2, <3>3, <3>4, <3>5, <3>6
  <2>5. ASSUME NEW i \in Keys
        PROVE  /\ job'[i].status = "none" <=> job'[i].count = 0
               /\ \A m \in Number :
                    /\ m = job'[i].count =>
                         attempt'[i][m].status = job'[i].status /\ attempt'[i][m].code = job'[i].code
                    /\ m < job'[i].count => attempt'[i][m].status = "failed_retryable"
                    /\ m > job'[i].count => attempt'[i][m].status = "none"
                    /\ attempt'[i][m].status = "none" <=> outbox'[i][m] = "none"
    <3>1. CASE i = k
      <4>1. n # 0
        BY <2>3 DEF Number
      <4> QED
        BY <2>1, <2>4, <3>1, <4>1
    <3>2. CASE i # k
      BY <2>1, <3>2 DEF RowsAgree
    <3> QED
      BY <3>1, <3>2
  <2> QED
    BY <2>5 DEF RowsAgree
<1>3. ASSUME NEW k \in Keys, NEW n \in Number, NEW to \in {"in_progress"} \cup Ended, NEW code,
             Advances(k, n, to, code)
      PROVE  RowsAgree'
  <2>1. /\ \A i \in Keys : i # k => job'[i] = job[i]
        /\ \A i \in Keys, m \in Number : i # k \/ m # n => attempt'[i][m] = attempt[i][m]
        /\ job'[k].status = to /\ job'[k].count = job[k].count /\ job'[k].code = code
        /\ attempt'[k][n].status = to /\ attempt'[k][n].code = code
    BY <1>3, AdvancedRows
  <2>2. /\ job[k].count = n /\ outbox' = outbox /\ to # "none"
        /\ job[k].status # "none" /\ attempt[k][n].status # "none"
    BY <1>3 DEF Advances, Active, Ended
  <2>3. ASSUME NEW i \in Keys
        PROVE  /\ job'[i].status = "none" <=> job'[i].count = 0
               /\ \A m \in Number :
                    /\ m = job'[i].count =>
                         attempt'[i][m].status = job'[i].status /\ attempt'[i][m].code = job'[i].code
                    /\ m < job'[i].count => attempt'[i][m].status = "failed_retryable"
                    /\ m > job'[i].count => attempt'[i][m].status = "none"
                    /\ attempt'[i][m].status = "none" <=> outbox'[i][m] = "none"
    <3>1. CASE i = k
      <4>1. \A m \in Number : m < n \/ m > n => m # n
        BY AttemptsAssumption DEF Number
      <4> QED
        BY <2>1, <2>2, <3>1, <4>1 DEF RowsAgree
    <3>2. CASE i # k
      BY <2>1, <2>2, <3>2 DEF RowsAgree
    <3> QED
      BY <3>1, <3>2
  <2> QED
    BY <2>3 DEF RowsAgree
<1> QED
  BY <1>1, <1>2, <1>3, RowCases

\* A job and its current attempt always say the same, the earlier attempts are retryable
\* failures and exactly the attempts so far have an outbox record: no retry loses an attempt
\* and no late worker or finalizer writes over one that is not current.
THEOREM RowsCorrect == Spec => []RowsAgree
<1>1. Init => RowsAgree
  <2>1. \A n \in Number : n # 0 /\ ~ (n < 0)
    BY AttemptsAssumption DEF Number
  <2> QED
    BY <2>1 DEF Init, RowsAgree, NoJob, NoAttempt
<1> QED
  BY <1>1, TypesInit, TypesStep, AgreeStep, PTL DEF Spec

-----------------------------------------------------------------------------
(* The report *)

LEMMA BoundStep == TypeInv /\ CompletedIsBound /\ [Next]_vars => CompletedIsBound'
<1> SUFFICES ASSUME TypeInv, CompletedIsBound, [Next]_vars PROVE CompletedIsBound'
  OBVIOUS
<1>1. binding \in [Keys -> Nat] /\ head \in Nat
  BY DEF TypeInv, RowsType
<1>2. CASE JobsStay
  <2>1. ASSUME NEW k \in Keys PROVE binding[k] <= head'
    <3>1. binding[k] \in Nat /\ binding[k] <= head /\ head' >= head /\ head' \in Nat
      BY <1>1, <1>2, TypesStep DEF CompletedIsBound, JobsStay, TypeInv, RowsType
    <3> QED
      BY <1>1, <3>1
  <2> QED
    BY <1>2, <2>1 DEF JobsStay, CompletedIsBound
<1>3. ASSUME NEW k \in Keys, NEW n \in Number, NEW j, QueuesAttempt(k, n, j)
      PROVE  CompletedIsBound'
  <2>1. /\ \A i \in Keys : job'[i] = IF i = k THEN j ELSE job[i]
        /\ j.status = "queued"
    BY <1>3, QueuedRows
  <2>2. job[k].status # "completed" /\ UNCHANGED <<binding, head>>
    BY <1>3 DEF QueuesAttempt
  <2> QED
    BY <2>1, <2>2 DEF CompletedIsBound
<1>4. ASSUME NEW k \in Keys, NEW n \in Number, NEW to \in {"in_progress"} \cup Ended, NEW code,
             Advances(k, n, to, code)
      PROVE  CompletedIsBound'
  <2>1. (\A i \in Keys : i # k => job'[i] = job[i]) /\ job'[k].status = to
    BY <1>4, AdvancedRows
  <2>2. job[k].status # "completed"
    BY <1>4 DEF Advances, Active
  <2>3. CASE to # "completed"
    <3>1. UNCHANGED <<binding, head>>
      BY <1>4, <2>3 DEF Advances
    <3> QED
      BY <2>1, <2>2, <2>3, <3>1 DEF CompletedIsBound
  <2>4. CASE to = "completed"
    <3>1. /\ binding[k] = 0 /\ head' = head + 1
          /\ \A i \in Keys : binding'[i] = IF i = k THEN head + 1 ELSE binding[i]
      BY <1>1, <1>4, <2>4 DEF Advances
    <3>2. \A i \in Keys : binding[i] \in Nat /\ binding[i] <= head
      BY <1>1 DEF CompletedIsBound
    <3>3. ASSUME NEW i \in Keys
          PROVE  /\ job'[i].status = "completed" <=> binding'[i] # 0
                 /\ binding'[i] <= head'
      <4>1. CASE i = k
        BY <1>1, <2>1, <2>4, <3>1, <4>1
      <4>2. CASE i # k
        BY <1>1, <2>1, <3>1, <3>2, <4>2 DEF CompletedIsBound
      <4> QED
        BY <4>1, <4>2
    <3>4. ASSUME NEW i \in Keys, NEW m \in Keys \ {i}, binding'[i] = binding'[m]
          PROVE  binding'[i] = 0
      <4>1. i # k /\ m # k
        BY <1>1, <3>1, <3>2, <3>4
      <4> QED
        BY <3>1, <3>4, <4>1 DEF CompletedIsBound
    <3> QED
      BY <3>3, <3>4 DEF CompletedIsBound
  <2> QED
    BY <2>3, <2>4
<1> QED
  BY <1>2, <1>3, <1>4, RowCases

\* A job is completed exactly when a version of the report is bound to it, each version to
\* at most one job: racing and repeated workers never persist a report for a job that ends
\* otherwise, nor two reports as one version.
THEOREM BoundCorrect == Spec => []CompletedIsBound
<1>1. Init => CompletedIsBound
  BY DEF Init, CompletedIsBound, NoJob
<1> QED
  BY <1>1, TypesInit, TypesStep, BoundStep, PTL DEF Spec

-----------------------------------------------------------------------------
(* Ends *)

FreshJobs == \A k \in Keys : job[k].status = "none" => job[k].ver = 0

LEMMA FreshStep == TypeInv /\ FreshJobs /\ [Next]_vars => FreshJobs'
<1> SUFFICES ASSUME TypeInv, FreshJobs, [Next]_vars PROVE FreshJobs'
  OBVIOUS
<1>1. CASE JobsStay
  BY <1>1 DEF JobsStay, FreshJobs
<1>2. ASSUME NEW k \in Keys, NEW n \in Number, NEW j, QueuesAttempt(k, n, j) PROVE FreshJobs'
  BY <1>2, QueuedRows DEF FreshJobs
<1>3. ASSUME NEW k \in Keys, NEW n \in Number, NEW to \in {"in_progress"} \cup Ended, NEW code,
             Advances(k, n, to, code)
      PROVE  FreshJobs'
  BY <1>3, AdvancedRows DEF FreshJobs, Ended
<1> QED
  BY <1>1, <1>2, <1>3, RowCases

LEMMA ReceiptsStay ==
  ASSUME TypeInv, [Next]_vars, NEW k \in Keys, receipt[k].action # "none"
  PROVE  receipt'[k] = receipt[k]
<1>1. CASE Still
  BY <1>1 DEF Still, rows
<1>2. CASE ForeignReport
  BY <1>2 DEF ForeignReport
<1>3. ASSUME NEW c \in Clients, Create(c) \/ Retry(c) \/ Converge(c) \/ Adopt(c)
      PROVE  receipt'[k] = receipt[k]
  <2>1. \/ UNCHANGED receipt
        \/ /\ receipt[proc[c].key].action = "none"
           /\ \E r : receipt' = [receipt EXCEPT ![proc[c].key] = r]
    BY <1>3 DEF Create, Retry, Converge, Adopt, Creatable, Retriable
  <2> QED
    BY <2>1 DEF TypeInv, RowsType
<1>4. CASE Claims
  BY <1>4 DEF Claims, Claim
<1>5. CASE Ends
  BY <1>5 DEF Ends, Complete, Finish
<1> QED
  BY <1>1, <1>2, <1>3, <1>4, <1>5, StepCases DEF ClientWrites

EndsStay ==
  \A k \in Keys :
    /\ \A n \in Number : Frozen(k, n)
    /\ job[k].status \in Ended \ {"failed_retryable"} => job'[k] = job[k]
    /\ job'[k] # job[k] => job'[k].ver = job[k].ver + 1
    /\ receipt[k].action # "none" => receipt'[k] = receipt[k]
    /\ binding[k] # 0 => binding'[k] = binding[k]

LEMMA EndsStayStep == TypeInv /\ FreshJobs /\ [Next]_vars => EndsStay
<1> SUFFICES ASSUME TypeInv, FreshJobs, [Next]_vars, NEW k \in Keys
             PROVE  /\ \A n \in Number : Frozen(k, n)
                    /\ job[k].status \in Ended \ {"failed_retryable"} => job'[k] = job[k]
                    /\ job'[k] # job[k] => job'[k].ver = job[k].ver + 1
                    /\ receipt[k].action # "none" => receipt'[k] = receipt[k]
                    /\ binding[k] # 0 => binding'[k] = binding[k]
  BY DEF EndsStay
<1>1. receipt[k].action # "none" => receipt'[k] = receipt[k]
  BY ReceiptsStay
<1>2. CASE JobsStay
  BY <1>1, <1>2 DEF JobsStay, Frozen
<1>3. ASSUME NEW i \in Keys, NEW m \in Number, NEW j, QueuesAttempt(i, m, j)
      PROVE  /\ \A n \in Number : Frozen(k, n)
             /\ job[k].status \in Ended \ {"failed_retryable"} => job'[k] = job[k]
             /\ job'[k] # job[k] => job'[k].ver = job[k].ver + 1
             /\ binding[k] # 0 => binding'[k] = binding[k]
  <2>1. /\ \A o \in Keys : job'[o] = IF o = i THEN j ELSE job[o]
        /\ \A o \in Keys, n \in Number :
             attempt'[o][n] = IF o = i /\ n = m THEN QueuedAttempt ELSE attempt[o][n]
    BY <1>3, QueuedRows
  <2>2. /\ attempt[i][m].status = "none" /\ binding' = binding
        /\ job[i].status \in {"none", "failed_retryable"}
    BY <1>3 DEF QueuesAttempt
  <2>3. j.ver = job[i].ver + 1
    BY <1>3 DEF QueuesAttempt, Queued, FreshJobs
  <2> QED
    BY <2>1, <2>2, <2>3 DEF Frozen, Ended
<1>4. ASSUME NEW i \in Keys, NEW m \in Number, NEW to \in {"in_progress"} \cup Ended, NEW code,
             Advances(i, m, to, code)
      PROVE  /\ \A n \in Number : Frozen(k, n)
             /\ job[k].status \in Ended \ {"failed_retryable"} => job'[k] = job[k]
             /\ job'[k] # job[k] => job'[k].ver = job[k].ver + 1
             /\ binding[k] # 0 => binding'[k] = binding[k]
  <2>1. /\ \A o \in Keys : o # i => job'[o] = job[o]
        /\ \A o \in Keys, n \in Number : o # i \/ n # m => attempt'[o][n] = attempt[o][n]
        /\ job'[i].ver = job[i].ver + 1
    BY <1>4, AdvancedRows
  <2>2. /\ job[i].status \in Active /\ attempt[i][m].status \in Active
        /\ \/ UNCHANGED binding
           \/ binding[i] = 0 /\ binding' = [binding EXCEPT ![i] = head + 1]
    BY <1>4 DEF Advances
  <2>3. binding[k] # 0 => binding'[k] = binding[k]
    BY <2>2 DEF TypeInv, RowsType
  <2> QED
    BY <2>1, <2>2, <2>3 DEF Frozen, Active, Ended
<1> QED
  BY <1>1, <1>2, <1>3, <1>4, RowCases

\* Whatever has ended stays as it is, and a job's version counts its changes one by one: no
\* late, repeated or overtaken call changes a finished attempt, a final job, a receipt or a
\* report's binding.
THEOREM EndsCorrect == Spec => EndedStaysEnded
<1>1. Init => FreshJobs
  BY DEF Init, FreshJobs, NoJob
<1>2. TypeInv /\ FreshJobs /\ [Next]_vars => [EndsStay]_vars
  BY EndsStayStep
<1>3. [EndsStay]_vars <=> [\A k \in Keys :
        /\ \A n \in Number : Frozen(k, n)
        /\ job[k].status \in Ended \ {"failed_retryable"} => job'[k] = job[k]
        /\ job'[k] # job[k] => job'[k].ver = job[k].ver + 1
        /\ receipt[k].action # "none" => receipt'[k] = receipt[k]
        /\ binding[k] # 0 => binding'[k] = binding[k]]_vars
  BY DEF EndsStay
<1> QED
  BY <1>1, <1>2, <1>3, TypesInit, TypesStep, FreshStep, PTL DEF Spec, EndedStaysEnded

-----------------------------------------------------------------------------
(* Claims: whoever holds an attempt found it queued, and nobody finds it   *)
(* queued again.                                                           *)

Claimed(s) == s \notin {"none", "queued"}
HeldIsClaimed ==
  \A w \in Workers : Held(proc[w]) => Claimed(attempt[proc[w].job][proc[w].n].status)
AttemptsGoOn ==
  \A k \in Keys, n \in Number : Claimed(attempt[k][n].status) => Claimed(attempt'[k][n].status)
OneHolder ==
  \A v, w \in Workers :
    Held(proc[v]) /\ Held(proc[w]) /\ proc[v].job = proc[w].job /\ proc[v].n = proc[w].n => v = w

LEMMA AttemptsStep == TypeInv /\ [Next]_vars => AttemptsGoOn
<1> SUFFICES ASSUME TypeInv, [Next]_vars PROVE AttemptsGoOn
  OBVIOUS
<1>1. CASE JobsStay
  BY <1>1 DEF JobsStay, AttemptsGoOn
<1>2. ASSUME NEW k \in Keys, NEW n \in Number, NEW j, QueuesAttempt(k, n, j) PROVE AttemptsGoOn
  <2>1. attempt[k][n].status = "none"
    BY <1>2 DEF QueuesAttempt
  <2> QED
    BY <1>2, <2>1, QueuedRows DEF AttemptsGoOn, Claimed
<1>3. ASSUME NEW k \in Keys, NEW n \in Number, NEW to \in {"in_progress"} \cup Ended, NEW code,
             Advances(k, n, to, code)
      PROVE  AttemptsGoOn
  <2>1. Claimed(to)
    BY DEF Claimed, Ended
  <2> QED
    BY <1>3, <2>1, AdvancedRows DEF AttemptsGoOn, Claimed
<1> QED
  BY <1>1, <1>2, <1>3, RowCases

LEMMA HeldNames ==
  ASSUME TypeInv, NEW w \in Workers, Held(proc[w])
  PROVE  proc[w].job \in Keys /\ proc[w].n \in Number
BY WorkerGood DEF Held, Good, Knows, Lifecycle

LEMMA QuietClaims ==
  ASSUME TypeInv, HeldIsClaimed, OneHolder, AttemptsGoOn, Quiet
  PROVE  HeldIsClaimed' /\ OneHolder'
<1>1. \A w \in Workers : Held(proc'[w]) =>
        Held(proc[w]) /\ proc'[w].job = proc[w].job /\ proc'[w].n = proc[w].n
  BY DEF Quiet, Keeps
<1>2. HeldIsClaimed'
  <2>1. ASSUME NEW w \in Workers, Held(proc'[w])
        PROVE  Claimed(attempt'[proc'[w].job][proc'[w].n].status)
    BY <1>1, <2>1, HeldNames DEF HeldIsClaimed, AttemptsGoOn
  <2> QED
    BY <2>1 DEF HeldIsClaimed, Held
<1>3. OneHolder'
  BY <1>1 DEF OneHolder, Held
<1> QED
  BY <1>2, <1>3

LEMMA ClaimClaims ==
  ASSUME TypeInv, HeldIsClaimed, OneHolder, AttemptsGoOn, NEW w \in Workers, Claim(w)
  PROVE  HeldIsClaimed' /\ OneHolder'
<1> DEFINE l == proc[w]
           x == Goto(Reading(l, "complete"), "run")
           y == Reading(l, "reclaim")
<1>1. l \in Local /\ w \in Callers /\ proc \in [Callers -> Local]
  BY WorkerGood DEF TypeInv, LocalsGood
<1>2. CASE Become(w, y)
  <2>1. Good(y) /\ Keeps(l, y)
    <3>1. l.job \in Keys /\ l.n \in Number
      BY WorkerGood DEF Claim, Good, Fit, Knows, Lifecycle
    <3>2. Good(y)
      BY <1>1, <3>1, ReadingGood DEF Lifecycle, Finishes
    <3>3. Keeps(l, y)
      BY <1>1 DEF Keeps, Held, Reading, Local
    <3> QED
      BY <3>2, <3>3
  <2> QED
    BY <1>2, <2>1, WorkMoves, QuietClaims
<1>3. CASE l.job \in Keys /\ l.n \in Number /\ Advances(l.job, l.n, "in_progress", "none")
           /\ Become(w, x)
  <2>1. attempt[l.job][l.n].status = "queued" /\ attempt'[l.job][l.n].status = "in_progress"
    <3>1. attempt[l.job][l.n].status = "queued"
      BY <1>3 DEF Advances
    <3> DEFINE k == l.job
               n == l.n
    <3>2. k \in Keys /\ n \in Number /\ Advances(k, n, "in_progress", "none")
      BY <1>3
    <3> HIDE DEF k, n
    <3>3. attempt'[k][n].status = "in_progress"
      BY <3>2, AdvancedRows
    <3> QED
      BY <3>1, <3>3 DEF k, n
  <2>2. /\ proc'[w] = x /\ \A v \in Workers \ {w} : proc'[v] = proc[v]
        /\ x.job = l.job /\ x.n = l.n
    <3> DEFINE r == Reading(l, "complete")
    <3>0. Good(r)
      BY <1>1, <1>3, ReadingGood DEF Lifecycle, Finishes
    <3>1. r \in Local /\ r.job = l.job /\ r.n = l.n
      BY <1>1, <3>0 DEF Good, Reading, Local
    <3> HIDE DEF r
    <3>2. Goto(r, "run").job = r.job /\ Goto(r, "run").n = r.n
      BY <3>1 DEF Goto, Local
    <3>3. x.job = l.job /\ x.n = l.n
      BY <3>1, <3>2 DEF r
    <3> HIDE DEF x
    <3>4. /\ proc'[w] = x /\ \A v \in Workers \ {w} : proc'[v] = proc[v]
      BY <1>1, <1>3 DEF Become, Callers
    <3> QED
      BY <3>3, <3>4
  <2>3. \A v \in Workers :
          ~ (Held(proc[v]) /\ proc[v].job = l.job /\ proc[v].n = l.n)
    BY <2>1 DEF HeldIsClaimed, Claimed
  <2> HIDE DEF x, l
  <2>4. HeldIsClaimed'
    <3>1. ASSUME NEW v \in Workers, Held(proc'[v])
          PROVE  Claimed(attempt'[proc'[v].job][proc'[v].n].status)
      <4>1. CASE v = w
        BY <2>1, <2>2, <4>1 DEF Claimed
      <4>2. CASE v # w
        BY <2>2, <3>1, <4>2, HeldNames DEF HeldIsClaimed, AttemptsGoOn
      <4> QED
        BY <4>1, <4>2
    <3> QED
      BY <3>1 DEF HeldIsClaimed, Held
  <2>5. OneHolder'
    <3>1. ASSUME NEW u \in Workers, NEW v \in Workers, Held(proc'[u]), Held(proc'[v]),
                 proc'[u].job = proc'[v].job, proc'[u].n = proc'[v].n
          PROVE  u = v
      BY <2>2, <2>3, <3>1 DEF OneHolder
    <3> QED
      BY <3>1 DEF OneHolder, Held
  <2> QED
    BY <2>4, <2>5
<1> QED
  BY <1>2, <1>3, ClaimAdvances

LEMMA ClaimsStep ==
  TypeInv /\ HeldIsClaimed /\ OneHolder /\ [Next]_vars => HeldIsClaimed' /\ OneHolder'
<1> SUFFICES ASSUME TypeInv, HeldIsClaimed, OneHolder, [Next]_vars
             PROVE  HeldIsClaimed' /\ OneHolder'
  OBVIOUS
<1>0. AttemptsGoOn
  BY AttemptsStep
<1>1. CASE Still
  BY <1>0, <1>1, QuietClaims DEF Still
<1>2. CASE ForeignReport
  BY <1>0, <1>2, IdleLocalsQuiet, QuietClaims DEF ForeignReport
<1>3. CASE ClientWrites
  <2>1. Quiet
    BY <1>3, CreateSafe, RetrySafe, ConvergeSafe DEF ClientWrites
  <2> QED
    BY <1>0, <2>1, QuietClaims
<1>4. CASE Claims
  BY <1>0, <1>4, ClaimClaims DEF Claims
<1>5. CASE Ends
  <2>1. Quiet
    BY <1>5, CompleteSafe, FinishSafe DEF Ends
  <2> QED
    BY <1>0, <2>1, QuietClaims
<1> QED
  BY <1>1, <1>2, <1>3, <1>4, <1>5, StepCases

\* An attempt is claimed by one worker at most: however often its command is delivered and
\* whatever is lost, no two workers run it, persist its report or report its failure.
THEOREM OneClaimCorrect == Spec => []OneClaimPerAttempt
<1>1. Init => HeldIsClaimed /\ OneHolder
  <2>1. ASSUME Init PROVE \A w \in Workers : ~ Held(proc[w])
    BY <2>1 DEF Init, Held, Idle, Callers
  <2> QED
    BY <2>1 DEF HeldIsClaimed, OneHolder
<1>2. OneHolder => OneClaimPerAttempt
  BY DEF OneHolder, OneClaimPerAttempt, Held, Holds
<1> QED
  BY <1>1, <1>2, TypesInit, TypesStep, ClaimsStep, PTL DEF Spec

-----------------------------------------------------------------------------
(* Retry receipts: a job's version counts the changes of its attempts, and *)
(* a call that is about to retry or to adopt a retry names the version of  *)
(* the failure it has seen.                                                *)

\* ChangesUpTo, of any attempts: the changes of the first n, and their number.
ChangesOf(f, n) == UNION {{i} \X (1..f[i].ver) : i \in 1..n}
Counted(f, n, v) == IsFiniteSet(ChangesOf(f, n)) /\ Cardinality(ChangesOf(f, n)) = v

LEMMA ChangesMember ==
  ASSUME NEW f, NEW n, NEW x
  PROVE  x \in ChangesOf(f, n) <=> \E i \in 1..n : \E m \in 1..f[i].ver : x = <<i, m>>
<1>1. \A i, V : x \in {i} \X V <=> \E m \in V : x = <<i, m>>
  OBVIOUS
<1>2. x \in ChangesOf(f, n) <=> \E i \in 1..n : x \in {i} \X (1..f[i].ver)
  BY DEF ChangesOf
<1> QED
  BY <1>1, <1>2

\* A change more is counted as one more.
LEMMA OneMore ==
  ASSUME NEW f, NEW n, NEW v, Counted(f, n, v), NEW g, NEW m, NEW x,
         x \notin ChangesOf(f, n), ChangesOf(g, m) = ChangesOf(f, n) \cup {x}
  PROVE  Counted(g, m, v + 1)
<1> DEFINE S == ChangesOf(f, n)
<1>1. IsFiniteSet(S) /\ Cardinality(S) = v /\ x \notin S
  BY DEF Counted
<1>2. ChangesOf(g, m) = S \cup {x}
  OBVIOUS
<1> HIDE DEF S
<1>3. IsFiniteSet(S \cup {x}) /\ Cardinality(S \cup {x}) = v + 1
  BY <1>1, FS_AddElement
<1> QED
  BY <1>2, <1>3 DEF Counted

LEMMA NothingCounted == \A f : Counted(f, 0, 0)
<1>1. ASSUME NEW f PROVE ChangesOf(f, 0) = {}
  BY DEF ChangesOf
<1> QED
  BY <1>1, FS_EmptySet DEF Counted

\* An attempt that is queued is the one change after those of the attempts before it.
LEMMA CountQueued ==
  ASSUME NEW f, NEW n \in Nat, NEW v, Counted(f, n, v), NEW g,
         \A i \in 1..n : g[i].ver = f[i].ver, g[n + 1].ver = 1
  PROVE  Counted(g, n + 1, v + 1)
<1>1. PICK o \in Nat : o = n + 1
  OBVIOUS
<1> DEFINE x == <<o, 1>>
<1>2. x \notin ChangesOf(f, n)
  <2>1. \A i \in 1..n : o # i
    BY <1>1
  <2> QED
    BY <2>1, ChangesMember
<1>3. ChangesOf(g, o) = ChangesOf(f, n) \cup {x}
  <2>1. \A i : i \in 1..o <=> i \in 1..n \/ i = o
    BY <1>1
  <2>2. g[o].ver = 1 /\ \A m : m \in 1..1 <=> m = 1
    BY <1>1
  <2>3. ASSUME NEW y PROVE y \in ChangesOf(g, o) <=> y \in ChangesOf(f, n) \cup {x}
    <3>1. y \in ChangesOf(g, o) <=> \E i \in 1..o : \E m \in 1..g[i].ver : y = <<i, m>>
      BY ChangesMember
    <3>2. y \in ChangesOf(f, n) <=> \E i \in 1..n : \E m \in 1..f[i].ver : y = <<i, m>>
      BY ChangesMember
    <3>3. (\E m \in 1..g[o].ver : y = <<o, m>>) <=> y = x
      BY <2>2
    <3> HIDE DEF x
    <3> QED
      BY <2>1, <3>1, <3>2, <3>3
  <2> QED
    BY <2>3
<1> HIDE DEF x
<1>4. Counted(g, o, v + 1)
  BY <1>2, <1>3, OneMore
<1> QED
  BY <1>1, <1>4

\* The last attempt's next version is one change more.
LEMMA CountMoved ==
  ASSUME NEW f, NEW n \in Nat \ {0}, NEW v, Counted(f, n, v), NEW g,
         \A i \in 1..n : i # n => g[i].ver = f[i].ver,
         NEW a \in Nat, f[n].ver = a, g[n].ver = a + 1
  PROVE  Counted(g, n, v + 1)
<1>1. PICK b \in Nat : b = a + 1
  OBVIOUS
<1> DEFINE x == <<n, b>>
<1>2. x \notin ChangesOf(f, n)
  <2>1. \A m \in 1..a : m # b
    BY <1>1
  <2> QED
    BY <2>1, ChangesMember
<1>3. ChangesOf(g, n) = ChangesOf(f, n) \cup {x}
  <2>1. \A m : m \in 1..b <=> m \in 1..a \/ m = b
    BY <1>1
  <2>2. n \in 1..n
    OBVIOUS
  <2>3. ASSUME NEW y PROVE y \in ChangesOf(g, n) <=> y \in ChangesOf(f, n) \cup {x}
    <3>1. y \in ChangesOf(g, n) <=> \E i \in 1..n : \E m \in 1..g[i].ver : y = <<i, m>>
      BY ChangesMember
    <3>2. y \in ChangesOf(f, n) <=> \E i \in 1..n : \E m \in 1..f[i].ver : y = <<i, m>>
      BY ChangesMember
    <3>3. (\E m \in 1..g[n].ver : y = <<n, m>>) <=> (\E m \in 1..f[n].ver : y = <<n, m>>) \/ y = x
      BY <1>1, <2>1
    <3>4. \A i \in 1..n : i # n => g[i].ver = f[i].ver
      OBVIOUS
    <3> HIDE DEF x
    <3> QED
      BY <2>2, <3>1, <3>2, <3>3, <3>4
  <2> QED
    BY <2>3
<1> HIDE DEF x
<1> QED
  BY <1>2, <1>3, OneMore

\* What the attempts before the last were counted as, when that is queued or running.
LEMMA CountBefore ==
  ASSUME NEW f, NEW n \in Nat, NEW v \in Nat, Counted(f, n + 1, v),
         NEW a \in {1, 2}, f[n + 1].ver = a
  PROVE  Cardinality(ChangesOf(f, n)) = v - a
<1>1. PICK o \in Nat : o = n + 1
  OBVIOUS
<1>2. IsFiniteSet(ChangesOf(f, o)) /\ Cardinality(ChangesOf(f, o)) = v
  BY <1>1 DEF Counted
<1>3. ChangesOf(f, n) \subseteq ChangesOf(f, o)
  <2>1. 1..n \subseteq 1..o
    BY <1>1
  <2> QED
    BY <2>1, ChangesMember DEF ChangesOf
<1>4. IsFiniteSet(ChangesOf(f, n))
  BY <1>2, <1>3, FS_Subset
<1>5. PICK u : u = Cardinality(ChangesOf(f, n))
  OBVIOUS
<1>6. u \in Nat /\ Counted(f, n, u)
  BY <1>4, <1>5, FS_CardinalityType DEF Counted
<1> DEFINE g == [i \in 1..o |-> IF i = o THEN [ver |-> 1] ELSE f[i]]
<1>7. /\ \A i \in 1..n : g[i].ver = f[i].ver
      /\ g[o].ver = 1
      /\ \A i \in 1..o : i # o => g[i].ver = f[i].ver
  BY <1>1
<1> HIDE DEF g
<1>8. Counted(g, o, u + 1)
  BY <1>1, <1>6, <1>7, CountQueued
<1>9. CASE a = 1
  <2>1. \A i \in 1..n : f[i].ver = f[i].ver
    OBVIOUS
  <2>2. Counted(f, o, u + 1)
    BY <1>1, <1>6, <1>9, <2>1, CountQueued
  <2> QED
    BY <1>2, <1>5, <1>6, <1>9, <2>2 DEF Counted
<1>10. CASE a = 2
  <2>1. /\ \A i \in 1..o : i # o => f[i].ver = g[i].ver
        /\ f[o].ver = 1 + 1 /\ o \in Nat \ {0}
    BY <1>1, <1>7, <1>10
  <2>2. Counted(f, o, u + 1 + 1)
    BY <1>7, <1>8, <2>1, CountMoved
  <2> QED
    BY <1>2, <1>5, <1>6, <1>10, <2>2 DEF Counted
<1> QED
  BY <1>9, <1>10
VersionsCount ==
  \A k \in Keys : /\ Counted(attempt[k], job[k].count, job[k].ver)
                  /\ \A n \in Number :
                       /\ attempt[k][n].status = "queued" => attempt[k][n].ver = 1
                       /\ attempt[k][n].status = "in_progress" => attempt[k][n].ver = 2
CountsInv == TypeInv /\ RowsAgree /\ FreshJobs /\ VersionsCount

LEMMA AttemptsCounted ==
  ASSUME CountsInv, NEW k \in Keys
  PROVE  /\ job[k].count \in Nat /\ job[k].ver \in Nat /\ job[k].count <= MaxAttempts
         /\ \A n \in Number : n \in Nat /\ attempt[k][n].ver \in Nat
         /\ \A n, i \in Nat : n <= job[k].count /\ i \in 1..n => i \in Number
BY RowsRead, AttemptsAssumption DEF CountsInv, JobRow, AttemptRow, Number

LEMMA VersionsStep == CountsInv /\ [Next]_vars => VersionsCount'
<1> SUFFICES ASSUME CountsInv, [Next]_vars PROVE VersionsCount'
  OBVIOUS
<1>0. TypeInv /\ RowsAgree /\ FreshJobs /\ VersionsCount
  BY DEF CountsInv
<1>1. CASE JobsStay
  BY <1>0, <1>1 DEF JobsStay, VersionsCount
<1>2. ASSUME NEW k \in Keys, NEW n \in Number, NEW j, QueuesAttempt(k, n, j) PROVE VersionsCount'
  <2>1. /\ \A i \in Keys : job'[i] = IF i = k THEN j ELSE job[i]
        /\ \A i \in Keys, m \in Number :
             attempt'[i][m] = IF i = k /\ m = n THEN QueuedAttempt ELSE attempt[i][m]
        /\ j.count = n
    BY <1>0, <1>2, QueuedRows
  <2>2. n = job[k].count + 1 /\ j.ver = job[k].ver + 1
    BY <1>0, <1>2 DEF QueuesAttempt, RowsAgree, FreshJobs, Queued
  <2>3. \A i \in Keys : i # k => attempt'[i] = attempt[i]
    BY <1>0, <1>2 DEF QueuesAttempt, TypeInv, RowsType
  <2>4. Counted(attempt'[k], n, j.ver)
    <3>1. job[k].count \in Nat /\ \A i \in 1..job[k].count : i \in Number /\ i # n
      BY <2>2, AttemptsCounted
    <3>2. QueuedAttempt.ver = 1
      BY DEF QueuedAttempt
    <3>3. /\ Counted(attempt[k], job[k].count, job[k].ver)
          /\ \A i \in 1..job[k].count : attempt'[k][i].ver = attempt[k][i].ver
          /\ attempt'[k][n].ver = 1
      BY <1>0, <2>1, <3>1, <3>2 DEF VersionsCount
    <3>4. Counted(attempt'[k], job[k].count + 1, job[k].ver + 1)
      BY <2>2, <3>1, <3>3, CountQueued
    <3> QED
      BY <2>2, <3>4
  <2>5. QueuedAttempt.status = "queued" /\ QueuedAttempt.ver = 1
    BY DEF QueuedAttempt
  <2>6. ASSUME NEW i \in Keys
        PROVE  /\ Counted(attempt'[i], job'[i].count, job'[i].ver)
               /\ \A m \in Number :
                    /\ attempt'[i][m].status = "queued" => attempt'[i][m].ver = 1
                    /\ attempt'[i][m].status = "in_progress" => attempt'[i][m].ver = 2
    <3>1. Counted(attempt'[i], job'[i].count, job'[i].ver)
      BY <1>0, <2>1, <2>3, <2>4 DEF VersionsCount
    <3> QED
      BY <1>0, <2>1, <2>5, <3>1 DEF VersionsCount
  <2> QED
    BY <2>6 DEF VersionsCount
<1>3. ASSUME NEW k \in Keys, NEW n \in Number, NEW to \in {"in_progress"} \cup Ended, NEW code,
             Advances(k, n, to, code)
      PROVE  VersionsCount'
  <2>1. /\ \A i \in Keys : i # k => job'[i] = job[i]
        /\ \A i \in Keys, m \in Number : i # k \/ m # n => attempt'[i][m] = attempt[i][m]
        /\ job'[k].count = job[k].count /\ job'[k].ver = job[k].ver + 1
        /\ attempt'[k][n].status = to /\ attempt'[k][n].ver = attempt[k][n].ver + 1
    BY <1>0, <1>3, AdvancedRows
  <2>2. /\ job[k].count = n /\ to # "queued"
        /\ to = "in_progress" => attempt[k][n].status = "queued"
    BY <1>3 DEF Advances, Ended
  <2>3. \A i \in Keys : i # k => attempt'[i] = attempt[i]
    BY <1>0, <1>3 DEF Advances, TypeInv, RowsType
  <2>4. Counted(attempt'[k], n, job'[k].ver)
    <3>1. n \in Nat \ {0} /\ attempt[k][n].ver \in Nat /\ \A i \in 1..n : i \in Number
      BY <2>2, AttemptsCounted DEF Number
    <3>2. /\ Counted(attempt[k], n, job[k].ver)
          /\ \A i \in 1..n : i # n => attempt'[k][i].ver = attempt[k][i].ver
      BY <1>0, <2>1, <2>2, <3>1 DEF VersionsCount
    <3>3. Counted(attempt'[k], n, job[k].ver + 1)
      BY <2>1, <3>1, <3>2, CountMoved
    <3> QED
      BY <2>1, <2>2, <3>3
  <2>5. to = "in_progress" => attempt'[k][n].ver = 2
    BY <1>0, <2>1, <2>2 DEF VersionsCount
  <2>6. ASSUME NEW i \in Keys
        PROVE  /\ Counted(attempt'[i], job'[i].count, job'[i].ver)
               /\ \A m \in Number :
                    /\ attempt'[i][m].status = "queued" => attempt'[i][m].ver = 1
                    /\ attempt'[i][m].status = "in_progress" => attempt'[i][m].ver = 2
    <3>1. Counted(attempt'[i], job'[i].count, job'[i].ver)
      BY <1>0, <2>1, <2>2, <2>3, <2>4 DEF VersionsCount
    <3>2. ASSUME NEW m \in Number
          PROVE  /\ attempt'[i][m].status = "queued" => attempt'[i][m].ver = 1
                 /\ attempt'[i][m].status = "in_progress" => attempt'[i][m].ver = 2
      <4>1. CASE i = k /\ m = n
        BY <2>1, <2>2, <2>5, <4>1
      <4>2. CASE i # k \/ m # n
        BY <1>0, <2>1, <4>2 DEF VersionsCount
      <4> QED
        BY <4>1, <4>2
    <3> QED
      BY <3>1, <3>2
  <2> QED
    BY <2>6 DEF VersionsCount
<1> QED
  BY <1>0, <1>1, <1>2, <1>3, RowCases

\* The changes of the attempts that ended before the current one stay what they are.
LEMMA OldCountsStay ==
  ASSUME CountsInv, [Next]_vars, NEW k \in Keys, NEW n \in 1..(job[k].count - 1)
  PROVE  /\ n \in 1..(job'[k].count - 1)
         /\ Cardinality(ChangesOf(attempt'[k], n)) = Cardinality(ChangesOf(attempt[k], n))
<1>0. TypeInv /\ RowsAgree
  BY DEF CountsInv
<1>1. /\ job[k].count \in Nat /\ n \in Nat /\ n < job[k].count
      /\ \A i \in 1..n : i \in Number /\ i < job[k].count /\ i \in Nat
  <2>1. job[k].count \in Nat /\ n \in Nat /\ n < job[k].count /\ n <= job[k].count
    BY AttemptsCounted
  <2>2. \A i \in 1..n : i \in Nat /\ i < job[k].count
    BY <2>1
  <2> QED
    BY <2>1, <2>2, AttemptsCounted
<1>2. ASSUME \A i \in 1..n : attempt'[k][i] = attempt[k][i]
      PROVE  Cardinality(ChangesOf(attempt'[k], n)) = Cardinality(ChangesOf(attempt[k], n))
  <2>1. ChangesOf(attempt'[k], n) = ChangesOf(attempt[k], n)
    BY <1>2 DEF ChangesOf
  <2> QED
    BY <2>1
<1>3. CASE JobsStay
  BY <1>2, <1>3 DEF JobsStay
<1>4. ASSUME NEW i \in Keys, NEW m \in Number, NEW j, QueuesAttempt(i, m, j)
      PROVE  job'[k].count >= job[k].count /\ \A o \in 1..n : attempt'[k][o] = attempt[k][o]
  <2>1. /\ \A o \in Keys : job'[o] = IF o = i THEN j ELSE job[o]
        /\ \A o \in Keys, h \in Number :
             attempt'[o][h] = IF o = i /\ h = m THEN QueuedAttempt ELSE attempt[o][h]
        /\ j.count = m
    BY <1>0, <1>4, QueuedRows
  <2>2. m = job[i].count + 1
    BY <1>0, <1>4 DEF QueuesAttempt, RowsAgree
  <2> QED
    BY <1>1, <2>1, <2>2
<1>5. ASSUME NEW i \in Keys, NEW m \in Number, NEW to \in {"in_progress"} \cup Ended, NEW code,
             Advances(i, m, to, code)
      PROVE  job'[k].count >= job[k].count /\ \A o \in 1..n : attempt'[k][o] = attempt[k][o]
  <2>1. /\ \A o \in Keys : o # i => job'[o] = job[o]
        /\ \A o \in Keys, h \in Number : o # i \/ h # m => attempt'[o][h] = attempt[o][h]
        /\ job'[i].count = job[i].count
    BY <1>0, <1>5, AdvancedRows
  <2>2. job[i].count = m
    BY <1>5 DEF Advances
  <2> QED
    BY <1>1, <2>1, <2>2
<1>6. TypeInv'
  BY <1>0, TypesStep
<1>7. job'[k].count \in Nat
  BY <1>6, AttemptsAssumption DEF TypeInv, RowsType, JobRow
<1>8. CASE job'[k].count >= job[k].count /\ \A o \in 1..n : attempt'[k][o] = attempt[k][o]
  BY <1>1, <1>2, <1>7, <1>8
<1> QED
  BY <1>0, <1>1, <1>3, <1>4, <1>5, <1>8, RowCases
Names(l) ==
  /\ l.pc \in {"retryPointer", "retry"} => l.seenJob.ver = l.exp
  /\ l.pc = "adopt" => Converged(l.seenJob, l.exp)
ClientsName == \A c \in Clients : Names(proc[c])

LEMMA AnswerNames == \A l, out : Names(Answer(l, out))
BY DEF Names, Answer, Idle

LEMMA MoveNames ==
  ASSUME NEW l \in Local, NEW pc \in PC \ {"retryPointer", "retry", "adopt"}
  PROVE  Names(Goto(l, pc))
BY DEF Names, Goto, Local

LEMMA ClientNames ==
  ASSUME TypeInv, ClientsName, NEW p \in Callers, NEW x, Become(p, x), p \in Clients => Names(x)
  PROVE  ClientsName'
<1>1. \A q \in Callers : proc'[q] = IF q = p THEN x ELSE proc[q]
  BY DEF TypeInv, LocalsGood, Become
<1>2. ASSUME NEW c \in Clients PROVE Names(proc'[c])
  <2>1. c \in Callers
    BY DEF Callers
  <2> QED
    BY <1>1, <2>1 DEF ClientsName
<1> QED
  BY <1>2 DEF ClientsName, Names

LEMMA ClientStepNames ==
  ASSUME TypeInv, ClientsName, NEW c \in Clients, ClientStep(c)
  PROVE  ClientsName'
<1> DEFINE l == proc[c]
<1>0. c \in Callers /\ l \in Local /\ Names(l)
  BY ClientsApart, ClientGood DEF ClientsName
<1>1. \A x : Names(x) /\ Become(c, x) => ClientsName'
  BY <1>0, ClientNames
<1>2. \A out : Names(Answer(l, out))
  BY AnswerNames
<1>3. \A pc \in PC \ {"retryPointer", "retry", "adopt"} : Names(Goto(l, pc))
  BY <1>0, MoveNames
<1>4. CASE \/ Lookup(c) \/ ReadReceipt(c) \/ RereadPointer(c) \/ ReadRecords(c) \/ ReadRaced(c)
           \/ Create(c) \/ Retry(c) \/ Converge(c) \/ Adopt(c) \/ Readopt(c)
  <2>1. /\ "receipt" \in PC /\ "converge" \in PC /\ "rereceipt" \in PC /\ "raced" \in PC
        /\ "readopt" \in PC /\ "pointer" \in PC /\ "job" \in PC /\ "winner" \in PC
        /\ "latest" \in PC
    BY DEF PC
  <2>2. CASE Lookup(c)
    BY <1>1, <1>2, <1>3, <2>1, <2>2 DEF Lookup
  <2>3. CASE ReadReceipt(c)
    <3> DEFINE pc == CASE l.pc = "receipt" /\ l.stage = "create" -> "pointer"
                       [] l.pc = "receipt" /\ l.stage = "retry" -> "job"
                       [] l.pc = "rereceipt" /\ l.stage = "create" -> "winner"
                       [] OTHER -> "latest"
    <3>1. pc \in PC \ {"retryPointer", "retry", "adopt"}
      BY <2>1
    <3>2. Names(Goto(l, pc))
      BY <1>3, <3>1
    <3> QED
      BY <1>1, <1>2, <2>3, <3>2 DEF ReadReceipt
  <2>4. CASE RereadPointer(c)
    BY <1>1, <1>2, <2>4 DEF RereadPointer
  <2>5. CASE ReadRecords(c)
    BY <1>1, <1>2, <1>3, <2>1, <2>5 DEF ReadRecords
  <2>6. CASE ReadRaced(c)
    BY <1>1, <1>2, <2>6 DEF ReadRaced
  <2>7. CASE Create(c)
    BY <1>1, <1>2, <1>3, <2>1, <2>7 DEF Create
  <2>8. CASE Retry(c)
    BY <1>1, <1>2, <1>3, <2>1, <2>8 DEF Retry
  <2>9. CASE Converge(c)
    BY <1>1, <1>2, <1>3, <2>1, <2>9 DEF Converge
  <2>10. CASE Adopt(c)
    BY <1>1, <1>2, <1>3, <2>1, <2>10 DEF Adopt
  <2>11. CASE Readopt(c)
    BY <1>1, <1>2, <2>11 DEF Readopt
  <2> QED
    BY <1>4, <2>2, <2>3, <2>4, <2>5, <2>6, <2>7, <2>8, <2>9, <2>10, <2>11
<1>5. CASE ReadPointer(c)
  <2>1. l.pc = "retryPointer" => Names(Goto(l, "retry"))
    BY <1>0 DEF Names, Goto, Local
  <2>2. Names(Goto(l, "create"))
    BY <1>3 DEF PC
  <2> QED
    BY <1>1, <1>2, <1>5, <2>1, <2>2 DEF ReadPointer
<1>6. CASE ReadWinner(c)
  <2>1. Names([l EXCEPT !.pc = "records", !.job = marker.job, !.kind = marker.kind])
    BY <1>0 DEF Names, Local
  <2>2. Names(Goto(l, "repointer"))
    BY <1>3 DEF PC
  <2> QED
    BY <1>1, <1>6, <2>1, <2>2 DEF ReadWinner
<1>7. CASE ReadJob(c) \/ ReadLatest(c)
  <2> DEFINE j == job[l.job]
             adopt == [l EXCEPT !.pc = "adopt", !.seenJob = j]
             look == [l EXCEPT !.pc = "retryPointer", !.seenJob = j]
  <2>1. /\ adopt.pc = "adopt" /\ adopt.seenJob = j /\ adopt.exp = l.exp
        /\ look.pc = "retryPointer" /\ look.seenJob = j /\ look.exp = l.exp
    BY <1>0 DEF Local
  <2>2. Names(Goto(l, "repointer"))
    BY <1>3 DEF PC
  <2> HIDE DEF adopt, look
  <2>3. Converged(j, l.exp) => Names(adopt)
    BY <2>1 DEF Names
  <2>4. j.ver = l.exp => Names(look)
    BY <2>1 DEF Names
  <2>5. CASE ReadJob(c)
    BY <1>1, <1>2, <2>3, <2>4, <2>5 DEF ReadJob, adopt, look
  <2>6. CASE ReadLatest(c)
    BY <1>1, <2>2, <2>3, <2>6 DEF ReadLatest, adopt
  <2> QED
    BY <1>7, <2>5, <2>6
<1> QED
  BY <1>4, <1>5, <1>6, <1>7 DEF ClientStep

LEMMA NamesStep == TypeInv /\ ClientsName /\ [Next]_vars => ClientsName'
<1> SUFFICES ASSUME TypeInv, ClientsName, [Next]_vars PROVE ClientsName'
  OBVIOUS
<1>1. ASSUME NEW c \in Clients,
             \/ \E k \in CreateKeys : StartCreate(c, k)
             \/ \E k, j \in Keys : \E v \in 1..job[j].ver : StartRetry(c, k, j, v)
      PROVE  ClientsName'
  <2>1. \A x : Names(x) /\ Become(c, x) => ClientsName'
    BY ClientsApart, ClientNames
  <2>2. \A k : Names([Idle EXCEPT !.pc = "lookup", !.stage = "create", !.key = k])
    BY DEF Names, Idle
  <2>3. \A k, j, v : Names([Idle EXCEPT !.pc = "receipt", !.stage = "retry",
                                        !.key = k, !.job = j, !.exp = v])
    BY DEF Names, Idle
  <2> QED
    BY <1>1, <2>1, <2>2, <2>3 DEF StartCreate, StartRetry
<1>2. ASSUME NEW c \in Clients, ClientStep(c) PROVE ClientsName'
  BY <1>2, ClientStepNames
<1>3. ASSUME NEW p \in Workers \cup Finalizers, NEW x, Become(p, x) PROVE ClientsName'
  <2>1. p \in Callers /\ p \notin Clients
    BY CallersAssumption DEF Callers
  <2> QED
    BY <1>3, <2>1, ClientNames
<1>4. ASSUME NEW w \in Workers,
             (\E k \in Keys, n \in Number : StartWork(w, k, n)) \/ WorkerStep(w)
      PROVE  \E x : Become(w, x)
  <2>1. CASE \E k \in Keys, n \in Number : StartWork(w, k, n)
    BY <2>1 DEF StartWork
  <2>2. CASE ReadEvent(w) \/ Claim(w) \/ Run(w) \/ ReadHead(w)
    BY <2>2 DEF ReadEvent, Claim, Run, ReadHead
  <2>3. CASE ReadBinding(w) \/ CheckVersion(w) \/ Complete(w)
    BY <2>3 DEF ReadBinding, CheckVersion, Complete
  <2> QED
    BY <1>4, <2>1, <2>2, <2>3 DEF WorkerStep
<1>5. ASSUME NEW p \in Workers \cup Finalizers, FinishStep(p) PROVE \E x : Become(p, x)
  BY <1>5 DEF FinishStep, ReadFirst, ReadSecond, ReadMarker, Finish
<1>6. ASSUME NEW f \in Finalizers, NEW k \in Keys, NEW n \in Number, NEW code,
             StartFinish(f, k, n, code)
      PROVE  \E x : Become(f, x)
  BY <1>6 DEF StartFinish
<1>7. ASSUME NEW p \in Callers, Return(p) \/ Abort(p) PROVE ClientsName'
  <2>1. Names(Idle)
    BY DEF Names, Idle
  <2> QED
    BY <1>7, <2>1, ClientNames DEF Return, Abort
<1>8. CASE EventMoves \/ ForeignReport \/ UNCHANGED vars
  BY <1>8 DEF EventMoves, ForeignReport, vars, ClientsName
<1> QED
  BY <1>1, <1>2, <1>3, <1>4, <1>5, <1>6, <1>7, <1>8 DEF Next
\* Attempt n of the job ended with the version that the receipt names, and another follows.
NamesFailure(r, n) ==
  /\ r.job \in Keys
  /\ n \in 1..(job[r.job].count - 1)
  /\ r.exp = Cardinality(ChangesOf(attempt[r.job], n))
ReceiptsName == \A k \in Keys : receipt[k].action = "retry" => \E n : NamesFailure(receipt[k], n)
RetryInv == CountsInv /\ ClientsName /\ ReceiptsName

LEMMA RetryNames ==
  ASSUME RetryInv, NEW c \in Clients, Retry(c), NEW k \in Keys, receipt'[k] # receipt[k]
  PROVE  \E n : NamesFailure(receipt[k], n)'
<1> DEFINE l == proc[c]
           h == l.job
           n == job[h].count
<1>0. TypeInv /\ RowsAgree /\ VersionsCount
  BY DEF RetryInv, CountsInv
<1>1. /\ l \in Local /\ h \in Keys /\ l.seenJob.status = "failed_retryable"
      /\ l.seenJob.ver = l.exp
  BY <1>0, ClientGood DEF Retry, Good, Fit, Knows, RetryPC, RetryInv, ClientsName, Names
<1>2. Retriable(l) /\ receipt' = [receipt EXCEPT ![l.key] =
                                    [action |-> "retry", job |-> h, exp |-> l.exp]]
  BY DEF Retry
<1>3. job[h].ver = l.exp /\ job[h].status = "failed_retryable" /\ l.seenJob.count = n
  BY <1>1, <1>2 DEF Retriable, JobFence
<1>4. receipt'[k].job = h /\ receipt'[k].exp = l.exp
  BY <1>0, <1>2 DEF TypeInv, RowsType
<1>5. n \in Nat /\ n \in 1..n /\ \A i \in 1..n : i \in Number /\ i # n + 1
  <2>1. n \in Nat /\ n # 0
    BY <1>0, <1>1, <1>3, AttemptsCounted DEF RetryInv, RowsAgree
  <2> HIDE DEF n
  <2>2. n \in 1..n /\ \A i \in 1..n : i # n + 1 /\ i \in Nat
    BY <2>1
  <2> QED
    BY <1>1, <2>1, <2>2, AttemptsCounted DEF RetryInv, n
<1>6. /\ job' = [job EXCEPT ![h] = Requeued(l.seenJob, n + 1)]
      /\ attempt' = [attempt EXCEPT ![h][n + 1] = QueuedAttempt]
  BY <1>2, <1>3 DEF Retry
<1>7. job'[h].count = n + 1
  BY <1>0, <1>1, <1>6 DEF TypeInv, RowsType, Requeued, Queued
<1>8. \A i \in 1..n : attempt'[h][i] = attempt[h][i]
  BY <1>0, <1>1, <1>5, <1>6 DEF TypeInv, RowsType
<1>9. Counted(attempt[h], n, l.exp)
  BY <1>0, <1>1, <1>3 DEF VersionsCount
<1> HIDE DEF l, n, h
<1>10. PICK m : m = n
  OBVIOUS
<1>11. l.exp = Cardinality(ChangesOf(attempt'[h], m))
  BY <1>8, <1>9, <1>10 DEF Counted, ChangesOf
<1>12. m \in 1..(job'[h].count - 1)
  BY <1>5, <1>7, <1>10
<1>13. NamesFailure(receipt[k], m)'
  BY <1>1, <1>4, <1>11, <1>12 DEF NamesFailure
<1> QED
  BY <1>13

LEMMA AdoptNames ==
  ASSUME RetryInv, NEW c \in Clients, Adopt(c), NEW k \in Keys, receipt'[k] # receipt[k]
  PROVE  \E n : NamesFailure(receipt[k], n)'
<1> DEFINE l == proc[c]
           h == l.job
           v == l.exp
<1>0. TypeInv /\ RowsAgree /\ VersionsCount
  BY DEF RetryInv, CountsInv
<1>1. l \in Local /\ h \in Keys /\ Converged(l.seenJob, v) /\ v \in Nat
  BY <1>0, ClientGood DEF Adopt, Good, Fit, Knows, RetryPC, RetryInv, ClientsName, Names, Local
<1>2. /\ JobFence(l) /\ UNCHANGED <<job, attempt>>
      /\ receipt' = [receipt EXCEPT ![l.key] = [action |-> "retry", job |-> h, exp |-> v]]
  BY DEF Adopt
<1>3. Converged(job[h], v)
  BY <1>1, <1>2 DEF JobFence, Converged
<1>4. receipt'[k].job = h /\ receipt'[k].exp = v
  BY <1>0, <1>2 DEF TypeInv, RowsType
<1> HIDE DEF l, h, v
<1>5. /\ job[h].count \in Nat /\ job[h].count > 1 /\ job[h].ver \in Nat
      /\ job[h].count \in Number
  <2>1. job[h].count \in Nat /\ job[h].count > 1 /\ job[h].ver \in Nat
    BY <1>1, <1>3, AttemptsCounted DEF RetryInv, Converged
  <2>2. job[h].count \in 1..job[h].count /\ job[h].count <= job[h].count
    BY <2>1
  <2> QED
    BY <1>1, <2>1, <2>2, AttemptsCounted DEF RetryInv
<1>6. PICK n \in Nat : n = job[h].count - 1
  BY <1>5
<1>7. PICK a \in {1, 2} : attempt[h][n + 1].ver = a /\ job[h].ver = v + a
  <2>1. n + 1 = job[h].count /\ attempt[h][job[h].count].status = job[h].status
    BY <1>0, <1>1, <1>5, <1>6 DEF RowsAgree
  <2>2. CASE job[h].status = "queued" /\ job[h].ver = v + 1
    <3>1. attempt[h][n + 1].ver = 1
      BY <1>0, <1>1, <1>5, <2>1, <2>2 DEF VersionsCount
    <3> QED
      BY <2>2, <3>1
  <2>3. CASE job[h].status = "in_progress" /\ job[h].ver = v + 2
    <3>1. attempt[h][n + 1].ver = 2
      BY <1>0, <1>1, <1>5, <2>1, <2>3 DEF VersionsCount
    <3> QED
      BY <2>3, <3>1
  <2> QED
    BY <1>3, <2>2, <2>3 DEF Converged
<1>8. v = Cardinality(ChangesOf(attempt[h], n))
  <2>1. Counted(attempt[h], n + 1, job[h].ver)
    BY <1>0, <1>1, <1>5, <1>6 DEF VersionsCount
  <2>2. Cardinality(ChangesOf(attempt[h], n)) = job[h].ver - a
    BY <1>5, <1>7, <2>1, CountBefore
  <2> QED
    BY <1>1, <1>7, <2>2
<1>9. n \in 1..(job[h].count - 1)
  BY <1>5, <1>6
<1>10. NamesFailure(receipt[k], n)'
  BY <1>1, <1>2, <1>4, <1>8, <1>9 DEF NamesFailure
<1> QED
  BY <1>10

LEMMA ReceiptsNameStep == RetryInv /\ [Next]_vars => ReceiptsName'
<1> SUFFICES ASSUME RetryInv, [Next]_vars, NEW k \in Keys, receipt'[k].action = "retry"
             PROVE  \E n : NamesFailure(receipt[k], n)'
  BY DEF ReceiptsName
<1>0. TypeInv /\ CountsInv
  BY DEF RetryInv, CountsInv
<1>1. CASE receipt'[k] = receipt[k]
  <2>1. PICK n : NamesFailure(receipt[k], n)
    BY <1>1 DEF RetryInv, ReceiptsName
  <2>2. NamesFailure(receipt[k], n)'
    BY <1>0, <1>1, <2>1, OldCountsStay DEF NamesFailure
  <2> QED
    BY <2>2
<1>2. CASE receipt'[k] # receipt[k]
  <2>1. CASE Still \/ ForeignReport
    BY <1>2, <2>1 DEF Still, rows, ForeignReport
  <2>2. CASE Claims \/ Ends
    BY <1>2, <2>2 DEF Claims, Claim, Ends, Complete, Finish
  <2>3. ASSUME NEW c \in Clients, Create(c) \/ Converge(c) PROVE FALSE
    <3>1. \/ UNCHANGED receipt
          \/ \E r : r.action = "create" /\ receipt' = [receipt EXCEPT ![proc[c].key] = r]
      BY <2>3 DEF Create, Converge
    <3> QED
      BY <1>0, <1>2, <3>1 DEF TypeInv, RowsType
  <2> QED
    BY <1>0, <1>2, <2>1, <2>2, <2>3, RetryNames, AdoptNames, StepCases DEF ClientWrites
<1> QED
  BY <1>1, <1>2

\* A retry, done or adopted, is filed under the version of a failure after which exactly one
\* attempt was queued, and the job still has that attempt: however requests, retries and
\* replays under several keys race, a client that repeats its request is never answered with
\* an attempt that some other failure was retried with.
THEOREM ReceiptsCorrect == Spec => []RetryReceiptsNameAFailure
<1>1. Init => RetryInv
  <2> SUFFICES ASSUME Init PROVE RetryInv
    OBVIOUS
  <2>1. TypeInv /\ RowsAgree /\ FreshJobs
    <3>1. \A n \in Number : n # 0 /\ ~ (n < 0)
      BY AttemptsAssumption DEF Number
    <3>2. TypeInv
      BY TypesInit
    <3> QED
      BY <3>1, <3>2 DEF Init, RowsAgree, FreshJobs, NoJob, NoAttempt
  <2>2. VersionsCount
    BY NothingCounted DEF Init, VersionsCount, NoJob, NoAttempt
  <2>3. ClientsName /\ ReceiptsName
    BY DEF Init, ClientsName, ReceiptsName, Names, Idle, NoReceipt, Callers
  <2> QED
    BY <2>1, <2>2, <2>3 DEF RetryInv, CountsInv
<1>2. RetryInv /\ [Next]_vars => RetryInv'
  BY TypesStep, AgreeStep, FreshStep, VersionsStep, NamesStep, ReceiptsNameStep
     DEF RetryInv, CountsInv
<1>3. RetryInv => RetryReceiptsNameAFailure
  <2>1. \A k, n : ChangesUpTo(k, n) = ChangesOf(attempt[k], n)
    BY DEF ChangesUpTo, ChangesOf
  <2> QED
    BY <2>1 DEF RetryInv, ReceiptsName, NamesFailure, RetryReceiptsNameAFailure, VersionAfter
<1> QED
  BY <1>1, <1>2, <1>3, PTL DEF Spec
=============================================================================
