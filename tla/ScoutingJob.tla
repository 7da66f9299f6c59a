------------------------------ MODULE ScoutingJob ------------------------------
(***************************************************************************)
(* The scouting jobs of one requester for one version of one event, as     *)
(* DynamoScoutingJobRepository and DynamoScoutingReportRepository keep     *)
(* them, and the callers that race on them:                                *)
(*   Clients     requests to create or retry a job (scouting-handler);     *)
(*   Workers     invocations of the workflow (scouting-workflow);          *)
(*   Finalizers  the state machine's failure finalizers and the            *)
(*               dispatcher's recovery, which only finish an attempt.      *)
(*                                                                         *)
(* A job's id is a digest of the idempotency key it was created under and  *)
(* of the command, an attempt's of its job and number, so keys stand for   *)
(* jobs and numbers for attempts; the current attempt of a job is the one  *)
(* numbered with its attempt count.  All jobs here have one semantic       *)
(* digest, so they share one lock row.  Every read and every transaction   *)
(* of a caller is an action; Promise.all of two reads is two actions, in   *)
(* either order.  Each caller may stop between any two (Abort): a crash, a *)
(* timeout, or a transport error, which the code lets escape everywhere    *)
(* but in the report reads of a worker.                                    *)
(***************************************************************************)
EXTENDS Integers, FiniteSets

CONSTANTS
  Keys,          \* idempotency keys, and the jobs created under them
  NoKey,
  CreateKeys,    \* bound: the keys that are used to create
  MaxAttempts,   \* SCOUTING_MAX_ATTEMPTS
  Clients, Workers, Finalizers,
  MaxForeign     \* bound: reports of the event's later versions

Callers == Clients \cup Workers \cup Finalizers
Number == 1..MaxAttempts

ASSUME KeysAssumption == NoKey \notin Keys /\ CreateKeys \subseteq Keys
ASSUME AttemptsAssumption == MaxAttempts \in Nat \ {0}
ASSUME CallersAssumption ==
  /\ Clients \cap Workers = {}
  /\ (Clients \cup Workers) \cap Finalizers = {}
ASSUME ForeignAssumption == MaxForeign \in Nat

VARIABLES
  current,   \* the event's pointer still shows the version the jobs are for
  receipt,   \* what each idempotency key was used for
  marker,    \* the lock row of the semantic digest, or its tombstone
  job, attempt, outbox,
  binding,   \* number of the report version each job was completed with
  head,      \* number of the latest version of the event's report
  proc       \* local state of each caller

rows == <<receipt, marker, job, attempt, outbox, binding, head>>
vars == <<current, rows, proc>>

Retryable == {"workflow-timeout", "workflow-temporarily-unavailable",
              "fixture-transient-failure"}
Terminal == {"event-version-changed", "fixture-contract-invalid",
             "workflow-terminal-failure"}
Codes == Retryable \cup Terminal
StatusOf(code) == IF code \in Retryable THEN "failed_retryable" ELSE "failed_terminal"

Active == {"queued", "in_progress"}
Ended == {"completed", "failed_retryable", "failed_terminal"}
Status == {"none"} \cup Active \cup Ended
JobRow == [status: Status, ver: Nat, count: 0..MaxAttempts, code: Codes \cup {"none"}]
AttemptRow == [status: Status, ver: Nat, code: Codes \cup {"none"}]
Marker == [kind: {"none", "active", "terminal"}, job: Keys \cup {NoKey}, n: 0..MaxAttempts]
Receipt == [action: {"none", "create", "retry"}, job: Keys \cup {NoKey}, exp: Nat]

NoJob == [status |-> "none", ver |-> 0, count |-> 0, code |-> "none"]
NoAttempt == [status |-> "none", ver |-> 0, code |-> "none"]
NoReceipt == [action |-> "none", job |-> NoKey, exp |-> 0]
Failed == {"failed_retryable", "failed_terminal"}
Queued(n) == [status |-> "queued", ver |-> 1, count |-> n, code |-> "none"]
QueuedAttempt == [status |-> "queued", ver |-> 1, code |-> "none"]
\* makeRetryRecords; variant: the job keeps its failure code.
RequeuedWithFailure(j, n) == [j EXCEPT !.status = "queued", !.ver = @ + 1, !.count = n]
Requeued(j, n) == [Queued(n) EXCEPT !.ver = j.ver + 1]

PC == {"idle", "done",
       \* createJob, behind the handler's replay lookup
       "lookup", "receipt", "pointer", "create", "rereceipt", "winner", "repointer",
       "records", "converge", "raced",
       \* retryJob
       "job", "retryPointer", "retry", "latest", "adopt", "readopt",
       \* the pair of reads of a lifecycle call
       "read", "readJob", "readAttempt",
       \* claimAttempt and the workflow
       "event", "claim", "reevent", "run", "head", "binding", "version", "complete", "lost", "reload",
       \* finishAttempt
       "marker", "finish", "remarker"}
Stage == {"none", "create", "retry", "claim", "reclaim", "complete", "finish", "refinish"}
Out == {"none", "created", "replayed", "converged", "retried", "adopted", "refused",
        "corrupt", "completed", "finished", "stale", "ambiguous"}

Local ==
  [pc: PC, stage: Stage,
   key: Keys \cup {NoKey},            \* a client's idempotency key
   job: Keys \cup {NoKey}, n: 0..MaxAttempts, exp: Nat,
   code: Codes \cup {"none"},         \* what a finish reports
   seenJob: JobRow, seenAttempt: AttemptRow,
   kind: {"none", "active", "terminal"},
   head: Nat,
   out: Out]
Idle == [pc |-> "idle", stage |-> "none", key |-> NoKey, job |-> NoKey, n |-> 0, exp |-> 0,
         code |-> "none", seenJob |-> NoJob, seenAttempt |-> NoAttempt,
         kind |-> "none", head |-> 0, out |-> "none"]

Init ==
  /\ current = TRUE
  /\ receipt = [k \in Keys |-> NoReceipt]
  /\ marker = [kind |-> "none", job |-> NoKey, n |-> 0]
  /\ job = [k \in Keys |-> NoJob]
  /\ attempt = [k \in Keys |-> [n \in Number |-> NoAttempt]]
  /\ outbox = [k \in Keys |-> [n \in Number |-> "none"]]
  /\ binding = [k \in Keys |-> 0]
  /\ head = 0
  /\ proc = [p \in Callers |-> Idle]

Become(p, l) == proc' = [proc EXCEPT ![p] = l]
Goto(l, pc) == [l EXCEPT !.pc = pc]
Answer(l, out) == [Idle EXCEPT !.pc = "done", !.out = out, !.stage = l.stage,
                               !.key = l.key, !.job = l.job, !.n = l.n]
Reading(l, stage) == [l EXCEPT !.pc = "read", !.stage = stage, !.head = 0,
                               !.seenJob = NoJob, !.seenAttempt = NoAttempt]
Finishing(l, code) == [Reading(l, "finish") EXCEPT !.code = code]

-----------------------------------------------------------------------------
(* Fences of the transactions. *)

JobFence(l) ==
  /\ job[l.job].ver = l.seenJob.ver
  /\ job[l.job].status = l.seenJob.status
  /\ job[l.job].count = l.seenJob.count
AttemptFence(l) ==
  /\ attempt[l.job][l.n].ver = l.seenAttempt.ver
  /\ attempt[l.job][l.n].status = l.seenAttempt.status
\* variant: a lifecycle call writes what it last read, plus its change.
LastWriterWins(l) == TRUE
Fenced(l) == JobFence(l) /\ AttemptFence(l)
Mine(m, l) == m = [kind |-> "active", job |-> l.job, n |-> l.n]

\* The job and its current attempt end together and the lock becomes a tombstone.
Settle(l, status, code) ==
  /\ job' = [job EXCEPT ![l.job] =
               [l.seenJob EXCEPT !.status = status, !.ver = @ + 1, !.code = code]]
  /\ attempt' = [attempt EXCEPT ![l.job][l.n] =
                   [l.seenAttempt EXCEPT !.status = status, !.ver = @ + 1, !.code = code]]
  /\ marker' = [marker EXCEPT !.kind = "terminal"]

-----------------------------------------------------------------------------
(* Creating a job. *)

\* The handler resolves the event before it looks for a replay; a request that finds
\* another version of it, and no receipt, is about jobs of another digest.
StartCreate(c, k) ==
  /\ proc[c].pc = "idle"
  /\ current \/ receipt[k].action # "none"
  /\ Become(c, [Idle EXCEPT !.pc = "lookup", !.stage = "create", !.key = k])
  /\ UNCHANGED <<current, rows>>

\* getCreateReplay recomputes the job's id from the key of the request.
Lookup(c) ==
  LET l == proc[c]
      r == receipt[l.key]
  IN  /\ l.pc = "lookup"
      /\ Become(c, IF r.action = "none" THEN Goto(l, "receipt")
                   ELSE IF r.action # "create" THEN Answer(l, "refused")
                   ELSE IF r.job # l.key THEN Answer(l, "corrupt")
                   ELSE Answer(l, "replayed"))
      /\ UNCHANGED <<current, rows>>

\* validateReceipt
Fits(r, l) ==
  /\ r.action = l.stage
  /\ l.stage = "retry" => r.job = l.job /\ r.exp = l.exp

\* The stored job, its current attempt and its outbox record never disappear once
\* written, so a replay's three reads are one step.
ReadReceipt(c) ==
  LET l == proc[c]
      r == receipt[l.key]
  IN  /\ l.pc \in {"receipt", "rereceipt"}
      /\ Become(c, IF r.action # "none"
                   THEN Answer(l, IF ~ Fits(r, l) THEN "refused"
                                  ELSE IF outbox[r.job][job[r.job].count] = "none"
                                  THEN "corrupt" ELSE "replayed")
                   ELSE Goto(l, CASE l.pc = "receipt" /\ l.stage = "create" -> "pointer"
                                  [] l.pc = "receipt" /\ l.stage = "retry" -> "job"
                                  [] l.pc = "rereceipt" /\ l.stage = "create" -> "winner"
                                  [] OTHER -> "latest"))
      /\ UNCHANGED <<current, rows>>

ReadPointer(c) ==
  LET l == proc[c]
  IN  /\ l.pc \in {"pointer", "retryPointer"}
      /\ Become(c, IF ~ current THEN Answer(l, "refused")
                   ELSE Goto(l, IF l.pc = "pointer" THEN "create" ELSE "retry"))
      /\ UNCHANGED <<current, rows>>

\* variant: two keys of one digest are not fenced from each other.
CreatableUnlocked(l) ==
  current /\ receipt[l.key].action = "none" /\ job[l.key].status = "none"
Creatable(l) ==
  /\ current
  /\ receipt[l.key].action = "none"
  /\ marker.kind # "active"
  /\ job[l.key].status = "none"
  /\ attempt[l.key][1].status = "none"
  /\ outbox[l.key][1] = "none"

Create(c) ==
  LET l == proc[c]
  IN  /\ l.pc = "create"
      /\ IF Creatable(l)
         THEN /\ receipt' = [receipt EXCEPT ![l.key] =
                               [action |-> "create", job |-> l.key, exp |-> 0]]
              /\ marker' = [kind |-> "active", job |-> l.key, n |-> 1]
              /\ job' = [job EXCEPT ![l.key] = Queued(1)]
              /\ attempt' = [attempt EXCEPT ![l.key][1] = QueuedAttempt]
              /\ outbox' = [outbox EXCEPT ![l.key][1] = "pending"]
              /\ Become(c, Answer(l, "created"))
         ELSE /\ Become(c, Goto(l, "rereceipt"))
              /\ UNCHANGED <<receipt, marker, job, attempt, outbox>>
      /\ UNCHANGED <<current, binding, head>>

ReadWinner(c) ==
  LET l == proc[c]
  IN  /\ l.pc = "winner"
      /\ Become(c, IF marker.kind = "none" THEN Goto(l, "repointer")
                   ELSE [l EXCEPT !.pc = "records", !.job = marker.job, !.kind = marker.kind])
      /\ UNCHANGED <<current, rows>>

\* What was the reason of the lost transaction, when nobody else explains it?
RereadPointer(c) ==
  LET l == proc[c]
  IN  /\ l.pc = "repointer"
      /\ Become(c, Answer(l, IF current /\ l.stage = "create" THEN "corrupt" ELSE "refused"))
      /\ UNCHANGED <<current, rows>>

\* The winner's status is compared with what its lock row said one read earlier.
ReadRecords(c) ==
  LET l == proc[c]
      s == job[l.job].status
  IN  /\ l.pc = "records"
      /\ Become(c, IF s \in (IF l.kind = "active" THEN Active ELSE Ended)
                   THEN Goto(l, "converge") ELSE Answer(l, "corrupt"))
      /\ UNCHANGED <<current, rows>>

Converge(c) ==
  LET l == proc[c]
  IN  /\ l.pc = "converge"
      /\ IF job[l.job].status # "none" /\ receipt[l.key].action = "none"
         THEN /\ receipt' = [receipt EXCEPT ![l.key] =
                               [action |-> "create", job |-> l.job, exp |-> 0]]
              /\ Become(c, Answer(l, "converged"))
         ELSE /\ Become(c, Goto(l, "raced"))
              /\ UNCHANGED receipt
      /\ UNCHANGED <<current, marker, job, attempt, outbox, binding, head>>

ReadRaced(c) ==
  LET l == proc[c]
      r == receipt[l.key]
  IN  /\ l.pc = "raced"
      /\ Become(c, Answer(l, IF r.action = "none" THEN "corrupt"
                             ELSE IF ~ Fits(r, l) THEN "refused"
                             ELSE IF r.job # l.job THEN "corrupt" ELSE "converged"))
      /\ UNCHANGED <<current, rows>>

-----------------------------------------------------------------------------
(* Retrying a job. *)

\* A client names a version of the job that it has been shown.
StartRetry(c, k, j, v) ==
  /\ proc[c].pc = "idle"
  /\ v \in 1..job[j].ver
  /\ Become(c, [Idle EXCEPT !.pc = "receipt", !.stage = "retry",
                            !.key = k, !.job = j, !.exp = v])
  /\ UNCHANGED <<current, rows>>

\* convergedRetry: the job has moved on from the expected version by a retry, and at
\* most a claim.
\* variant: any later active version will do.
ConvergedLater(j, v) == j.count > 1 /\ j.status \in Active /\ j.ver > v
Converged(j, v) ==
  /\ j.count > 1
  /\ \/ j.status = "queued" /\ j.ver = v + 1
     \/ j.status = "in_progress" /\ j.ver = v + 2

ReadJob(c) ==
  LET l == proc[c]
      j == job[l.job]
  IN  /\ l.pc = "job"
      /\ Become(c, IF Converged(j, l.exp)
                   THEN [l EXCEPT !.pc = "adopt", !.seenJob = j]
                   ELSE IF j.status # "failed_retryable" \/ j.ver # l.exp
                           \/ j.count >= MaxAttempts
                   THEN Answer(l, "refused")
                   ELSE [l EXCEPT !.pc = "retryPointer", !.seenJob = j])
      /\ UNCHANGED <<current, rows>>

\* The lock is free, or it is the tombstone that this very attempt left.
RetryLock(l) ==
  \/ marker.kind = "none"
  \/ marker = [kind |-> "terminal", job |-> l.job, n |-> l.seenJob.count]

\* variant: the transaction trusts the read.
RetriableOnSight(l) == current /\ receipt[l.key].action = "none"
Retriable(l) ==
  /\ current
  /\ JobFence(l)
  /\ attempt[l.job][l.seenJob.count + 1].status = "none"
  /\ outbox[l.job][l.seenJob.count + 1] = "none"
  /\ RetryLock(l)
  /\ receipt[l.key].action = "none"

Retry(c) ==
  LET l == proc[c]
      n == l.seenJob.count + 1
  IN  /\ l.pc = "retry"
      /\ IF Retriable(l)
         THEN /\ receipt' = [receipt EXCEPT ![l.key] =
                               [action |-> "retry", job |-> l.job, exp |-> l.exp]]
              /\ marker' = [kind |-> "active", job |-> l.job, n |-> n]
              /\ job' = [job EXCEPT ![l.job] = Requeued(l.seenJob, n)]
              /\ attempt' = [attempt EXCEPT ![l.job][n] = QueuedAttempt]
              /\ outbox' = [outbox EXCEPT ![l.job][n] = "pending"]
              /\ Become(c, Answer(l, "retried"))
         ELSE /\ Become(c, Goto(l, "rereceipt"))
              /\ UNCHANGED <<receipt, marker, job, attempt, outbox>>
      /\ UNCHANGED <<current, binding, head>>

ReadLatest(c) ==
  LET l == proc[c]
      j == job[l.job]
  IN  /\ l.pc = "latest"
      /\ Become(c, IF j.count = l.seenJob.count + 1 /\ Converged(j, l.exp)
                   THEN [l EXCEPT !.pc = "adopt", !.seenJob = j]
                   ELSE Goto(l, "repointer"))
      /\ UNCHANGED <<current, rows>>

\* persistConvergedRetryReceipt
Adopt(c) ==
  LET l == proc[c]
  IN  /\ l.pc = "adopt"
      /\ IF /\ JobFence(l)
            /\ marker.job = l.job /\ marker.n = l.seenJob.count
            /\ receipt[l.key].action = "none"
         THEN /\ receipt' = [receipt EXCEPT ![l.key] =
                               [action |-> "retry", job |-> l.job, exp |-> l.exp]]
              /\ Become(c, Answer(l, "adopted"))
         ELSE /\ Become(c, Goto(l, "readopt"))
              /\ UNCHANGED receipt
      /\ UNCHANGED <<current, marker, job, attempt, outbox, binding, head>>

Readopt(c) ==
  LET l == proc[c]
      r == receipt[l.key]
  IN  /\ l.pc = "readopt"
      /\ Become(c, Answer(l, IF r.action # "none" /\ Fits(r, l)
                             THEN "adopted" ELSE "refused"))
      /\ UNCHANGED <<current, rows>>

-----------------------------------------------------------------------------
(* The pair of reads with which a lifecycle call begins and, after a lost  *)
(* transaction, ends; and what the call concludes from it.                 *)

Judged(l) ==
  LET j == l.seenJob
      a == l.seenAttempt
      both(s) == j.status = s /\ a.status = s
      reported == both(StatusOf(l.code)) /\ j.code = l.code /\ a.code = l.code
      open == j.status = a.status /\ j.status \in Active
  IN  CASE l.stage \in {"claim", "reclaim"} ->
             IF j.count # l.n THEN Answer(l, "stale")
             ELSE IF both("in_progress") THEN Answer(l, "ambiguous")
             ELSE IF both("queued")
             THEN Goto(l, IF l.stage = "claim" THEN "event" ELSE "reevent")
             ELSE Answer(l, "stale")
        [] l.stage = "complete" ->
             IF j.count # l.n \/ ~ both("in_progress")
             THEN Finishing(l, "workflow-terminal-failure") ELSE Goto(l, "version")
        [] OTHER ->
             IF j.count # l.n THEN Answer(l, "stale")
             ELSE IF reported THEN Answer(l, "finished")
             ELSE IF ~ open THEN Answer(l, "stale")
             ELSE Goto(l, IF l.stage = "finish" THEN "marker" ELSE "remarker")

ReadFirst(p) ==
  LET l == proc[p]
  IN  /\ l.pc = "read"
      /\ \/ Become(p, [l EXCEPT !.pc = "readAttempt", !.seenJob = job[l.job]])
         \/ Become(p, [l EXCEPT !.pc = "readJob", !.seenAttempt = attempt[l.job][l.n]])
      /\ UNCHANGED <<current, rows>>

ReadSecond(p) ==
  LET l == proc[p]
  IN  /\ l.pc \in {"readJob", "readAttempt"}
      /\ Become(p, Judged(IF l.pc = "readJob" THEN [l EXCEPT !.seenJob = job[l.job]]
                          ELSE [l EXCEPT !.seenAttempt = attempt[l.job][l.n]]))
      /\ UNCHANGED <<current, rows>>

-----------------------------------------------------------------------------
(* A worker: claim, run, persist the report or report the failure. *)

\* A dispatch command exists once its outbox record does.
StartWork(w, k, n) ==
  /\ proc[w].pc = "idle"
  /\ outbox[k][n] # "none"
  /\ Become(w, Reading([Idle EXCEPT !.job = k, !.n = n], "claim"))
  /\ UNCHANGED <<current, rows>>

ReadEvent(w) ==
  LET l == proc[w]
  IN  /\ l.pc \in {"event", "reevent"}
      /\ Become(w, IF ~ current THEN Finishing(l, "event-version-changed")
                   ELSE IF l.pc = "event" THEN Goto(l, "claim") ELSE Answer(l, "stale"))
      /\ UNCHANGED <<current, rows>>

Claimable(l) == current /\ Fenced(l)

Claim(w) ==
  LET l == proc[w]
  IN  /\ l.pc = "claim"
      /\ IF Claimable(l)
         THEN /\ job' = [job EXCEPT ![l.job] =
                           [l.seenJob EXCEPT !.status = "in_progress", !.ver = @ + 1]]
              /\ attempt' = [attempt EXCEPT ![l.job][l.n] =
                               [l.seenAttempt EXCEPT !.status = "in_progress", !.ver = @ + 1]]
              /\ Become(w, Goto(Reading(l, "complete"), "run"))
         ELSE /\ Become(w, Reading(l, "reclaim"))
              /\ UNCHANGED <<job, attempt>>
      /\ UNCHANGED <<current, receipt, marker, outbox, binding, head>>

Run(w) ==
  LET l == proc[w]
  IN  /\ l.pc = "run"
      /\ \/ Become(w, Goto(l, "head"))
         \/ \E code \in {"fixture-contract-invalid", "fixture-transient-failure"} :
              Become(w, Finishing(l, code))
      /\ UNCHANGED <<current, rows>>

\* guardTransientRead: a failed read of the report is reported, not thrown.  So is the
\* last conflict of SCOUTING_REPORT_CAS_RETRY_LIMIT over the report's next version; the
\* conflicts are not counted, any may be the last.
ReadHead(w) ==
  LET l == proc[w]
  IN  /\ l.pc \in {"head", "reload"}
      /\ \/ Become(w, [l EXCEPT !.pc = "binding", !.head = head])
         \/ Become(w, Finishing(l, "workflow-temporarily-unavailable"))
      /\ UNCHANGED <<current, rows>>

\* A job that is bound already is a replay if the material is the same.
ReadBinding(w) ==
  LET l == proc[w]
  IN  /\ l.pc \in {"binding", "lost"}
      /\ \/ /\ binding[l.job] # 0
            /\ \/ Become(w, Answer(l, "completed"))
               \/ Become(w, Finishing(l, "workflow-terminal-failure"))
         \/ /\ binding[l.job] = 0
            /\ Become(w, IF l.pc = "binding"
                         THEN [Reading(l, "complete") EXCEPT !.head = l.head]
                         ELSE Goto(l, "reload"))
      /\ UNCHANGED <<current, rows>>

CheckVersion(w) ==
  LET l == proc[w]
  IN  /\ l.pc = "version"
      /\ Become(w, IF current THEN Goto(l, "complete")
                   ELSE Finishing(l, "event-version-changed"))
      /\ UNCHANGED <<current, rows>>

\* The slot of the next version is free exactly when the head has not moved.
SlotFree(l) == head = l.head /\ binding[l.job] = 0
Completable(l) ==
  current /\ SlotFree(l) /\ Fenced(l) /\ Mine(marker, l)

Complete(w) ==
  LET l == proc[w]
  IN  /\ l.pc = "complete"
      /\ IF Completable(l)
         THEN /\ Settle(l, "completed", "none")
              /\ binding' = [binding EXCEPT ![l.job] = l.head + 1]
              /\ head' = l.head + 1
              /\ Become(w, Answer(l, "completed"))
         ELSE /\ Become(w, IF ~ SlotFree(l) THEN Goto(l, "lost")
                           ELSE IF Fenced(l) /\ Mine(marker, l)
                           THEN Finishing(l, "event-version-changed")
                           ELSE Finishing(l, "workflow-terminal-failure"))
              /\ UNCHANGED <<job, attempt, marker, binding, head>>
      /\ UNCHANGED <<current, receipt, outbox>>

-----------------------------------------------------------------------------
(* Finishing an attempt. *)

StartFinish(f, k, n, code) ==
  /\ proc[f].pc = "idle"
  /\ outbox[k][n] # "none"
  /\ Become(f, Finishing([Idle EXCEPT !.job = k, !.n = n], code))
  /\ UNCHANGED <<current, rows>>

ReadMarker(p) ==
  LET l == proc[p]
  IN  /\ l.pc \in {"marker", "remarker"}
      /\ Become(p, IF ~ Mine(marker, l) THEN Answer(l, "corrupt")
                   ELSE IF l.pc = "marker" THEN Goto(l, "finish") ELSE Answer(l, "stale"))
      /\ UNCHANGED <<current, rows>>

Finish(p) ==
  LET l == proc[p]
  IN  /\ l.pc = "finish"
      /\ IF Fenced(l) /\ Mine(marker, l)
         THEN /\ Settle(l, StatusOf(l.code), l.code)
              /\ Become(p, Answer(l, "finished"))
         ELSE /\ Become(p, Reading(l, "refinish"))
              /\ UNCHANGED <<job, attempt, marker>>
      /\ UNCHANGED <<current, receipt, outbox, binding, head>>

-----------------------------------------------------------------------------
(* The rest of the system. *)

\* Every revision of the canonical event gives it a new material version; one that ends
\* the event is answered with a terminal code of its own, which nothing distinguishes.
EventMoves ==
  /\ current
  /\ current' = FALSE
  /\ UNCHANGED <<rows, proc>>

\* Jobs of the event's later versions add to the same report.
ForeignReport ==
  /\ ~ current
  /\ head < MaxForeign
  /\ head' = head + 1
  /\ UNCHANGED <<current, receipt, marker, job, attempt, outbox, binding, proc>>

Return(p) ==
  /\ proc[p].pc = "done"
  /\ Become(p, Idle)
  /\ UNCHANGED <<current, rows>>

\* A call that committed may still be lost before it returns.
Abort(p) ==
  /\ proc[p].pc # "idle"
  /\ Become(p, Idle)
  /\ UNCHANGED <<current, rows>>

ClientStep(c) ==
  \/ Lookup(c) \/ ReadReceipt(c) \/ ReadPointer(c) \/ Create(c)
  \/ ReadWinner(c) \/ RereadPointer(c) \/ ReadRecords(c) \/ Converge(c) \/ ReadRaced(c)
  \/ ReadJob(c) \/ Retry(c) \/ ReadLatest(c) \/ Adopt(c) \/ Readopt(c)
WorkerStep(w) ==
  \/ ReadEvent(w) \/ Claim(w) \/ Run(w) \/ ReadHead(w) \/ ReadBinding(w)
  \/ CheckVersion(w) \/ Complete(w)
FinishStep(p) ==
  \/ ReadFirst(p) \/ ReadSecond(p) \/ ReadMarker(p) \/ Finish(p)

Next ==
  \/ \E c \in Clients :
       \/ \E k \in CreateKeys : StartCreate(c, k)
       \/ \E k, j \in Keys : \E v \in 1..job[j].ver : StartRetry(c, k, j, v)
       \/ ClientStep(c)
  \/ \E w \in Workers :
       \/ \E k \in Keys, n \in Number : StartWork(w, k, n)
       \/ WorkerStep(w)
       \/ FinishStep(w)
  \/ \E f \in Finalizers :
       \/ \E k \in Keys, n \in Number :
            \E code \in {"workflow-timeout", "workflow-temporarily-unavailable"} :
              StartFinish(f, k, n, code)
       \/ FinishStep(f)
  \/ \E p \in Callers : Return(p) \/ Abort(p)
  \/ EventMoves \/ ForeignReport

Spec == Init /\ [][Next]_vars

-----------------------------------------------------------------------------
(* Properties *)

TypeOK ==
  /\ current \in BOOLEAN
  /\ receipt \in [Keys -> Receipt]
  /\ marker \in Marker
  /\ job \in [Keys -> JobRow]
  /\ \A k \in Keys : job[k].code # "none" <=> job[k].status \in Failed
  /\ attempt \in [Keys -> [Number -> AttemptRow]]
  /\ outbox \in [Keys -> [Number -> {"none", "pending"}]]
  /\ binding \in [Keys -> Nat]
  /\ head \in Nat
  /\ proc \in [Callers -> Local]

\* There is never more than one queued or running job for the digest, and the lock row
\* says which one, and which of its attempts: no dead lock blocks the event for ever, and
\* no active job is without the lock that its end and a rival's creation are fenced by.
LockIsTheActiveJob ==
  /\ \A k \in Keys : job[k].status \in Active =>
       marker = [kind |-> "active", job |-> k, n |-> job[k].count]
  /\ marker.kind = "active" => marker.job \in Keys /\ job[marker.job].status \in Active

\* The job says what its current attempt says, all earlier attempts failed retryably, and
\* exactly the attempts up to the count exist, each with its outbox record: a retry loses
\* no attempt and a stale worker overwrites none.
RowsAgree ==
  \A k \in Keys :
    /\ job[k].status = "none" <=> job[k].count = 0
    /\ \A n \in Number :
         /\ n = job[k].count =>
              attempt[k][n].status = job[k].status /\ attempt[k][n].code = job[k].code
         /\ n < job[k].count => attempt[k][n].status = "failed_retryable"
         /\ n > job[k].count => attempt[k][n].status = "none"
         /\ attempt[k][n].status = "none" <=> outbox[k][n] = "none"

\* A job is completed exactly when a version of the report is bound to it, no two jobs are
\* bound to one version, and none to a version the head has not reached.
CompletedIsBound ==
  \A k \in Keys :
    /\ job[k].status = "completed" <=> binding[k] # 0
    /\ binding[k] <= head
    /\ \A j \in Keys \ {k} : binding[k] = binding[j] => binding[k] = 0

\* An attempt is claimed once: no two workers run it at the same time, and whoever runs it
\* or persists its report claimed it, however often the command was delivered.
Holds(w, k, n) ==
  /\ proc[w].job = k /\ proc[w].n = n /\ proc[w].pc # "done"
  /\ \/ proc[w].stage = "complete"
     \/ proc[w].stage = "finish" /\ proc[w].code # "event-version-changed"
OneClaimPerAttempt ==
  \A k \in Keys, n \in Number : \A v, w \in Workers :
    Holds(v, k, n) /\ Holds(w, k, n) => v = w

\* A job's version counts the changes of its attempts: those of its first n attempts.
ChangesUpTo(k, n) == UNION {{i} \X (1..attempt[k][i].ver) : i \in 1..n}
VersionAfter(k, n) == Cardinality(ChangesUpTo(k, n))

\* A version of the job that a retry receipt names was the version of a retryable failure
\* that one attempt was queued for; an adopted retry is answered with that attempt.
RetryReceiptsNameAFailure ==
  \A k \in Keys : receipt[k].action = "retry" =>
    \E n \in 1..(job[receipt[k].job].count - 1) :
      receipt[k].exp = VersionAfter(receipt[k].job, n)

\* Whatever ended stays as it is: a finished attempt, a completed or terminally failed job,
\* a receipt, a report binding; and a job's version counts its changes one by one.
Frozen(k, n) == attempt[k][n].status \in Ended => attempt'[k][n] = attempt[k][n]
EndedStaysEnded ==
  [][\A k \in Keys :
       /\ \A n \in Number : Frozen(k, n)
       /\ job[k].status \in Ended \ {"failed_retryable"} => job'[k] = job[k]
       /\ job'[k] # job[k] => job'[k].ver = job[k].ver + 1
       /\ receipt[k].action # "none" => receipt'[k] = receipt[k]
       /\ binding[k] # 0 => binding'[k] = binding[k]]_vars

-----------------------------------------------------------------------------
(* What documents say of the program, and it does not do. *)

\* "Request replay: return stored job" (spec-fte-038): a key that was used to create a job,
\* or converged on one, is answered with it when the request is repeated.
ReplayIsAnswered ==
  \A c \in Clients : ~ (proc[c].pc = "done" /\ proc[c].out = "corrupt"
                        /\ receipt[proc[c].key].action = "create")

\* "Owner retries current retryable failure below limit: one linked next attempt"
\* (spec-fte-038): while no job is active, a retryable failure below the limit on an
\* unchanged event can be retried.
RetryableCanBeRetried ==
  \A k \in Keys :
    (/\ current /\ marker.kind # "active"
     /\ job[k].status = "failed_retryable" /\ job[k].count < MaxAttempts)
      => marker = [kind |-> "terminal", job |-> k, n |-> job[k].count]
=============================================================================
