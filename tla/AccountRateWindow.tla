--------------------------- MODULE AccountRateWindow ---------------------------
(***************************************************************************)
(* The one row that every consumer of the SharpAPI account shares: the     *)
(* HEALTH row "sharpapi:account:account" with the account's health and the *)
(* provider's request window.  Three kinds of consumer spend from it:      *)
(*   Landings    provider-landing, low priority, which also elects the     *)
(*               probe of a window of unknown balance;                     *)
(*   Closings    the closing-line capture of a live-odds invocation;       *)
(*   Collectors  the account collector of a live-odds invocation.          *)
(*                                                                         *)
(* A process is a consumer between one read of the row and the next; every *)
(* store call is an action, and so is the request to the provider.  The    *)
(* row's version is compared in conditional writes only, so the model keeps*)
(* no number: "fresh" holds the processes whose last read, or whose own    *)
(* probe claim, still has the row's version.  A put that re-reads and      *)
(* retries up to eight times is one step.                                  *)
(*                                                                         *)
(* Time is told in request windows relative to the current one: "past",    *)
(* "now" and "next" say in which window a reservation was made, an answer  *)
(* was observed, or at whose end a row resets or a pause is over.          *)
(***************************************************************************)
EXTENDS Integers, FiniteSets

CONSTANTS
  Landings, Closings, Collectors,
  Limit,              \* requests the provider grants per window
  LandingReserve,     \* what each kind leaves for the others
  ClosingReserve,
  CollectorReserve

Procs == Landings \cup Closings \cup Collectors

ASSUME KindsAssumption ==
  Landings \cap Closings = {} /\ (Landings \cup Closings) \cap Collectors = {}
ASSUME LimitAssumption == Limit \in Nat \ {0}
ASSUME ReserveAssumption ==
  LandingReserve \in Nat /\ ClosingReserve \in Nat /\ CollectorReserve \in Nat

VARIABLES
  row,          \* the HEALTH row
  fresh,        \* who still holds the row's version
  proc,         \* local state of each consumer
  credit,       \* what the provider will still grant in this window
  \* history
  unsent,       \* reserved in this window, not yet asked for
  unreserved,   \* charged to this window without a reservation in it
  reserved,     \* reserved in this window altogether
  forgotten,    \* of that, what a collector had not been told of when it last
                \* wrote its own answer over the row
  refused       \* the provider or the configuration has refused the account

totals == <<reserved, forgotten>>
ledger == <<unsent, unreserved, reserved, forgotten>>
vars == <<row, fresh, proc, credit, unsent, unreserved, reserved, forgotten, refused>>

When == {"none", "past", "now", "next"}
Rank == [w \in When |-> CASE w = "none" -> 0 [] w = "past" -> 1
                          [] w = "now" -> 2 [] w = "next" -> 3]
Later(v, w) == IF Rank[v] > Rank[w] THEN v ELSE w
Aged == [w \in When |-> CASE w = "now" -> "past" [] w = "next" -> "now" [] OTHER -> w]
Ahead(w) == w \in {"now", "next"}

Health ==
  [health: {"ok", "transient", "ambiguous", "terminal"},
   retry: When,                     \* cooldownUntil and retryAt
   known: BOOLEAN, left: 0..Limit,  \* rateWindow.remaining, if present
   resets: When,                    \* rateWindow.resetsAt
   probe: {"none", "live", "aging", "over"}]   \* rateWindow.probeUntil

PC == {"idle", "read", "reread", "reserve", "ask", "reconcile", "limited", "refused",
       "recover", "complete",
       "take", "publish", "put", "failing", "failPut"}
Why == {"none", "lost", "conflict", "limited", "refused", "unavailable", "ambiguous"}
Answer == [win: When, left: 0..Limit]
NoAnswer == [win |-> "none", left |-> 0]

Local ==
  [pc: PC,
   cost: {1, 2},
   at: When,         \* the clock as read before the call
   known: BOOLEAN,   \* a collector's: the balance was known when it was read
   rsv: When,        \* window the balance was reserved from; "none" for a probe
   again: BOOLEAN,   \* the second attempt of one reserveOnce
   second: BOOLEAN,  \* the reserveOnce after a recovery
   answer: Answer,   \* the rate window of the response, if it had one
   why: Why]
Idle == [pc |-> "idle", cost |-> 1, at |-> "none", known |-> FALSE, rsv |-> "none",
         again |-> FALSE, second |-> FALSE, answer |-> NoAnswer, why |-> "none"]

TypeOK ==
  /\ row \in Health
  /\ fresh \in SUBSET Procs
  /\ proc \in [Procs -> Local]
  /\ credit \in 0..Limit
  /\ unsent \in Int
  /\ unreserved \in Nat
  /\ reserved \in Nat /\ forgotten \in Nat
  /\ refused \in BOOLEAN

\* The first account collection has created the row.
Init ==
  /\ row = [health |-> "ok", retry |-> "none", known |-> TRUE, left |-> Limit - 1,
            resets |-> "now", probe |-> "none"]
  /\ fresh = {}
  /\ proc = [p \in Procs |-> Idle]
  /\ credit = Limit - 1
  /\ unsent = 0
  /\ unreserved = 0
  /\ reserved = 0 /\ forgotten = 0
  /\ refused = FALSE

-----------------------------------------------------------------------------
(* Helpers *)

At(p, pc) == proc[p].pc = pc
Goto(p, pc) == proc' = [proc EXCEPT ![p].pc = pc]
Stop(p) == proc' = [proc EXCEPT ![p] = Idle]
FailWith(p, why) == proc' = [proc EXCEPT ![p] = [@ EXCEPT !.pc = "failing", !.why = why]]

\* Every write moves the version on: nobody's copy is current any more.
Write(r) == row' = r /\ fresh' = {}
KeepRow == UNCHANGED <<row, fresh>>

\* currentRateHealth: resetsAt is behind the clock the caller read.  A clock
\* read before the last window ended may be behind a resetsAt that is past.
Expired(p) == row.resets = "past" /\ proc[p].at = "now"
MaybeExpired(p) == row.resets = "past"
WindowReset == [row EXCEPT !.known = FALSE, !.left = 0, !.resets = "none", !.probe = "none"]

\* A request without a reservation is a probe: one call of /account.
Probes(p) == proc[p].rsv = "none"
Price(p) == IF Probes(p) THEN 1 ELSE proc[p].cost

\* The balance is taken from the row's window, which may be the current one.
Take(p, cost) ==
  /\ Write([row EXCEPT !.left = @ - cost])
  /\ proc' = [proc EXCEPT ![p] = [@ EXCEPT !.pc = "ask", !.rsv = row.resets]]
  /\ IF row.resets = "now"
     THEN unsent' = unsent + cost /\ reserved' = reserved + cost
     ELSE UNCHANGED <<unsent, reserved>>

\* A reservation leaves the ledger when its request leaves or is given up.
Released(p) == IF proc[p].rsv = "now" THEN unsent - proc[p].cost ELSE unsent
\* What the provider charges for it is unreserved unless it was reserved from
\* this very window.
Charged(p, n) == unreserved + (IF proc[p].rsv = "now" THEN 0 ELSE n)

-----------------------------------------------------------------------------
(* Low-priority consumers: reserveOnce and the closing-line reserveQuota *)

Recoverable == row.health = "transient" /\ ~Ahead(row.retry) /\ ~Ahead(row.resets)

Start(p, cost) ==
  /\ At(p, "idle")
  /\ proc' = [proc EXCEPT ![p] = [Idle EXCEPT !.pc = "read", !.cost = cost]]
  /\ UNCHANGED <<row, fresh, credit, ledger, refused>>

LandingStart(p) == \E cost \in {1, 2} : Start(p, cost)

\* The secret or the binding is missing: terminal before any request.
LandingMisconfigured(p) ==
  /\ At(p, "idle")
  /\ proc' = [proc EXCEPT ![p] = [Idle EXCEPT !.pc = "refused"]]
  /\ refused' = TRUE
  /\ UNCHANGED <<row, fresh, credit, ledger>>

\* Reset behind us, or within the ten-second guard of a window's end.
Unsettled == ~row.known \/ row.resets \in {"past", "now"}
MustRecover == ~row.known \/ row.resets = "past"

\* What a getHealth in reserveOnce leads to: refuse, recover the window, or
\* reserve under the version, limit and reset just read.
LandingLook(p) ==
  /\ proc[p].pc \in {"read", "reread"}
  /\ \/ Stop(p) /\ fresh' = fresh    \* terminal, unhealthy, or no recovery allowed
     \/ /\ IF row.health = "ok" THEN Unsettled ELSE Recoverable
        /\ ~proc[p].second
        /\ Goto(p, "recover") /\ fresh' = fresh
     \/ /\ row.health = "ok" /\ ~MustRecover
        /\ At(p, "reread") => ~proc[p].again /\ row.left - proc[p].cost >= LandingReserve
        /\ proc' = [proc EXCEPT ![p] = [@ EXCEPT !.pc = "reserve", !.at = "now",
                                                 !.again = At(p, "reread")]]
        /\ fresh' = fresh \cup {p}
  /\ UNCHANGED <<row, credit, ledger, refused>>

ClosingLook(p) ==
  /\ At(p, "read")
  /\ IF row.health = "ok" /\ row.known
     THEN /\ proc' = [proc EXCEPT ![p] = [@ EXCEPT !.pc = "reserve", !.at = "now"]]
          /\ fresh' = fresh \cup {p}
     ELSE Stop(p) /\ fresh' = fresh
  /\ UNCHANGED <<row, credit, ledger, refused>>

\* The refused caller of reserveAccountRate looks again, or gives up.
Turned(p) == IF p \in Landings THEN Goto(p, "reread") ELSE Stop(p)

\* reserveAccountRate: an expired window is reset for everyone and the caller,
\* who still names it, refused; otherwise the balance is taken only from the
\* very row the caller read.
ReserveExpired(p) ==
  /\ At(p, "reserve")
  /\ MaybeExpired(p)
  /\ Write(WindowReset)
  /\ Turned(p)
  /\ UNCHANGED <<credit, ledger, refused>>

ReserveHealthyRow(p, reserve) == \* variant: the version read is trusted for the balance
  row.health = "ok" /\ row.known
ReserveAnyBalance(p, reserve) == \* variant: the reserve is not left behind
  p \in fresh /\ row.health = "ok" /\ row.known /\ row.left >= proc[p].cost
Reservable(p, reserve) ==
  p \in fresh /\ row.health = "ok" /\ row.known /\ row.left >= reserve + proc[p].cost

Reserve(p, reserve) ==
  /\ At(p, "reserve")
  /\ ~Expired(p)
  /\ IF Reservable(p, reserve)
     THEN Take(p, proc[p].cost)
     ELSE Turned(p) /\ KeepRow /\ UNCHANGED <<unsent, reserved>>
  /\ UNCHANGED <<credit, unreserved, forgotten, refused>>

-----------------------------------------------------------------------------
(* Electing and completing the probe *)

\* claimAccountRateProbe first resets a window that is over,
ResetBeforeProbe(p) ==
  /\ At(p, "recover")
  /\ row.resets = "past"
  /\ Write(WindowReset)
  /\ UNCHANGED <<proc, credit, ledger, refused>>

\* then claims the lease if nobody holds it and nothing forbids a request;
ProbeAnyway(p) == TRUE              \* variant: every caller is elected
ProbeFree(p) ==
  /\ row.health # "terminal" /\ ~row.known /\ ~Ahead(row.retry)
  /\ row.probe \in {"none", "over"}

ClaimProbe(p) ==
  /\ At(p, "recover")
  /\ row.resets # "past"
  /\ ProbeFree(p)
  /\ row' = [row EXCEPT !.probe = "live"]
  /\ fresh' = {p}
  /\ proc' = [proc EXCEPT ![p] = [@ EXCEPT !.pc = "ask", !.rsv = "none", !.at = "now"]]
  /\ UNCHANGED <<credit, ledger, refused>>

\* the others poll for the winner's result and then try to reserve once more.
PollWinner(p) ==
  /\ At(p, "recover")
  /\ ~ProbeFree(p)
  /\ proc' = [proc EXCEPT ![p] = [@ EXCEPT !.pc = "read", !.second = TRUE, !.again = FALSE]]
  /\ UNCHANGED <<row, fresh, credit, ledger, refused>>

\* completeAccountRateProbe: only under the version of the claim.
CompleteAnyVersion(p) == row.health # "terminal"   \* variant: no version fence
Completable(p) == p \in fresh

CompleteProbe(p) ==
  /\ At(p, "complete")
  /\ IF proc[p].answer # NoAnswer /\ Completable(p)
     THEN Write([health |-> "ok", retry |-> "none", known |-> TRUE,
                 left |-> proc[p].answer.left, resets |-> proc[p].answer.win,
                 probe |-> "none"])
     ELSE KeepRow
  /\ proc' = [proc EXCEPT ![p] = [Idle EXCEPT !.pc = "read", !.cost = proc[p].cost,
                                              !.second = TRUE]]
  /\ UNCHANGED <<credit, ledger, refused>>

-----------------------------------------------------------------------------
(* The paid request *)

AfterAnswer(p) ==
  IF p \in Collectors THEN "publish"
  ELSE IF Probes(p) THEN "complete" ELSE "reconcile"

\* The provider charges what it can and says, if it says, what is left.
ProviderAnswers(p) ==
  /\ At(p, "ask")
  /\ credit >= Price(p)
  /\ credit' = credit - Price(p)
  /\ unsent' = Released(p)
  /\ unreserved' = Charged(p, Price(p))
  /\ \/ \E a \in {NoAnswer, [win |-> "now", left |-> credit']} :
          /\ proc' = [proc EXCEPT ![p] = [@ EXCEPT !.pc = AfterAnswer(p), !.answer = a]]
          /\ UNCHANGED refused
     \/ /\ IF p \in Collectors THEN FailWith(p, "refused") ELSE Goto(p, "refused")
        /\ refused' = TRUE
     \/ \* the answer is lost: the request stays charged
        /\ IF p \in Collectors THEN FailWith(p, "ambiguous") ELSE Stop(p)
        /\ UNCHANGED refused
  /\ KeepRow /\ UNCHANGED totals

\* Of a request for two, the first may be charged before the second is refused.
ProviderLimits(p) ==
  /\ At(p, "ask")
  /\ credit < Price(p)
  /\ credit' = 0
  /\ unsent' = Released(p)
  /\ unreserved' = Charged(p, credit)
  /\ proc' = [proc EXCEPT ![p] = [@ EXCEPT !.pc = IF p \in Collectors THEN "failing" ELSE "limited",
                                           !.answer = [win |-> "now", left |-> 0],
                                           !.why = "limited"]]
  /\ UNCHANGED <<row, fresh, totals, refused>>

\* Never sent: too close to the deadline or to the reset, or unreachable.  The
\* reservation is not given back.
NotSent(p) ==
  /\ At(p, "ask")
  /\ unsent' = Released(p)
  /\ \/ p \in Collectors /\ FailWith(p, "unavailable")
     \/ p \notin Collectors /\ Stop(p)
     \/ \* reserved so late that reserveOnce calls the window unavailable
        /\ p \in Landings /\ ~Probes(p) /\ ~proc[p].second
        /\ proc' = [proc EXCEPT ![p] = [@ EXCEPT !.pc = "recover", !.rsv = "none"]]
  /\ UNCHANGED <<row, fresh, credit, unreserved, totals, refused>>

\* reconcileAccountRateWindow: an older window's answer changes nothing, an
\* unknown balance takes the answer's, a known one only ever goes down.
Stale(a) == row.resets # "none" /\ Rank[a.win] < Rank[row.resets]
LastAnswerWins(a) ==    \* variant: the balance is what the answer says
  [row EXCEPT !.known = TRUE, !.left = a.left, !.resets = a.win]
Reconciled(a) ==
  IF a = NoAnswer \/ Stale(a) THEN row
  ELSE [row EXCEPT !.known = TRUE, !.resets = a.win,
                   !.left = IF row.known /\ row.left < a.left THEN @ ELSE a.left]

Reconcile(p) ==
  /\ At(p, "reconcile")
  /\ \/ Write(Reconciled(proc[p].answer))
     \/ \* two past windows are one here: either may be the older
        proc[p].answer.win = "past" /\ row.resets = "past" /\ Write(row)
  /\ Stop(p)
  /\ UNCHANGED <<credit, ledger, refused>>

\* blockAccountRateWindow, until the time the provider names, a minute from
\* now or, in a closing capture, the end of the row's own window.
PauseOf(p) ==
  {"now", "next"} \cup (IF proc[p].answer.win = "past" THEN {"past"} ELSE {})
                 \cup (IF p \in Closings THEN {row.resets} \ {"none"} ELSE {})
Blocked(until) ==
  [row EXCEPT !.health = "transient", !.retry = until, !.known = TRUE, !.left = 0,
              !.resets = Later(row.resets, until)]

NeverFinal == FALSE     \* variant: a terminal row is not spared
Final == row.health = "terminal"

Block(p) ==
  /\ At(p, "limited")
  /\ IF Final THEN KeepRow ELSE \E until \in PauseOf(p) : Write(Blocked(until))
  /\ Stop(p)
  /\ UNCHANGED <<credit, ledger, refused>>

\* blockAccountTerminal: the first verdict stands.
Terminate(p) ==
  /\ At(p, "refused")
  /\ IF Final THEN KeepRow ELSE Write([row EXCEPT !.health = "terminal", !.retry = "none"])
  /\ Stop(p)
  /\ UNCHANGED <<credit, ledger, refused>>
-----------------------------------------------------------------------------
(* The account collector of a live-odds invocation: reserveQuotaAttempt, the *)
(* account request, and a health row written from what getHealth then shows. *)

CollectorLook(p) ==
  /\ At(p, "idle")
  /\ IF row.resets = "past"
     THEN Write(WindowReset) /\ UNCHANGED proc
     ELSE /\ proc' = [proc EXCEPT ![p] = [Idle EXCEPT !.pc = "take", !.known = row.known]]
          /\ fresh' = fresh \cup {p} /\ UNCHANGED row
  /\ UNCHANGED <<credit, ledger, refused>>

\* A known balance is taken under its own condition alone; an unknown one is
\* probed under the version read.  Health and pause are not looked at.
TakeableWhenHealthy(p) ==   \* variant: an unhealthy account is not asked
  row.health = "ok" /\ IF proc[p].known THEN row.known /\ row.left >= CollectorReserve + 1
                       ELSE p \in fresh /\ ~row.known /\ row.probe \in {"none", "over"}
TakeableUnleased(p) ==      \* variant: an abandoned lease is never taken over
  IF proc[p].known THEN row.known /\ row.left >= CollectorReserve + 1
  ELSE p \in fresh /\ ~row.known /\ row.probe = "none"
Takeable(p) ==
  IF proc[p].known
  THEN row.known /\ row.left >= CollectorReserve + 1
  ELSE p \in fresh /\ ~row.known /\ row.probe \in {"none", "over"}

CollectorTake(p) ==
  /\ At(p, "take")
  /\ \/ Takeable(p) /\ proc[p].known /\ Take(p, 1)
     \/ /\ Takeable(p) /\ ~proc[p].known
        /\ Write([row EXCEPT !.probe = "live"])
        /\ proc' = [proc EXCEPT ![p] = [@ EXCEPT !.pc = "ask", !.at = "now"]]
        /\ UNCHANGED <<unsent, reserved>>
     \/ ~Takeable(p) /\ FailWith(p, "lost") /\ KeepRow /\ UNCHANGED <<unsent, reserved>>
  /\ UNCHANGED <<credit, unreserved, forgotten, refused>>

\* The answer is sealed first: an invocation that resumes the run publishes
\* it however late.
PublishLook(p) ==
  /\ At(p, "publish")
  /\ Goto(p, "put")
  /\ fresh' = fresh \cup {p}
  /\ UNCHANGED <<row, credit, ledger, refused>>

\* healthyOddsProviderState over the row read, its window replaced.
Healthy(a) ==
  IF a = NoAnswer THEN [row EXCEPT !.health = "ok", !.retry = "none"]
  ELSE [health |-> "ok", retry |-> "none", known |-> TRUE, left |-> a.left,
        resets |-> a.win, probe |-> "none"]

\* Whatever fails afterwards, in the splits for instance, is the account's failure.
PublishPut(p) ==
  /\ At(p, "put")
  /\ IF p \in fresh
     THEN /\ Write(Healthy(proc[p].answer))
          /\ Stop(p) \/ \E why \in {"conflict", "unavailable", "ambiguous"} : FailWith(p, why)
          /\ forgotten' = IF proc[p].answer = NoAnswer THEN forgotten ELSE reserved
     ELSE FailWith(p, "conflict") /\ KeepRow /\ UNCHANGED forgotten
  /\ UNCHANGED <<credit, unsent, unreserved, reserved, refused>>

FailLook(p) ==
  /\ At(p, "failing")
  /\ Goto(p, "failPut")
  /\ fresh' = fresh \cup {p}
  /\ UNCHANGED <<row, credit, ledger, refused>>

\* unhealthyOddsProviderState(decideOddsRetry(error)): an error that is not on
\* the list of transient ones, a lost reservation included, is terminal.
ClassOf(why) ==
  CASE why \in {"limited", "unavailable"} -> "transient"
    [] why = "ambiguous" -> "ambiguous"
    [] OTHER -> "terminal"
Unhealthy(why, until) ==
  [row EXCEPT !.health = ClassOf(why),
              !.retry = IF ClassOf(why) = "transient" THEN until ELSE "none"]

FailPut(p) ==
  /\ At(p, "failPut")
  /\ IF p \in fresh THEN \E until \in {"now", "next"} : Write(Unhealthy(proc[p].why, until))
                    ELSE KeepRow
  /\ Stop(p)
  /\ UNCHANGED <<credit, ledger, refused>>

\* The Lambda is killed.
Crash(p) ==
  /\ ~At(p, "idle")
  /\ unsent' = IF At(p, "ask") THEN Released(p) ELSE unsent
  /\ Stop(p)
  /\ UNCHANGED <<row, fresh, credit, unreserved, totals, refused>>

-----------------------------------------------------------------------------
(* Time *)

Older(l) == [l EXCEPT !.at = Aged[@], !.rsv = Aged[@], !.answer.win = Aged[@]]

\* The provider grants a new window.  A probe lease lasts as long as a window:
\* it outlives the window it was claimed in but not the next one.
NextWindow ==
  /\ credit' = Limit
  /\ unsent' = 0 /\ unreserved' = 0 /\ reserved' = 0 /\ forgotten' = 0
  /\ row' = [row EXCEPT !.resets = Aged[@], !.retry = Aged[@],
                        !.probe = IF @ = "live" THEN "aging"
                                  ELSE IF @ = "aging" THEN "over" ELSE @]
  /\ proc' = [p \in Procs |-> Older(proc[p])]
  /\ UNCHANGED <<fresh, refused>>

ProbeLapses ==
  /\ row.probe = "aging"
  /\ row' = [row EXCEPT !.probe = "over"]
  /\ UNCHANGED <<fresh, proc, credit, ledger, refused>>

-----------------------------------------------------------------------------
Request(p) == ProviderAnswers(p) \/ ProviderLimits(p)
Fault(p) == NotSent(p) \/ Crash(p)

LandingStep(p) ==
  \/ LandingStart(p) \/ LandingMisconfigured(p) \/ LandingLook(p)
  \/ ReserveExpired(p) \/ Reserve(p, LandingReserve)
  \/ ResetBeforeProbe(p) \/ ClaimProbe(p) \/ PollWinner(p) \/ CompleteProbe(p)
  \/ Reconcile(p) \/ Block(p) \/ Terminate(p)

ClosingStep(p) ==
  \/ Start(p, 1) \/ ClosingLook(p) \/ ReserveExpired(p) \/ Reserve(p, ClosingReserve)
  \/ Reconcile(p) \/ Block(p) \/ Terminate(p)

CollectorStep(p) ==
  \/ CollectorLook(p) \/ CollectorTake(p) \/ PublishLook(p) \/ PublishPut(p)
  \/ FailLook(p) \/ FailPut(p)

Next ==
  \/ \E p \in Landings : LandingStep(p)
  \/ \E p \in Closings : ClosingStep(p)
  \/ \E p \in Collectors : CollectorStep(p)
  \/ \E p \in Procs : Request(p) \/ Fault(p)
  \/ NextWindow \/ ProbeLapses

Spec == Init /\ [][Next]_vars

-----------------------------------------------------------------------------
(* Correctness *)

\* The row never promises more of the current window than the provider still
\* has for it, once what is reserved and not yet sent is set aside: it is out
\* by at most the requests that no reservation in this window covered (probes,
\* and requests that were reserved before the window began) and, once a
\* collector has written its answer over the row, what had been reserved till
\* then.
NeverOverstated ==
  row.known /\ row.resets = "now" => row.left + unsent <= credit + unreserved + forgotten

\* Landing is served from what is left above its reserve: when it reserves in
\* the current window, that much stays with the provider for the others, but
\* for what a collector's answer has made the row forget.
LandingSparesLive ==
  [][\A p \in Landings :
       At(p, "reserve") /\ proc'[p].pc = "ask" /\ row.resets = "now"
         => credit + unreserved + forgotten - unsent' >= LandingReserve]_vars

\* A collector that has read the row as it is writes over it.
Overwrites(p) == p \in fresh /\ proc[p].pc \in {"put", "failPut"} /\ proc'[p].pc # proc[p].pc

\* No answer gives back what others have reserved in the same window, unless a
\* collector puts its own in place of the balance it has just read.
NeverRefunded ==
  [][row.known /\ row'.known /\ row.resets = row'.resets /\ row.resets # "none"
       => \/ row'.left <= row.left
          \/ \E p \in Collectors : Overwrites(p) /\ row'.left = proc[p].answer.left]_vars

\* A refusal of the account stands, whatever limit, answer or probe is recorded
\* late: it is lifted by nobody but a collector that has read it.
TerminalStands ==
  [][row.health = "terminal" /\ row'.health # "terminal"
       => \E p \in Collectors : Overwrites(p)]_vars

\* The account is terminal only because the provider or the configuration
\* refused it.  The code does not keep this: a collector that loses a reservation
\* records a terminal failure.
TerminalIsVerdict == row.health = "terminal" => refused

\* A probe's answer is published only over the row as it was when the probe was
\* elected: no pause or verdict recorded since is lifted by it.
ProbeLiftsNothing ==
  [][\A p \in Landings :
       At(p, "complete") /\ ~At(p, "complete")'
         /\ (Ahead(row.retry) \/ row.health = "terminal") => row' = row]_vars

\* What is spent or refused stands: no call gives the window's units back, nothing that
\* comes late replaces a terminal refusal, and a probe lifts nothing.
RefusalsStand == NeverRefunded /\ TerminalStands /\ ProbeLiftsNothing

=============================================================================
