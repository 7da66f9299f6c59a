------------------------------- MODULE SignIn -------------------------------
(***************************************************************************)
(* Sign-in by a one-time code for one telephone number: the API calls that *)
(* request a code, verify one and sign a session out, over the number's    *)
(* challenge row, the account row and the two request budgets.             *)
(*                                                                         *)
(* Time runs in resend windows.  A call reads the clock once, at its       *)
(* start, and the platform ends it before a challenge's life is over; it   *)
(* may end at any step.  A budget is the stricter of the number's and the  *)
(* source address's, which are spent alike.  Two challenges' codes are     *)
(* taken to differ, and tokens to be used before they run out by time.     *)
(***************************************************************************)
EXTENDS Integers, FiniteSets

CONSTANTS
  Callers,        \* API calls under way at a time
  Absent,
  MaxAttempts,    \* OTP_MAX_ATTEMPTS
  Life,           \* OTP_CHALLENGE_TTL_MS, in resend windows
  Window,         \* length of a budget's window, in resend windows
  CallTime,       \* longest call, in resend windows
  RequestLimit,   \* OTP_REQUEST_PHONE_RATE_LIMIT
  VerifyLimit,    \* OTP_VERIFY_PHONE_RATE_LIMIT
  MaxTime, MaxCodes, MaxVersion  \* bounds of the model

VARIABLES
  time,
  challenge,      \* the number's OTP row
  account,        \* tokenVersion of its account row, or Absent
  spent,          \* budget rows, by action and window
  codes,          \* codes made so far
  stored, sent,   \* codes that were stored; that were handed to the SMS sender
  opened,         \* sessions opened by a code
  signedOut,      \* token versions a sign-out was acknowledged for
  call

vars == <<time, challenge, account, spent, codes, stored, sent, opened, signedOut, call>>

Code == 1..MaxCodes
WindowOf(t) == t \div Window
Challenge == [id: Code, issued: 0..MaxTime, attempts: Nat, consumed: BOOLEAN]
Call == [pc: {"idle", "read", "put", "reread", "send", "check", "fail", "consume",
              "account", "bump"},
         at: 0..MaxTime,
         code: Code \cup {Absent},      \* the code made, or the one presented
         seen: Nat \cup {Absent}]       \* the challenge, or token version, it found
Idle == [pc |-> "idle", at |-> 0, code |-> Absent, seen |-> Absent]

Init ==
  /\ time = 0 /\ challenge = Absent /\ account = Absent
  /\ spent = [a \in {"request", "verify"} |-> [w \in 0..WindowOf(MaxTime) |-> 0]]
  /\ codes = 0 /\ stored = {} /\ sent = {} /\ signedOut = {}
  /\ opened = [k \in Code |-> 0]
  /\ call = [c \in Callers |-> Idle]

\* The platform ends a call well within a challenge's life.
SignInAssumption ==
  /\ Absent \notin Nat /\ Absent \notin Challenge
  /\ MaxAttempts \in Nat \ {0} /\ Window \in Nat \ {0}
  /\ CallTime \in Nat /\ Life \in Nat /\ CallTime < Life
  /\ RequestLimit \in Nat /\ VerifyLimit \in Nat
  /\ MaxTime \in Nat /\ MaxCodes \in Nat
  /\ IsFiniteSet(Callers)

Become(c, l) == call' = [call EXCEPT ![c] = l]
Limit == [request |-> RequestLimit, verify |-> VerifyLimit]
MaySpend(action, w) == spent[action][w] < Limit[action]
Spend(action) ==
  /\ MaySpend(action, WindowOf(time))
  /\ spent' = [spent EXCEPT ![action][WindowOf(time)] = @ + 1]
Live(t) == challenge # Absent /\ ~ challenge.consumed /\ t < challenge.issued + Life

-----------------------------------------------------------------------------
(* A code is requested. *)

RequestCode(c) ==
  /\ call[c] = Idle /\ codes < MaxCodes
  /\ Spend("request")
  /\ codes' = codes + 1
  /\ Become(c, [Idle EXCEPT !.pc = "read", !.at = time, !.code = codes + 1])
  /\ UNCHANGED <<time, challenge, account, stored, sent, opened, signedOut>>

\* A live challenge of the same resend window suppresses the request.
Suppressed(t) == Live(t) /\ t - challenge.issued < 1
ReadForRequest(c) ==
  /\ call[c].pc = "read"
  /\ Become(c, IF Suppressed(call[c].at) THEN Idle ELSE [call[c] EXCEPT !.pc = "put"])
  /\ UNCHANGED <<time, challenge, account, spent, codes, stored, sent, opened, signedOut>>

Replaces(t) == challenge = Absent \/ challenge.issued < t
\* variant: an unconsumed challenge is stored with a null in the place of the instant.
MadeWithNull(l) == [id |-> l.code, issued |-> l.at, attempts |-> 0, consumed |-> Absent]
Made(l) == [id |-> l.code, issued |-> l.at, attempts |-> 0, consumed |-> FALSE]
PutChallenge(c) ==
  LET l == call[c]
  IN  /\ l.pc = "put"
      /\ IF Replaces(l.at)
         THEN /\ challenge' = Made(l) /\ stored' = stored \cup {l.code}
              /\ Become(c, [l EXCEPT !.pc = "send"])
         ELSE /\ UNCHANGED <<challenge, stored>>
              /\ Become(c, [l EXCEPT !.pc = "reread"])
      /\ UNCHANGED <<time, account, spent, codes, sent, opened, signedOut>>

AfterRefusal(l) == IF challenge = Absent THEN [l EXCEPT !.pc = "send"] ELSE Idle
Reread(c) ==
  /\ call[c].pc = "reread"
  /\ Become(c, AfterRefusal(call[c]))
  /\ UNCHANGED <<time, challenge, account, spent, codes, stored, sent, opened, signedOut>>

Send(c) ==
  /\ call[c].pc = "send"
  /\ sent' = sent \cup {[code |-> call[c].code, window |-> WindowOf(call[c].at)]}
  /\ Become(c, Idle)
  /\ UNCHANGED <<time, challenge, account, spent, codes, stored, opened, signedOut>>

-----------------------------------------------------------------------------
(* A code is verified: one that was sent, or (Absent) one that never was. *)

VerifyCode(c) ==
  /\ call[c] = Idle
  /\ Spend("verify")
  /\ \E k \in {s.code : s \in sent} \cup {Absent} :
       Become(c, [Idle EXCEPT !.pc = "check", !.at = time, !.code = k])
  /\ UNCHANGED <<time, challenge, account, codes, stored, sent, opened, signedOut>>

\* verifyOtpChallenge: a consumed, locked or expired challenge is not compared.
Comparable(t) == Live(t) /\ challenge.attempts < MaxAttempts
CheckCode(c) ==
  LET l == call[c]
      next == IF l.code = challenge.id THEN "consume" ELSE "fail"
  IN  /\ l.pc = "check"
      /\ Become(c, IF Comparable(l.at)
                   THEN [l EXCEPT !.pc = next, !.seen = challenge.id] ELSE Idle)
      /\ UNCHANGED <<time, challenge, account, spent, codes, stored, sent, opened,
                     signedOut>>

Current(l) == challenge # Absent /\ challenge.id = l.seen /\ ~ challenge.consumed
RecordFailedAttempt(c) ==
  /\ call[c].pc = "fail"
  /\ challenge' = IF Current(call[c]) THEN [challenge EXCEPT !.attempts = @ + 1]
                                      ELSE challenge
  /\ Become(c, Idle)
  /\ UNCHANGED <<time, account, spent, codes, stored, sent, opened, signedOut>>

\* variant: the write names the challenge and not that it is unconsumed.
NamedChallenge(l) == challenge # Absent /\ challenge.id = l.seen
Consumable(l) == Current(l)
ConsumeChallenge(c) ==
  LET l == call[c]
  IN  /\ l.pc = "consume"
      /\ IF Consumable(l)
         THEN /\ challenge' = [challenge EXCEPT !.consumed = TRUE]
              /\ Become(c, [l EXCEPT !.pc = "account"])
         ELSE UNCHANGED challenge /\ Become(c, Idle)
      /\ UNCHANGED <<time, account, spent, codes, stored, sent, opened, signedOut>>

Upserted == IF account = Absent THEN 0 ELSE account
\* upsertAccount, and the token of the version it returned.
OpenSession(c) ==
  /\ call[c].pc = "account"
  /\ account' = Upserted
  /\ opened' = [opened EXCEPT ![call[c].seen] = @ + 1]
  /\ Become(c, Idle)
  /\ UNCHANGED <<time, challenge, spent, codes, stored, sent, signedOut>>

-----------------------------------------------------------------------------
(* A session signs out: its token is of the account's version, or it is      *)
(* refused.                                                                  *)

SignOut(c) ==
  /\ call[c] = Idle /\ account # Absent /\ account < MaxVersion
  /\ Become(c, [Idle EXCEPT !.pc = "bump", !.at = time, !.seen = account])
  /\ UNCHANGED <<time, challenge, account, spent, codes, stored, sent, opened, signedOut>>

BumpTokenVersion(c) ==
  /\ call[c].pc = "bump"
  /\ account' = account + 1
  /\ signedOut' = signedOut \cup {call[c].seen}
  /\ Become(c, Idle)
  /\ UNCHANGED <<time, challenge, spent, codes, stored, sent, opened>>

-----------------------------------------------------------------------------
\* A call is cut off, or its reply is lost.
CutOff(c) ==
  /\ call[c] # Idle
  /\ Become(c, Idle)
  /\ UNCHANGED <<time, challenge, account, spent, codes, stored, sent, opened, signedOut>>

\* The table removes a challenge some time after its life.
Remove ==
  /\ challenge # Absent /\ time >= challenge.issued + Life
  /\ challenge' = Absent
  /\ UNCHANGED <<time, account, spent, codes, stored, sent, opened, signedOut, call>>

Tick ==
  /\ time < MaxTime
  /\ \A c \in Callers : call[c] = Idle \/ time < call[c].at + CallTime
  /\ time' = time + 1
  /\ UNCHANGED <<challenge, account, spent, codes, stored, sent, opened, signedOut, call>>

Next ==
  \/ \E c \in Callers :
       \/ RequestCode(c) \/ ReadForRequest(c) \/ PutChallenge(c) \/ Reread(c) \/ Send(c)
       \/ VerifyCode(c) \/ CheckCode(c) \/ RecordFailedAttempt(c)
       \/ ConsumeChallenge(c) \/ OpenSession(c)
       \/ SignOut(c) \/ BumpTokenVersion(c) \/ CutOff(c)
  \/ Remove \/ Tick

Spec == Init /\ [][Next]_vars

-----------------------------------------------------------------------------
(* Properties. *)

\* Rows, budgets and calls are of their kind.
TypeOK ==
  /\ time \in 0..MaxTime /\ codes \in 0..MaxCodes
  /\ challenge \in Challenge \cup {Absent}
  /\ account \in Nat \cup {Absent}
  /\ spent \in [{"request", "verify"} -> [0..WindowOf(MaxTime) -> Nat]]
  /\ stored \subseteq Code /\ signedOut \subseteq Nat
  /\ sent \subseteq [code: Code, window: 0..WindowOf(MaxTime)]
  /\ opened \in [Code -> Nat]
  /\ call \in [Callers -> Call]

\* A code opens one session at most, however many calls present it at once.
OneSessionPerCode == \A k \in Code : opened[k] <= 1

\* A message carries only a code that was stored: a request that lost to another sends
\* nothing, whatever it finds when it looks again.
SentIsStored == \A s \in sent : s.code \in stored

\* The messages of a window stay within the number's budget, and the wrong guesses a
\* challenge was compared with exceed its limit by no more than the calls that overlap.
BudgetHolds ==
  /\ \A w \in 0..WindowOf(MaxTime) : Cardinality({s \in sent : s.window = w}) <= RequestLimit
  /\ challenge # Absent => challenge.attempts < MaxAttempts + Cardinality(Callers)

\* An acknowledged sign-out retires its token for good: no sign-in, under way or later,
\* brings the version back.
SignedOutStaysOut == \A v \in signedOut : account # Absent /\ account > v

\* While the row stands, a challenge is replaced only by one issued later.
NewestCodeStands ==
  [][challenge # Absent /\ challenge' # Absent /\ challenge'.id # challenge.id
       => challenge'.issued > challenge.issued]_vars
=============================================================================
