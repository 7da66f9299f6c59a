-------------------------------- MODULE Access --------------------------------
(***************************************************************************)
(* The three ways into the product: SignIn, AdminAccess and Billing.  They *)
(* share no row, so a behaviour is a behaviour of one of them, chosen at   *)
(* its start, with the others at rest.                                     *)
(***************************************************************************)
EXTENDS Integers, FiniteSets

CONSTANTS Callers, Absent, MaxAttempts, Life, Window, CallTime, RequestLimit, VerifyLimit,
          MaxTime, MaxCodes, MaxVersion
CONSTANTS People, Owner, Requests, Keys, None, MaxGrants, MaxBumps
CONSTANTS Webhooks, Checkouts, Customers, MaxEvents, MaxSecond, Says

VARIABLES part
VARIABLES time, challenge, account, spent, codes, stored, sent, opened, signedOut, call
VARIABLES owner, directory, identity, mapped, evidence, grant, audits, answers, task
VARIABLES record, pointers, made, remembered, invited, second, emitted, webhook, checkout

S == INSTANCE SignIn
A == INSTANCE AdminAccess
B == INSTANCE Billing

ASSUME AccessAssumption ==
    S!SignInAssumption /\ A!AdminAssumption /\ B!BillingAssumption

svars == <<time, challenge, account, spent, codes, stored, sent, opened, signedOut, call>>
avars == <<owner, directory, identity, mapped, evidence, grant, audits, answers, task>>
bvars == <<record, pointers, made, remembered, invited, second, emitted, webhook, checkout>>
vars == <<part, svars, avars, bvars>>

Init == part \in {"sign-in", "admin", "billing"} /\ S!Init /\ A!Init /\ B!Init
Next ==
  \/ part = "sign-in" /\ S!Next /\ UNCHANGED <<part, avars, bvars>>
  \/ part = "admin" /\ A!Next /\ UNCHANGED <<part, svars, bvars>>
  \/ part = "billing" /\ B!Next /\ UNCHANGED <<part, svars, avars>>
Spec == Init /\ [][Next]_vars

\* Rows and calls of the three components are of their kind.
TypeOK == /\ part = "sign-in" => S!TypeOK
          /\ part = "admin" => A!TypeOK
          /\ part = "billing" => B!TypeOK

\* Sign-in and administered access: a code opens one session and is sent only where it is
\* stored, guesses and requests keep to their budgets, a token signed out stays out; a
\* person's rows are entered together, and the audits tell each grant's history and each
\* answer.
CodesAndEntry ==
  /\ part = "sign-in" => /\ S!OneSessionPerCode /\ S!SentIsStored
                         /\ S!BudgetHolds /\ S!SignedOutStaysOut
  /\ part = "admin" => A!EnteredWhole /\ A!AuditedHistory /\ A!AnswersAreAudited

\* Billing: no event of a customer finds no account, and no access goes beyond what was
\* paid for or tried.
PaidFor == part = "billing" => B!NoEventUnattributed /\ B!NothingUnpaid

\* What overlapping calls may never take back: the newest code, a token's version, the
\* second an entitlement was last changed at, and access that Stripe's events gave.
FencesRise == S!NewestCodeStands /\ A!TokenVersionRises /\ B!FenceRises /\ B!OnlyEventsGrant
=============================================================================
