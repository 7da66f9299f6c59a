---------------------------- MODULE AdminAccess ----------------------------
(***************************************************************************)
(* Administered access: verified logins that enter people in the           *)
(* directory, the owner first, and the manual grants and revocations of    *)
(* operators, over the identity table.                                     *)
(*                                                                         *)
(* A person's directory row and grant row are read as one; the parallel    *)
(* reads of a login are taken one by one, in any order.  One operator      *)
(* stands for all, and a login begins where its code has been compared.    *)
(***************************************************************************)
EXTENDS Integers, FiniteSets

CONSTANTS
  People, Owner,      \* accounts, and the one configured as owner
  Requests,           \* calls under way at a time
  Keys,               \* idempotency keys
  None,
  MaxGrants, MaxBumps \* bounds of the model

VARIABLES
  owner,              \* the ADMIN_OWNER row exists
  directory,          \* lifecycle of a person's directory row
  identity,           \* tokenVersion of a person's account row
  mapped,             \* people with an account-to-directory mapping
  evidence,           \* people with the audit row of their first login
  grant,              \* manual grant rows
  audits,             \* audit rows of mutations, by idempotency key
  answers,            \* mutations answered as done
  task                \* calls between two steps

login == <<owner, directory, identity, mapped, evidence>>
grants == <<grant, audits, answers>>
vars == <<login, grants, task>>

Lifecycle == {"none", "pending", "active"}
Grant == [version: 0..MaxGrants, active: BOOLEAN]
NoGrant == [version |-> 0, active |-> FALSE]
Action == {"grant", "grantExisting", "revoke"}
Audit == [active: BOOLEAN, person: People, version: 1..MaxGrants]
Answer == [key: Keys, active: BOOLEAN, person: People, version: 1..MaxGrants]

Read == {"directory", "identity", "owner"}
Login == [pc: {"allowed", "read", "enter", "return", "recheck"}, person: People,
          todo: SUBSET Read, directory: Lifecycle, identity: Nat \cup {None},
          owner: BOOLEAN]
Mutation == [pc: {"item", "replay", "write", "again"}, op: Action, person: People,
             key: Keys, expected: 0..MaxGrants, fresh: BOOLEAN, seen: Grant]
Idle == [pc |-> "idle"]

AdminAssumption ==
  /\ Owner \in People
  /\ None \notin Nat /\ None \notin Audit
  /\ MaxGrants \in Nat /\ MaxBumps \in Nat

Init ==
  /\ owner = FALSE /\ mapped = {} /\ evidence = {} /\ answers = {}
  /\ directory = [p \in People |-> "none"]
  /\ identity = [p \in People |-> None]
  /\ grant = [p \in People |-> NoGrant]
  /\ audits = [k \in Keys |-> None]
  /\ task = [r \in Requests |-> Idle]

Become(r, l) == task' = [task EXCEPT ![r] = l]
Step(r, pc) == task[r].pc = pc

-----------------------------------------------------------------------------
(* A verified login. *)

BeginLogin(r) ==
  /\ task[r] = Idle
  /\ \E p \in People :
       Become(r, [pc |-> "allowed", person |-> p, todo |-> Read, directory |-> "none",
                  identity |-> None, owner |-> FALSE])
  /\ UNCHANGED <<login, grants>>

\* ownerBootstrapComplete.
BootstrapComplete == /\ directory[Owner] = "active" /\ identity[Owner] # None
                     /\ Owner \in mapped /\ Owner \in evidence
Admits(p, known) == IF known THEN BootstrapComplete ELSE p = Owner

AssertAllowed(r) ==
  /\ Step(r, "allowed")
  /\ Become(r, IF Admits(task[r].person, owner) THEN [task[r] EXCEPT !.pc = "read"]
                                                ELSE Idle)
  /\ UNCHANGED <<login, grants>>

ReadRow(r) ==
  LET l == task[r]
      with(row) ==
        CASE row = "directory" -> [l EXCEPT !.directory = directory[l.person]]
          [] row = "identity" -> [l EXCEPT !.identity = identity[l.person]]
          [] row = "owner" -> [l EXCEPT !.owner = owner]
  IN  /\ Step(r, "read")
      /\ \E row \in l.todo : Become(r, [with(row) EXCEPT !.todo = @ \ {row}])
      /\ UNCHANGED <<login, grants>>

\* A person with an account returns; any other enters.  Rows that disagree end the call.
Decide(r) ==
  LET l == task[r]
      returns == l.directory = "active" /\ l.person \in mapped
  IN  /\ Step(r, "read") /\ l.todo = {}
      /\ Become(r, IF ~ Admits(l.person, l.owner) THEN Idle
                   ELSE IF l.identity = None THEN [l EXCEPT !.pc = "enter"]
                   ELSE IF returns THEN [l EXCEPT !.pc = "return"] ELSE Idle)
      /\ UNCHANGED <<login, grants>>

SameVersion(l) == identity[l.person] = l.identity
Return(r) ==
  /\ Step(r, "return")
  /\ identity' = IF SameVersion(task[r]) THEN [identity EXCEPT ![task[r].person] = task[r].identity]
                                      ELSE identity
  /\ Become(r, Idle)
  /\ UNCHANGED <<owner, directory, mapped, evidence, grants>>

\* The conditions of the first login's transaction.
MayEnter(l) ==
  /\ identity[l.person] = None /\ l.person \notin mapped
  /\ l.person \notin evidence
  /\ directory[l.person] = l.directory /\ directory[l.person] # "active"
  /\ ~ l.owner => ~ owner
Enter(r) ==
  LET l == task[r]
      p == l.person
  IN  /\ Step(r, "enter")
      /\ IF MayEnter(l)
         THEN /\ identity' = [identity EXCEPT ![p] = 0]
              /\ directory' = [directory EXCEPT ![p] = "active"]
              /\ mapped' = mapped \cup {p} /\ evidence' = evidence \cup {p}
              /\ owner' = TRUE
              /\ Become(r, Idle)
         ELSE UNCHANGED login /\ Become(r, [l EXCEPT !.pc = "recheck"])
      /\ UNCHANGED grants

\* A refused transaction is answered with what another login of the person entered, or not
\* at all: no row is written either way.
Recheck(r) ==
  /\ Step(r, "recheck")
  /\ Become(r, Idle)
  /\ UNCHANGED <<login, grants>>

\* Signing out (identity-repository's bumpTokenVersion).
SignOut(p) ==
  /\ identity[p] # None /\ identity[p] < MaxBumps
  /\ identity' = [identity EXCEPT ![p] = @ + 1]
  /\ UNCHANGED <<owner, directory, mapped, evidence, grants, task>>

-----------------------------------------------------------------------------
(* A manual grant or revocation. *)

\* A person is granted access by number, or, once listed, by directory id and version.
BeginMutation(r) ==
  /\ task[r] = Idle
  /\ \E op \in Action, p \in People, k \in Keys, v \in 0..(MaxGrants - 1) :
       /\ op = "grant" => v = 0
       /\ Become(r, [pc |-> IF op = "grant" THEN "replay" ELSE "item", op |-> op,
                     person |-> p, key |-> k, expected |-> v, fresh |-> FALSE,
                     seen |-> NoGrant])
  /\ UNCHANGED <<login, grants>>

ReadItem(r) ==
  LET l == task[r]
      fresh == directory[l.person] = "none"
      missing == \/ l.op # "grant" /\ fresh
                 \/ l.op = "revoke" /\ grant[l.person] = NoGrant
  IN  /\ Step(r, "item")
      /\ Become(r, IF missing THEN Idle
                   ELSE [l EXCEPT !.pc = IF l.op = "grant" THEN "write" ELSE "replay",
                                  !.fresh = fresh, !.seen = grant[l.person]])
      /\ UNCHANGED <<login, grants>>

Asked(l) == l.op # "revoke"
\* mutationReplay: the audit row is of this mutation, and the grant is as it left it.
Replays(l) ==
  LET a == audits[l.key]
  IN  /\ a.active = Asked(l) /\ a.person = l.person
      /\ grant[l.person] = [version |-> a.version, active |-> a.active]
Answered(l, v) == [key |-> l.key, active |-> Asked(l), person |-> l.person, version |-> v]
AnswerReplay(r) ==
  /\ answers' = IF Replays(task[r])
                THEN answers \cup {Answered(task[r], audits[task[r].key].version)}
                ELSE answers
  /\ Become(r, Idle)
Replay(r) ==
  LET l == task[r]
      next == IF l.op = "grant" THEN [l EXCEPT !.pc = "item"]
              ELSE IF l.seen.version = l.expected THEN [l EXCEPT !.pc = "write"] ELSE Idle
  IN  /\ Step(r, "replay")
      /\ IF audits[l.key] # None THEN AnswerReplay(r)
         ELSE Become(r, next) /\ UNCHANGED answers
      /\ UNCHANGED <<login, grant, audits>>

Transaction(l) ==
  /\ audits[l.key] = None
  /\ grant[l.person].version = l.seen.version
  /\ l.fresh => directory[l.person] = "none"
Write(r) ==
  LET l == task[r]
      v == l.seen.version + 1
  IN  /\ Step(r, "write") /\ v <= MaxGrants
      /\ IF Transaction(l)
         THEN /\ grant' = [grant EXCEPT ![l.person] = [version |-> v, active |-> Asked(l)]]
              /\ audits' = [audits EXCEPT ![l.key] =
                   [active |-> Asked(l), person |-> l.person, version |-> v]]
              /\ answers' = answers \cup {Answered(l, v)}
              /\ directory' = IF l.fresh THEN [directory EXCEPT ![l.person] = "pending"]
                                         ELSE directory
              /\ Become(r, Idle)
         ELSE UNCHANGED <<grants, directory>> /\ Become(r, [l EXCEPT !.pc = "again"])
      /\ UNCHANGED <<owner, identity, mapped, evidence>>

ReplayAgain(r) ==
  /\ Step(r, "again")
  /\ IF audits[task[r].key] # None THEN AnswerReplay(r)
     ELSE Become(r, Idle) /\ UNCHANGED answers
  /\ UNCHANGED <<login, grant, audits>>

\* A call is cut off.
CutOff(r) ==
  /\ task[r] # Idle
  /\ Become(r, Idle)
  /\ UNCHANGED <<login, grants>>

Next ==
  \/ \E r \in Requests :
       \/ BeginLogin(r) \/ AssertAllowed(r) \/ ReadRow(r) \/ Decide(r)
       \/ Return(r) \/ Enter(r) \/ Recheck(r)
       \/ BeginMutation(r) \/ ReadItem(r) \/ Replay(r) \/ Write(r) \/ ReplayAgain(r)
       \/ CutOff(r)
  \/ \E p \in People : SignOut(p)

Spec == Init /\ [][Next]_vars

-----------------------------------------------------------------------------
(* Properties. *)

\* Rows and calls are of their kind.
TypeOK ==
  /\ owner \in BOOLEAN /\ mapped \subseteq People /\ evidence \subseteq People
  /\ directory \in [People -> Lifecycle]
  /\ identity \in [People -> Nat \cup {None}]
  /\ grant \in [People -> Grant]
  /\ audits \in [Keys -> Audit \cup {None}]
  /\ answers \subseteq Answer
  /\ \A r \in Requests : task[r] = Idle \/ task[r] \in Login \/ task[r] \in Mutation

\* A person has an account exactly when the directory shows the person active, the mapping
\* leads back to the entry and the login is on record; and nobody has one before the owner.
EnteredWhole ==
  /\ \A p \in People :
       /\ (identity[p] # None) = (directory[p] = "active")
       /\ (identity[p] # None) = (p \in mapped)
       /\ (identity[p] # None) = (p \in evidence)
       /\ grant[p] # NoGrant => directory[p] # "none"
  /\ owner = (identity[Owner] # None)
  /\ \A p \in People : identity[p] # None => owner

\* The audit rows of a person tell the grant's whole history: one row for every version, and
\* the last one's action is what holds.
AuditedHistory ==
  \A p \in People :
    LET rows == {k \in Keys : audits[k] # None /\ audits[k].person = p}
    IN  /\ {audits[k].version : k \in rows} = 1..grant[p].version
        /\ Cardinality(rows) = grant[p].version
        /\ \A k \in rows : audits[k].version = grant[p].version
                             => audits[k].active = grant[p].active

\* What was answered as done is what the audit row of its key records: a key answers for one
\* mutation, however often and by whatever calls it is used.
AnswersAreAudited ==
  \A a \in answers :
    audits[a.key] = [active |-> a.active, person |-> a.person, version |-> a.version]

\* A login that returns brings no token back that a sign-out has retired.
TokenVersionRises ==
  [][\A p \in People : identity[p] # None
       => identity'[p] # None /\ identity'[p] >= identity[p]]_vars
=============================================================================
