------------------------------ MODULE Collector ------------------------------
(***************************************************************************)
(* The paid collectors of runProductionOddsControlPlane                    *)
(* (apps/workers/src/production-odds-control-plane.ts): the schedule of a  *)
(* league, the account, and the betting splits of a league.  Each walks    *)
(* pages it pays for under a continuation row that elects one invocation,  *)
(* and seals every page before it uses it.  One behaviour is one such row  *)
(* with its run; `kind' says whose it is.  A Lambda's timeout is the       *)
(* length of a lease (infra/cdk/src/foundation.ts), so a lease outlives    *)
(* everyone who was alive at its last renewal; two invocations may overlap.*)
(***************************************************************************)
EXTENDS Naturals

CONSTANTS
    Slots,      \* invocations alive at a time; one that has ended is called again
    Kinds,      \* which collectors to look at
    NPages,     \* the pages of a walk
    Runs,       \* run ids, which a name and a time make; 0 is none
    None

ASSUME CollectorAssumption ==
    /\ Kinds \subseteq {"schedule", "account", "splits"}
    /\ NPages \in Nat \ {0}
    /\ None \notin Slots /\ 0 \notin Runs /\ Runs # {}
    /\ None \notin [run : Runs, owner : Slots \cup {None}, live : BOOLEAN,
                    amb : {"none", "ahead", "past"}, aged : BOOLEAN]
    /\ \A used \in [Slots -> Runs \cup {0}], r \in Runs :
         \E new \in Runs : new # r /\ \A w \in Slots : used[w] # new

VARIABLES
    kind,       \* which collector the row belongs to
    cont,       \* CONTINUATION#<key>
    ckpt,       \* CHECKPOINT#<key>; splits have none of their own
    pages,      \* pages[r][p] : PAGE rows of run r, with a schedule's conflict page
    inv,        \* inv[w] : where an invocation stands and what it has read
    fresh,      \* invocations that have read the checkpoint's current version
    waits,      \* whose end the lease and the ambiguity's window wait for
    calm        \* nothing is killed and no store call throws any more

rows == <<cont, ckpt, pages>>
vars == <<kind, rows, inv, fresh, waits, calm>>

Page == 1 .. NPages
Schedule == kind = "schedule"
NoPage  == [body |-> "none", committed |-> FALSE, verdict |-> "none", noted |-> FALSE]
Idle    == [pc |-> "idle", run |-> 0, page |-> 1, verdict |-> "none"]
Row     == [run : Runs, owner : Slots \cup {None}, live : BOOLEAN,
            amb : {"none", "ahead", "past"}, aged : BOOLEAN]

Alive == {w \in Slots : inv[w].pc # "idle"}
At(w, pc) == inv[w].pc = pc
Mine(w) == cont # None /\ cont.run = inv[w].run /\ cont.owner = w

Init ==
    /\ kind \in Kinds
    /\ cont = None /\ ckpt = None
    /\ pages = [r \in Runs |-> [p \in Page |-> NoPage]]
    /\ inv = [w \in Slots |-> Idle]
    /\ fresh = {}
    /\ waits = [lease |-> {}, amb |-> {}]
    /\ calm = FALSE

Goto(w, pc) == inv' = [inv EXCEPT ![w].pc = pc]

\* The invocation is done with this row, which becomes c.  Its random owner id is never
\* seen again, nor are the pages of a run that nothing names.
Return(w, c) ==
    /\ inv' = [inv EXCEPT ![w] = Idle]
    /\ cont' = IF c = None THEN None ELSE IF c.owner = w THEN [c EXCEPT !.owner = None] ELSE c
    /\ pages' = LET named == {inv'[v].run : v \in Slots} \cup (IF c = None THEN {} ELSE {c.run})
                IN  [r \in Runs |-> IF r \in named THEN pages[r] ELSE [p \in Page |-> NoPage]]
    /\ fresh' = fresh \ {w}
    /\ waits' = [lease |-> waits.lease \ {w}, amb |-> waits.amb \ {w}]
    /\ UNCHANGED <<kind, ckpt, calm>>
Fail(w) == Return(w, cont)

-----------------------------------------------------------------------------
(* Election.                                                               *)
ReadCheckpoint(w) ==
    /\ At(w, "idle")
    /\ Goto(w, IF ckpt = None \/ ckpt.due THEN "due" ELSE "early")
    /\ fresh' = fresh \cup {w}
    /\ UNCHANGED <<kind, rows, waits, calm>>

\* A schedule that finds an ambiguity gives up, whether its window is over or not.
Latched == cont # None /\ cont.amb # "none"
\* variant: everyone stops at an ambiguity, whether its window is over or not.
BlockedForEver == Latched
\* The account and the splits let an ambiguity go when its window is over.
Blocked == cont # None /\ cont.amb = "ahead"

ReadContinuation(w) ==
    /\ At(w, "due") \/ At(w, "early")
    /\ IF (IF Schedule THEN Latched ELSE Blocked) \/ (cont = None /\ At(w, "early"))
       THEN Fail(w)
       ELSE /\ inv' = [inv EXCEPT ![w] = [@ EXCEPT
                              !.pc = "claim", !.run = IF cont = None THEN 0 ELSE cont.run]]
            /\ UNCHANGED <<kind, rows, fresh, waits, calm>>

\* variant: the claim asks for the row's version only.
Unfenced(w) == FALSE
\* claimContinuation: a live lease of somebody else wins.
Held(w) == cont # None /\ cont.owner # w /\ cont.live
\* Splits leave a run behind whose id is older than 45 minutes.
Abandons(w) ==
    IF kind # "splits" THEN {FALSE}
    ELSE IF cont # None /\ cont.run = inv[w].run THEN {cont.aged} ELSE BOOLEAN
FreshRun == CHOOSE r \in Runs :
               /\ \A v \in Slots : inv[v].run # r
               /\ cont = None \/ cont.run # r

Claim(w) ==
    /\ At(w, "claim")
    /\ IF Held(w) THEN Fail(w)
       ELSE \E old \in Abandons(w) :
            LET new == inv[w].run = 0 \/ old
                r   == IF new THEN FreshRun ELSE inv[w].run IN
            /\ cont' = [run |-> r, owner |-> w, live |-> TRUE, amb |-> "none",
                        aged |-> ~new /\ cont # None /\ cont.run = r /\ cont.aged]
            /\ pages' = IF new THEN [pages EXCEPT ![r] = [p \in Page |-> NoPage]] ELSE pages
            /\ inv' = [inv EXCEPT ![w] = [@ EXCEPT !.pc = "look", !.run = r]]
            /\ waits' = [waits EXCEPT !.lease = Alive]
            /\ UNCHANGED <<kind, ckpt, fresh, calm>>

\* assertAndRenewOwner.
Owns(w) == Mine(w) /\ cont.live /\ cont.amb = "none"
Renewed == [waits EXCEPT !.lease = Alive]

-----------------------------------------------------------------------------
(* A page: pay, seal, use, commit.                                         *)
Here(w) == pages[inv[w].run][inv[w].page]
SetPage(w, q) == pages' = [pages EXCEPT ![inv[w].run][inv[w].page] = q]

Look(w) ==
    /\ At(w, "look")
    /\ Goto(w, IF Here(w).body = "none" THEN "pay" ELSE "use")
    /\ UNCHANGED <<kind, rows, fresh, waits, calm>>

\* The account's quota may refuse.
Reserve(w) ==
    /\ At(w, "pay")
    /\ \/ Fail(w)
       \/ /\ Owns(w) /\ Goto(w, "ask") /\ waits' = Renewed
          /\ UNCHANGED <<kind, rows, fresh, calm>>

\* The provider answers with a page that can be used or not, refuses, or is not heard.
Answer(w) ==
    /\ At(w, "ask")
    /\ \/ /\ \E pc \in {"good", "bad", "mark"} : Goto(w, pc)
          /\ UNCHANGED <<kind, rows, fresh, waits, calm>>
       \/ Fail(w)

\* putContinuationCas with an ambiguity keeps the one that is there.
Fenced == [cont EXCEPT !.amb = IF @ = "none" THEN "ahead" ELSE @]
MarkAmbiguous(w) ==
    /\ At(w, "mark")
    /\ IF Mine(w)
       THEN /\ cont' = Fenced /\ Goto(w, "fail") /\ waits' = [waits EXCEPT !.amb = Alive]
            /\ UNCHANGED <<kind, ckpt, pages, fresh, calm>>
       ELSE Fail(w)
GiveUp(w) == At(w, "fail") /\ Fail(w)

\* sealPaidPage: the first seal stands, and one that throws, done or not, is an ambiguity.
Sealed(w) == IF Here(w).body = "none" THEN [NoPage EXCEPT !.body = inv[w].pc] ELSE Here(w)
Seal(w) ==
    /\ At(w, "good") \/ At(w, "bad")
    /\ IF Owns(w)
       THEN /\ \/ SetPage(w, Sealed(w)) /\ Goto(w, "use")
               \/ SetPage(w, Sealed(w)) /\ Goto(w, "mark")
               \/ UNCHANGED pages /\ Goto(w, "mark")
            /\ waits' = Renewed
            /\ UNCHANGED <<kind, cont, ckpt, fresh, calm>>
       ELSE Fail(w)

\* Bind the events of a schedule page, unless its conflict page says how that went; publish
\* the account; persist a page of splits.  What cannot be used stops every invocation.  Only
\* the offset page of splits, their first, asks for the ownership; history pages do not.
Asserts(w) == kind = "splits" /\ inv[w].page = 1
Use(w) ==
    /\ At(w, "use")
    /\ IF Here(w).body = "bad" \/ (Asserts(w) /\ ~Owns(w)) THEN Fail(w)
       ELSE /\ \E v \in {"accepted", "conflict"} :
                  /\ v = Here(w).verdict \/ Here(w).verdict = "none"
                  /\ Schedule \/ v = "accepted"
                  /\ inv' = [inv EXCEPT ![w] = [@ EXCEPT !.pc = "commit", !.verdict = v]]
            /\ waits' = IF Asserts(w) THEN Renewed ELSE waits
            /\ UNCHANGED <<kind, rows, fresh, calm>>

\* The schedule and the account assert the ownership before they commit.
Commit(w) ==
    /\ At(w, "commit")
    /\ IF Owns(w) \/ kind = "splits"
       THEN /\ SetPage(w, [Here(w) EXCEPT !.committed = TRUE])
            /\ Goto(w, IF Schedule THEN "sealConflicts" ELSE "next")
            /\ waits' = IF kind = "splits" THEN waits ELSE Renewed
            /\ UNCHANGED <<kind, cont, ckpt, fresh, calm>>
       ELSE Fail(w)

\* The conflict page of a schedule page keeps the disposition of its events.
SealConflicts(w) ==
    /\ At(w, "sealConflicts")
    /\ \/ /\ Here(w).verdict # "none"
          /\ Goto(w, "commitConflicts")
          /\ UNCHANGED <<pages, waits>>
       \/ /\ Here(w).verdict = "none" /\ Owns(w)
          /\ SetPage(w, [Here(w) EXCEPT !.verdict = inv[w].verdict])
          /\ Goto(w, "commitConflicts") /\ waits' = Renewed
    /\ UNCHANGED <<kind, cont, ckpt, fresh, calm>>

CommitConflicts(w) ==
    /\ At(w, "commitConflicts")
    /\ SetPage(w, [Here(w) EXCEPT !.noted = TRUE])
    /\ Goto(w, "next")
    /\ UNCHANGED <<kind, cont, ckpt, fresh, waits, calm>>

NextPage(w) ==
    /\ At(w, "next")
    /\ IF inv[w].page < NPages /\ kind # "account"
       THEN inv' = [inv EXCEPT ![w] = [@ EXCEPT
                      !.pc = "look", !.page = inv[w].page + 1, !.verdict = "none"]]
       ELSE Goto(w, IF kind = "splits" THEN "clear" ELSE "finish")
    /\ UNCHANGED <<kind, rows, fresh, waits, calm>>

-----------------------------------------------------------------------------
(* The end of a walk.                                                      *)
Walked == IF kind = "account" THEN {1} ELSE Page
Verdict(r) == IF \E p \in Walked : pages[r][p].verdict # "conflict" THEN "ready" ELSE "conflict"

\* The checkpoint is put under the version that was read before the walk.
PutCheckpoint(w) ==
    /\ At(w, "finish")
    /\ IF w \in fresh
       THEN /\ ckpt' = [says |-> Verdict(inv[w].run), due |-> FALSE]
            /\ fresh' = {}
            /\ Goto(w, "clear")
            /\ UNCHANGED <<kind, cont, pages, waits, calm>>
       ELSE Fail(w)

\* clearOwned; a schedule whose events all conflict is cleared as well.
Clear(w) ==
    /\ At(w, "clear")
    /\ Return(w, IF Mine(w) THEN None ELSE cont)

-----------------------------------------------------------------------------
(* Faults and time.                                                        *)
Crash(w) == ~calm /\ ~At(w, "idle") /\ Fail(w)
CalmDown == ~calm /\ calm' = TRUE /\ UNCHANGED <<kind, rows, inv, fresh, waits>>

LeaseLapses ==
    /\ cont # None /\ cont.live /\ waits.lease = {}
    /\ cont' = [cont EXCEPT !.live = FALSE]
    /\ UNCHANGED <<kind, ckpt, pages, inv, fresh, waits, calm>>
AmbiguityLapses ==
    /\ cont # None /\ cont.amb = "ahead" /\ waits.amb = {} /\ ~cont.live
    /\ cont' = [cont EXCEPT !.amb = "past"]
    /\ UNCHANGED <<kind, ckpt, pages, inv, fresh, waits, calm>>
\* A run's age is asked for by splits only, and only when its lease is over.
RunAges ==
    /\ kind = "splits" /\ cont # None /\ ~cont.live /\ ~cont.aged
    /\ cont' = [cont EXCEPT !.aged = TRUE]
    /\ UNCHANGED <<kind, ckpt, pages, inv, fresh, waits, calm>>
CheckpointDue ==
    /\ ckpt # None /\ ~ckpt.due
    /\ ckpt' = [ckpt EXCEPT !.due = TRUE]
    /\ UNCHANGED <<kind, cont, pages, inv, fresh, waits, calm>>
Time == LeaseLapses \/ AmbiguityLapses \/ RunAges \/ CheckpointDue

Step(w) ==
    \/ ReadCheckpoint(w) \/ ReadContinuation(w) \/ Claim(w)
    \/ Look(w) \/ Reserve(w) \/ Answer(w) \/ MarkAmbiguous(w) \/ GiveUp(w) \/ Seal(w)
    \/ Use(w) \/ Commit(w) \/ SealConflicts(w) \/ CommitConflicts(w) \/ NextPage(w)
    \/ PutCheckpoint(w) \/ Clear(w)

Next ==
    \/ \E w \in Slots : Step(w) \/ Crash(w)
    \/ Time
    \/ CalmDown

Spec == Init /\ [][Next]_vars

-----------------------------------------------------------------------------
PCs == {"idle", "due", "early", "claim", "look", "pay", "ask", "good", "bad", "mark", "fail",
        "use", "commit", "sealConflicts", "commitConflicts", "next", "finish", "clear"}
TypeOK ==
    /\ kind \in Kinds
    /\ cont \in Row \cup {None}
    /\ ckpt \in [says : {"ready", "conflict"}, due : BOOLEAN] \cup {None}
    /\ pages \in [Runs -> [Page -> [body : {"none", "good", "bad"}, committed : BOOLEAN,
                                    verdict : {"none", "accepted", "conflict"}, noted : BOOLEAN]]]
    /\ inv \in [Slots -> [pc : PCs, run : Runs \cup {0}, page : Page,
                          verdict : {"none", "accepted", "conflict"}]]
    /\ fresh \subseteq Slots /\ waits \in [lease : SUBSET Slots, amb : SUBSET Slots]
    /\ calm \in BOOLEAN

\* Two invocations never pay for the collector's pages at a time, and none pays for a page
\* that its run has sealed ("A retry consumes a sealed normalized page before making another
\* paid call", docs/phase1-deployment.md).
PaidOnce ==
    /\ \A v, w \in Slots : At(v, "ask") /\ At(w, "ask") => v = w
    /\ \A w \in Slots : At(w, "ask") => Here(w).body = "none"

\* A run that is about to become the checkpoint's has every page committed and, if it is a
\* schedule's, the disposition of every page on record: what the checkpoint says of its
\* events is what other invocations would find.
WalkIsWhole ==
    \A w \in Slots : At(w, "finish") \/ At(w, "clear") =>
        \A p \in Walked : LET q == pages[inv[w].run][p] IN
            q.body = "good" /\ q.committed /\ (Schedule => q.noted /\ q.verdict # "none")

\* Two invocations never pay for a collector's pages at a time nor for a sealed one, and a
\* walk that ends has every page committed, with what became of its events on record.
WalksArePaidOnce == TypeOK /\ PaidOnce /\ WalkIsWhole

\* What holds a collector back: an ambiguity ("ambiguous behind a five-minute reconciliation
\* lease; it is not automatically recalled during that lease", docs/phase1-deployment.md), or,
\* for a league's splits, a run past its age, whatever its pages are.  A schedule's ambiguity
\* holds for ever.
HeldBack == /\ cont # None
            /\ (cont.amb # "none" /\ ~Schedule) \/ (cont.aged /\ kind = "splits")
=============================================================================
