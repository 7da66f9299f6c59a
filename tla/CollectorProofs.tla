--------------------------- MODULE CollectorProofs ---------------------------
(***************************************************************************)
(* Proofs about Collector.  A Lambda's timeout is the length of a lease,   *)
(* so the lease of a claim outlives the invocation that made it: whoever   *)
(* has claimed and not ended still owns the row (Exclusive), hence is the  *)
(* only one that works on its run's pages, and what it knows of them from  *)
(* its own steps stays true (OnPage).                                      *)
(***************************************************************************)
EXTENDS Collector, TLAPS

\* Where an invocation stands from its claim to its end.
Working == PCs \ {"idle", "due", "early", "claim"}

\* Whoever works owns the row under a lease that waits for its end; an owner works.
Exclusive ==
    /\ \A w \in Slots : inv[w].pc \in Working => Mine(w)
    /\ \A w \in Slots : cont # None /\ cont.owner = w =>
           /\ inv[w].pc \in Working
           /\ cont.live
           /\ w \in waits.lease

Done(q) == q.body = "good" /\ q.committed /\ (Schedule => q.noted /\ q.verdict # "none")

\* What an invocation that stands at i.pc knows of the page q it is on.
OnPage(i, q) ==
    /\ i.pc \in {"pay", "ask", "good", "bad"} => q.body = "none"
    /\ i.pc = "use" => q.body # "none"
    /\ i.pc \in {"commit", "sealConflicts"} => q.body = "good" /\ i.verdict # "none"
    /\ i.pc \in {"sealConflicts", "commitConflicts"} => q.committed
    /\ i.pc = "commitConflicts" => q.body = "good" /\ q.verdict # "none"
    /\ i.pc \in {"next", "finish", "clear"} => Done(q)

\* What it knows of the walk: the pages before its own are done, and at its end all are.
OnWalk(i) ==
    /\ i.pc \in {"idle", "due", "early", "claim"} => i.page = 1
    /\ kind = "account" => i.page = 1
    /\ i.pc \in Working =>
        /\ i.run \in Runs
        /\ OnPage(i, pages[i.run][i.page])
        /\ \A p \in Page : p < i.page => Done(pages[i.run][p])
    /\ i.pc \in {"finish", "clear"} /\ kind # "account" => i.page = NPages

WalkInv ==
    /\ TypeOK
    /\ Exclusive
    /\ \A w \in Slots : OnWalk(inv[w])

-----------------------------------------------------------------------------
(* Types.                                                                  *)
Verdicts == {"none", "accepted", "conflict"}
Local == [pc : PCs, run : Runs \cup {0}, page : Page, verdict : Verdicts]
PageRow == [body : {"none", "good", "bad"}, committed : BOOLEAN, verdict : Verdicts, noted : BOOLEAN]
Table == [Runs -> [Page -> PageRow]]
Answers == [says : {"ready", "conflict"}, due : BOOLEAN]
Ends == [lease : SUBSET Slots, amb : SUBSET Slots]

LEMMA TypeIs ==
    TypeOK <=> /\ kind \in Kinds /\ cont \in Row \cup {None} /\ ckpt \in Answers \cup {None}
               /\ pages \in Table /\ inv \in [Slots -> Local]
               /\ fresh \subseteq Slots /\ waits \in Ends /\ calm \in BOOLEAN
BY DEF TypeOK, Verdicts, Local, PageRow, Table, Answers, Ends

LEMMA FirstPage == NPages \in Nat /\ 1 \in Page /\ 0 \notin Runs /\ None \notin Row
BY CollectorAssumption, SMT DEF Page, Row

\* At most one invocation works.
LEMMA OneWorker ==
    ASSUME Exclusive, NEW v \in Slots, NEW w \in Slots,
           inv[v].pc \in Working, inv[w].pc \in Working
    PROVE  v = w
BY DEF Exclusive, Mine

\* A worker owns its row, and its run is one.
LEMMA WorkerOwns ==
    ASSUME WalkInv, NEW w \in Slots, inv[w].pc \in Working
    PROVE  /\ cont \in Row /\ cont # None /\ cont.owner = w /\ cont.run = inv[w].run /\ cont.live
           /\ w \in waits.lease /\ inv[w].run \in Runs /\ inv[w].page \in Page
           /\ inv[w] \in Local /\ Here(w) \in PageRow /\ Mine(w)
<1>1. /\ cont # None /\ cont.owner = w /\ cont.run = inv[w].run /\ cont.live
      /\ w \in waits.lease /\ Mine(w)
  BY DEF WalkInv, Exclusive, Mine
<1>2. inv[w].run \in Runs
  BY DEF WalkInv, OnWalk
<1>3. cont \in Row /\ inv[w] \in Local /\ pages \in Table
  BY <1>1, TypeIs DEF WalkInv
<1>4. inv[w].page \in Page
  BY <1>3 DEF Local
<1> QED
  BY <1>1, <1>2, <1>3, <1>4 DEF Here, Table

-----------------------------------------------------------------------------
(* The two ways a worker goes on: a step of its walk, and its end.         *)

\* A step that leaves the row's ownership and the pages before the worker's own alone,
\* and after which the worker knows what its new place asks for.
LEMMA WorkKeeps ==
    ASSUME WalkInv, NEW w \in Slots, inv[w].pc \in Working,
           NEW l \in Local, l.pc \in Working, l.run = inv[w].run,
           inv' = [inv EXCEPT ![w] = l],
           kind' = kind,
           cont' # None, cont'.owner = cont.owner, cont'.run = cont.run, cont'.live = cont.live,
           waits'.lease = waits.lease \/ waits'.lease = Alive,
           OnWalk(l)'
    PROVE  Exclusive' /\ \A v \in Slots : OnWalk(inv[v])'
<1>0. inv \in [Slots -> Local]
  BY TypeIs DEF WalkInv
<1>1. \A v \in Slots : v # w => inv'[v] = inv[v] /\ inv[v].pc \notin Working
  BY <1>0, OneWorker DEF WalkInv
<1>2. inv'[w] = l
  BY <1>0
<1>3. w \in waits'.lease
  BY WorkerOwns DEF Alive, Working
<1>4. Exclusive'
  BY <1>1, <1>2, <1>3, WorkerOwns DEF Exclusive, Mine, WalkInv
<1>5. ASSUME NEW v \in Slots PROVE OnWalk(inv[v])'
  <2>1. CASE v = w
    BY <2>1, <1>2 DEF OnWalk, OnPage, Done, Schedule
  <2>2. CASE v # w
    BY <2>2, <1>1 DEF OnWalk, WalkInv, Working
  <2> QED
    BY <2>1, <2>2
<1> QED
  BY <1>4, <1>5

LEMMA ReturnKeeps ==
    ASSUME WalkInv, NEW w \in Slots, NEW c \in Row \cup {None}, Return(w, c),
           c = cont \/ (c = None /\ Mine(w))
    PROVE  WalkInv'
<1>0. /\ inv \in [Slots -> Local] /\ pages \in Table /\ waits \in Ends /\ cont \in Row \cup {None}
      /\ fresh \subseteq Slots
  BY TypeIs DEF WalkInv
<1>1. Idle \in Local
  BY FirstPage, SMT DEF Idle, Local, PCs, Verdicts
<1>2. inv' \in [Slots -> Local] /\ inv'[w] = Idle /\ \A v \in Slots : v # w => inv'[v] = inv[v]
  BY <1>0, <1>1 DEF Return
<1>3. \A r \in Runs : (\E v \in Slots : inv'[v].run = r) => pages'[r] = pages[r]
  BY <1>2 DEF Return
<1>4. pages' \in Table
  <2>1. NoPage \in PageRow
    BY DEF NoPage, PageRow, Verdicts
  <2> QED
    BY <2>1, <1>0 DEF Return, Table
<1>5. cont' \in Row \cup {None}
  <2>1. CASE c = None
    BY <2>1 DEF Return
  <2>2. CASE c # None
    BY <2>2, <1>0 DEF Return, Row
  <2> QED
    BY <2>1, <2>2
<1>6. TypeOK'
  <2>1. waits' \in Ends
    BY <1>0 DEF Return, Ends
  <2>2. /\ kind' = kind /\ ckpt' = ckpt /\ calm' = calm /\ fresh' \subseteq Slots
    BY <1>0 DEF Return
  <2> QED
    BY <2>1, <2>2, <1>2, <1>4, <1>5, TypeIs DEF WalkInv, TypeOK, Verdicts, Local, PageRow, Table,
       Answers, Ends
<1>7. Exclusive'
  <2>1. ASSUME NEW v \in Slots, inv'[v].pc \in Working PROVE Mine(v)'
    <3>1. v # w
      BY <2>1, <1>2 DEF Idle, Working
    <3>2. Mine(v)
      BY <3>1, <2>1, <1>2 DEF WalkInv, Exclusive
    <3>3. c = cont /\ cont.owner # w
      BY <3>1, <3>2 DEF Mine
    <3>4. cont' = cont
      BY <3>2, <3>3 DEF Return, Mine
    <3> QED
      BY <3>2, <3>4, <3>1, <1>2 DEF Mine
  <2>2. ASSUME NEW v \in Slots, cont' # None, cont'.owner = v
        PROVE  inv'[v].pc \in Working /\ cont'.live /\ v \in waits'.lease
    <3>1. c # None /\ c = cont
      BY <2>2 DEF Return
    <3>2. v # w /\ cont' = cont
      <4>1. cont \in Row
        BY <3>1, <1>0
      <4>2. CASE cont.owner = w
        <5>1. cont'.owner = None
          BY <4>1, <4>2, <3>1 DEF Return, Row
        <5> QED
          BY <5>1, <2>2, CollectorAssumption
      <4>3. CASE cont.owner # w
        BY <4>3, <3>1, <2>2 DEF Return
      <4> QED
        BY <4>2, <4>3
    <3>3. inv[v].pc \in Working /\ cont.live /\ v \in waits.lease
      BY <3>1, <3>2, <2>2 DEF WalkInv, Exclusive
    <3>4. v \in waits'.lease
      BY <3>3, <3>2, <2>2, CollectorAssumption DEF Return
    <3> QED
      BY <3>2, <3>3, <3>4, <1>2
  <2> QED
    BY <2>1, <2>2 DEF Exclusive
<1>8. ASSUME NEW v \in Slots PROVE OnWalk(inv[v])'
  <2>1. CASE v = w
    BY <2>1, <1>2 DEF OnWalk, Idle, Working
  <2>2. CASE v # w
    <3>1. inv'[v] = inv[v] /\ kind' = kind
      BY <2>2, <1>2 DEF Return
    <3>2. inv[v].pc \in Working => pages'[inv[v].run] = pages[inv[v].run]
      BY <3>1, <1>3 DEF WalkInv, OnWalk
    <3> QED
      BY <3>1, <3>2 DEF WalkInv, OnWalk, OnPage, Done, Schedule
  <2> QED
    BY <2>1, <2>2
<1> QED
  BY <1>6, <1>7, <1>8 DEF WalkInv

-----------------------------------------------------------------------------
(* The steps, one lemma each.                                              *)
LEMMA FailKeeps ==
    ASSUME WalkInv, NEW w \in Slots, Fail(w)
    PROVE  WalkInv'
BY ReturnKeeps, TypeIs DEF Fail, WalkInv

\* What a step of a worker has to show.
LEMMA WorkStep ==
    ASSUME WalkInv, NEW w \in Slots, inv[w].pc \in Working,
           NEW l \in Local, l.pc \in Working, l.run = inv[w].run,
           inv' = [inv EXCEPT ![w] = l],
           kind' = kind, ckpt' \in Answers \cup {None}, pages' \in Table,
           cont' \in Row, cont'.owner = cont.owner, cont'.run = cont.run, cont'.live = cont.live,
           waits' \in Ends, waits'.lease = waits.lease \/ waits'.lease = Alive,
           fresh' \subseteq Slots, calm' = calm,
           OnWalk(l)'
    PROVE  WalkInv'
<1>1. cont' # None
  BY FirstPage
<1>2. inv' \in [Slots -> Local]
  BY TypeIs DEF WalkInv
<1>3. TypeOK'
  <2>1. kind' \in Kinds /\ calm' \in BOOLEAN
    BY TypeIs DEF WalkInv
  <2> QED
    BY <2>1, <1>2 DEF TypeOK, Verdicts, Local, PageRow, Table, Answers, Ends
<1>4. Exclusive' /\ \A v \in Slots : OnWalk(inv[v])'
  BY <1>1, WorkKeeps DEF Alive
<1> QED
  BY <1>3, <1>4 DEF WalkInv

LEMMA EndsRenewed == WalkInv => Renewed \in Ends /\ Renewed.lease = Alive
BY TypeIs DEF WalkInv, Renewed, Ends, Alive

\* A local step that changes nothing but the invocation's place.
LEMMA GoKeeps ==
    ASSUME WalkInv, NEW w \in Slots, inv[w].pc \in Working, NEW pc \in Working, Goto(w, pc),
           UNCHANGED <<kind, rows, calm>>, fresh' \subseteq Slots,
           waits' = waits \/ waits' = Renewed,
           OnPage([inv[w] EXCEPT !.pc = pc], Here(w)), pc \notin {"finish", "clear"}
    PROVE  WalkInv'
<1>1. inv[w] \in Local /\ inv[w].run \in Runs /\ inv[w].page \in Page
  BY WorkerOwns
<1>0. PICK l \in Local : l = [inv[w] EXCEPT !.pc = pc]
  BY <1>1 DEF Local, Working
<1>2. l.pc = pc /\ l.run = inv[w].run /\ l.page = inv[w].page
  BY <1>0, <1>1 DEF Local
<1>3. inv' = [inv EXCEPT ![w] = l]
  BY <1>0 DEF Goto
<1>4. OnPage(l, Here(w))
  BY <1>0
<1>5. OnWalk(l)'
  <2>1. OnWalk(inv[w])
    BY DEF WalkInv
  <2>2. OnPage(l, pages[l.run][l.page])
    BY <1>2, <1>4 DEF Here
  <2>3. kind' = kind /\ pages' = pages
    BY DEF rows
  <2>4. OnPage(l, pages[l.run][l.page])'
    BY <2>2, <2>3 DEF OnPage, Done, Schedule
  <2>5. \A p \in Page : p < l.page => Done(pages[l.run][p])'
    BY <2>1, <2>3, <1>2 DEF OnWalk, Done, Schedule
  <2> QED
    BY <1>1, <1>2, <2>1, <2>3, <2>4, <2>5 DEF OnWalk, Working
<1>6. waits' \in Ends /\ (waits'.lease = waits.lease \/ waits'.lease = Alive)
  BY EndsRenewed, TypeIs DEF WalkInv
<1>7. /\ kind' = kind /\ ckpt' \in Answers \cup {None} /\ pages' \in Table
      /\ cont' = cont /\ calm' = calm
  BY TypeIs DEF WalkInv, rows
<1> QED
  BY <1>2, <1>3, <1>5, <1>6, <1>7, WorkStep, WorkerOwns

\* A local step that also writes the worker's page.
LEMMA PageKeeps ==
    ASSUME WalkInv, NEW w \in Slots, inv[w].pc \in Working, NEW pc \in Working, Goto(w, pc),
           NEW q \in PageRow, SetPage(w, q),
           UNCHANGED <<kind, cont, ckpt, calm>>, fresh' \subseteq Slots,
           waits' = waits \/ waits' = Renewed,
           OnPage([inv[w] EXCEPT !.pc = pc], q), pc \notin {"finish", "clear"}
    PROVE  WalkInv'
<1>1. inv[w] \in Local /\ inv[w].run \in Runs /\ inv[w].page \in Page
  BY WorkerOwns
<1>0. PICK l \in Local : l = [inv[w] EXCEPT !.pc = pc]
  BY <1>1 DEF Local, Working
<1>2. l.pc = pc /\ l.run = inv[w].run /\ l.page = inv[w].page
  BY <1>0, <1>1 DEF Local
<1>3. inv' = [inv EXCEPT ![w] = l]
  BY <1>0 DEF Goto
<1>4. pages \in Table
  BY TypeIs DEF WalkInv
<1>5. /\ pages' \in Table
      /\ pages'[l.run][l.page] = q
      /\ \A p \in Page : p # l.page => pages'[l.run][p] = pages[l.run][p]
  BY <1>1, <1>2, <1>4 DEF SetPage, Table
<1>6. OnWalk(l)'
  <2>1. OnWalk(inv[w]) /\ kind' = kind
    BY DEF WalkInv
  <2>2. OnPage(l, q)
    BY <1>0
  <2>3. OnPage(l, pages[l.run][l.page])'
    BY <2>1, <2>2, <1>5 DEF OnPage, Done, Schedule
  <2>4. \A p \in Page : p < l.page => p # l.page
    BY FirstPage, <1>1, <1>2 DEF Page
  <2>5. \A p \in Page : p < l.page => Done(pages[l.run][p])'
    BY <2>1, <2>4, <1>2, <1>5 DEF OnWalk, Done, Schedule
  <2> QED
    BY <1>1, <1>2, <2>1, <2>3, <2>5 DEF OnWalk, Working
<1>7. waits' \in Ends /\ (waits'.lease = waits.lease \/ waits'.lease = Alive)
  BY EndsRenewed, TypeIs DEF WalkInv
<1>8. /\ kind' = kind /\ ckpt' \in Answers \cup {None} /\ cont' = cont /\ calm' = calm
  BY TypeIs DEF WalkInv
<1> QED
  BY <1>2, <1>3, <1>5, <1>6, <1>7, <1>8, WorkStep, WorkerOwns

\* What a worker knows of its page.
LEMMA Knows ==
    ASSUME WalkInv, NEW w \in Slots, inv[w].pc \in Working
    PROVE  /\ OnPage(inv[w], Here(w)) /\ inv[w] \in Local /\ Here(w) \in PageRow
           /\ fresh \subseteq Slots
BY WorkerOwns, TypeIs DEF WalkInv, OnWalk, Here

LEMMA LookKeeps ==
    ASSUME WalkInv, NEW w \in Slots, Look(w)
    PROVE  WalkInv'
<1>1. inv[w].pc \in Working
  BY DEF Look, At, Working, PCs
<1>2. PICK pc \in {"pay", "use"} : Goto(w, pc) /\ (Here(w).body = "none" <=> pc = "pay")
  BY DEF Look
<1>3. OnPage([inv[w] EXCEPT !.pc = pc], Here(w))
  BY <1>1, <1>2, Knows DEF OnPage, Local
<1> QED
  BY <1>1, <1>2, <1>3, Knows, GoKeeps DEF Look, Working, PCs

LEMMA ReserveKeeps ==
    ASSUME WalkInv, NEW w \in Slots, Reserve(w)
    PROVE  WalkInv'
<1>1. inv[w].pc \in Working
  BY DEF Reserve, At, Working, PCs
<1>2. CASE Fail(w)
  BY <1>2, FailKeeps
<1>3. CASE Goto(w, "ask") /\ waits' = Renewed /\ UNCHANGED <<kind, rows, fresh, calm>>
  <2>1. OnPage([inv[w] EXCEPT !.pc = "ask"], Here(w))
    BY <1>1, Knows DEF Reserve, At, OnPage, Local
  <2>2. "ask" \in Working
    BY DEF Working, PCs
  <2> QED
    BY <1>1, <1>3, <2>1, <2>2, Knows, GoKeeps
<1> QED
  BY <1>2, <1>3 DEF Reserve

LEMMA AnswerKeeps ==
    ASSUME WalkInv, NEW w \in Slots, Answer(w)
    PROVE  WalkInv'
<1>1. inv[w].pc \in Working
  BY DEF Answer, At, Working, PCs
<1>2. CASE Fail(w)
  BY <1>2, FailKeeps
<1>3. ASSUME NEW pc \in {"good", "bad", "mark"}, Goto(w, pc),
             UNCHANGED <<kind, rows, fresh, waits, calm>>
      PROVE  WalkInv'
  <2>1. OnPage([inv[w] EXCEPT !.pc = pc], Here(w))
    BY <1>1, Knows DEF Answer, At, OnPage, Local
  <2>2. pc \in Working /\ pc \notin {"finish", "clear"}
    BY DEF Working, PCs
  <2> QED
    BY <1>1, <1>3, <2>1, <2>2, Knows, GoKeeps
<1> QED
  BY <1>2, <1>3 DEF Answer

LEMMA MarkKeeps ==
    ASSUME WalkInv, NEW w \in Slots, MarkAmbiguous(w)
    PROVE  WalkInv'
<1>1. inv[w].pc \in Working
  BY DEF MarkAmbiguous, At, Working, PCs
<1>2. CASE Fail(w)
  BY <1>2, FailKeeps
<1>3. CASE /\ cont' = Fenced /\ Goto(w, "fail") /\ waits' = [waits EXCEPT !.amb = Alive]
           /\ UNCHANGED <<kind, ckpt, pages, fresh, calm>>
  <2>1. inv[w] \in Local /\ inv[w].run \in Runs /\ inv[w].page \in Page /\ cont \in Row
    BY <1>1, WorkerOwns
  <2>0. PICK l \in Local : l = [inv[w] EXCEPT !.pc = "fail"]
    BY <2>1 DEF Local, PCs
  <2>2. l.pc = "fail" /\ l.run = inv[w].run /\ l.page = inv[w].page
    BY <2>0, <2>1 DEF Local
  <2>3. inv' = [inv EXCEPT ![w] = l]
    BY <1>3, <2>0 DEF Goto
  <2>4. cont' \in Row /\ cont'.owner = cont.owner /\ cont'.run = cont.run /\ cont'.live = cont.live
    BY <1>3, <2>1 DEF Fenced, Row
  <2>5. waits' \in Ends /\ waits'.lease = waits.lease
    BY <1>3, TypeIs DEF WalkInv, Ends, Alive
  <2>6. OnWalk(l)'
    <3>1. OnWalk(inv[w]) /\ kind' = kind /\ pages' = pages
      BY <1>3 DEF WalkInv
    <3>2. \A p \in Page : p < l.page => Done(pages[l.run][p])'
      BY <1>1, <2>2, <3>1 DEF OnWalk, Done, Schedule
    <3> QED
      BY <2>1, <2>2, <3>1, <3>2 DEF OnWalk, OnPage
  <2>7. /\ kind' = kind /\ ckpt' \in Answers \cup {None} /\ pages' \in Table
        /\ calm' = calm /\ fresh' \subseteq Slots
    BY <1>3, TypeIs DEF WalkInv
  <2>8. "fail" \in Working
    BY DEF Working, PCs
  <2> QED
    BY <1>1, <2>2, <2>3, <2>4, <2>5, <2>6, <2>7, <2>8, WorkStep
<1> QED
  BY <1>2, <1>3 DEF MarkAmbiguous

LEMMA SealKeeps ==
    ASSUME WalkInv, NEW w \in Slots, Seal(w)
    PROVE  WalkInv'
<1>1. inv[w].pc \in Working /\ inv[w].pc \in {"good", "bad"}
  BY DEF Seal, At, Working, PCs
<1>2. CASE Fail(w)
  BY <1>2, FailKeeps
<1>3. Sealed(w) \in PageRow /\ Sealed(w).body # "none"
  BY <1>1, Knows DEF Sealed, NoPage, PageRow, Verdicts
<1>4. /\ OnPage([inv[w] EXCEPT !.pc = "use"], Sealed(w))
      /\ OnPage([inv[w] EXCEPT !.pc = "mark"], Sealed(w))
      /\ OnPage([inv[w] EXCEPT !.pc = "mark"], Here(w))
  BY <1>1, <1>3, Knows DEF OnPage, Local
<1>5. "use" \in Working /\ "mark" \in Working
  BY DEF Working, PCs
<1>6. CASE /\ \/ SetPage(w, Sealed(w)) /\ Goto(w, "use")
              \/ SetPage(w, Sealed(w)) /\ Goto(w, "mark")
           /\ waits' = Renewed /\ UNCHANGED <<kind, cont, ckpt, fresh, calm>>
  BY <1>1, <1>3, <1>4, <1>5, <1>6, Knows, PageKeeps
<1>7. CASE /\ UNCHANGED pages /\ Goto(w, "mark")
           /\ waits' = Renewed /\ UNCHANGED <<kind, cont, ckpt, fresh, calm>>
  BY <1>1, <1>4, <1>5, <1>7, Knows, GoKeeps DEF rows
<1> QED
  BY <1>2, <1>6, <1>7 DEF Seal

LEMMA UseKeeps ==
    ASSUME WalkInv, NEW w \in Slots, Use(w)
    PROVE  WalkInv'
<1>1. inv[w].pc \in Working /\ inv[w].pc = "use"
  BY DEF Use, At, Working, PCs
<1>2. CASE Fail(w)
  BY <1>2, FailKeeps
<1>3. ASSUME Here(w).body # "bad",
             NEW v \in {"accepted", "conflict"},
             inv' = [inv EXCEPT ![w] = [@ EXCEPT !.pc = "commit", !.verdict = v]],
             waits' = IF Asserts(w) THEN Renewed ELSE waits,
             UNCHANGED <<kind, rows, fresh, calm>>
      PROVE  WalkInv'
  <2>1. inv[w] \in Local /\ inv[w].run \in Runs /\ inv[w].page \in Page /\ Here(w) \in PageRow
    BY <1>1, WorkerOwns
  <2>0. PICK l \in Local : l = [inv[w] EXCEPT !.pc = "commit", !.verdict = v]
    BY <2>1 DEF Local, PCs, Verdicts
  <2>2. l.pc = "commit" /\ l.run = inv[w].run /\ l.page = inv[w].page /\ l.verdict = v
    BY <2>0, <2>1 DEF Local
  <2>3. inv' = [inv EXCEPT ![w] = l]
    BY <1>3, <2>0
  <2>4. Here(w).body = "good"
    BY <1>1, <1>3, <2>1, Knows DEF OnPage, PageRow
  <2>5. waits' \in Ends /\ (waits'.lease = waits.lease \/ waits'.lease = Alive)
    BY <1>3, EndsRenewed, TypeIs DEF WalkInv
  <2>6. OnWalk(l)'
    <3>1. OnWalk(inv[w]) /\ kind' = kind /\ pages' = pages
      BY <1>3 DEF WalkInv, rows
    <3>2. \A p \in Page : p < l.page => Done(pages[l.run][p])'
      BY <1>1, <2>2, <3>1 DEF OnWalk, Done, Schedule
    <3>3. pages[l.run][l.page].body = "good"
      BY <2>2, <2>4 DEF Here
    <3>4. OnPage(l, pages[l.run][l.page])'
      BY <3>1, <3>3, <2>2 DEF OnPage
    <3> QED
      BY <1>1, <2>1, <2>2, <3>1, <3>2, <3>4 DEF OnWalk
  <2>7. /\ kind' = kind /\ ckpt' \in Answers \cup {None} /\ pages' \in Table
        /\ cont' = cont /\ calm' = calm /\ fresh' \subseteq Slots
    BY <1>3, TypeIs DEF WalkInv, rows
  <2>8. "commit" \in Working
    BY DEF Working, PCs
  <2> QED
    BY <1>1, <2>2, <2>3, <2>5, <2>6, <2>7, <2>8, WorkStep, WorkerOwns
<1> QED
  BY <1>2, <1>3 DEF Use

LEMMA CommitKeeps ==
    ASSUME WalkInv, NEW w \in Slots, Commit(w)
    PROVE  WalkInv'
<1>1. inv[w].pc \in Working /\ inv[w].pc = "commit"
  BY DEF Commit, At, Working, PCs
<1>2. CASE Fail(w)
  BY <1>2, FailKeeps
<1>3. CASE /\ SetPage(w, [Here(w) EXCEPT !.committed = TRUE])
           /\ Goto(w, IF Schedule THEN "sealConflicts" ELSE "next")
           /\ waits' = (IF kind = "splits" THEN waits ELSE Renewed)
           /\ UNCHANGED <<kind, cont, ckpt, fresh, calm>>
  <2>1. inv[w] \in Local /\ Here(w) \in PageRow /\ Here(w).body = "good" /\ inv[w].verdict # "none"
        /\ fresh \subseteq Slots
    BY <1>1, Knows DEF OnPage
  <2>2. PICK q \in PageRow : q = [Here(w) EXCEPT !.committed = TRUE]
    BY <2>1 DEF PageRow
  <2>3. q.body = "good" /\ q.committed
    BY <2>1, <2>2 DEF PageRow
  <2>4. /\ OnPage([inv[w] EXCEPT !.pc = "sealConflicts"], q)
        /\ ~Schedule => OnPage([inv[w] EXCEPT !.pc = "next"], q)
    BY <2>1, <2>3 DEF OnPage, Local, Done
  <2>5. "next" \in Working /\ "sealConflicts" \in Working
    BY DEF Working, PCs
  <2>6. CASE Schedule
    BY <1>1, <1>3, <2>1, <2>2, <2>4, <2>5, <2>6, PageKeeps
  <2>7. CASE ~Schedule
    BY <1>1, <1>3, <2>1, <2>2, <2>4, <2>5, <2>7, PageKeeps
  <2> QED
    BY <2>6, <2>7
<1> QED
  BY <1>2, <1>3 DEF Commit

LEMMA SealConflictsKeeps ==
    ASSUME WalkInv, NEW w \in Slots, SealConflicts(w)
    PROVE  WalkInv'
<1>1. inv[w].pc \in Working /\ inv[w].pc = "sealConflicts" /\ "commitConflicts" \in Working
  BY DEF SealConflicts, At, Working, PCs
<1>2. /\ inv[w] \in Local /\ Here(w) \in PageRow /\ Here(w).body = "good" /\ Here(w).committed
      /\ inv[w].verdict # "none" /\ fresh \subseteq Slots
  BY <1>1, Knows DEF OnPage
<1>3. CASE Here(w).verdict # "none" /\ Goto(w, "commitConflicts") /\ UNCHANGED <<pages, waits>>
  <2>1. OnPage([inv[w] EXCEPT !.pc = "commitConflicts"], Here(w))
    BY <1>2, <1>3 DEF OnPage, Local
  <2> QED
    BY <1>1, <1>2, <1>3, <2>1, GoKeeps DEF SealConflicts, rows
<1>4. CASE /\ SetPage(w, [Here(w) EXCEPT !.verdict = inv[w].verdict])
           /\ Goto(w, "commitConflicts") /\ waits' = Renewed
  <2>1. PICK q \in PageRow : q = [Here(w) EXCEPT !.verdict = inv[w].verdict]
    BY <1>2 DEF PageRow, Local
  <2>2. q.body = "good" /\ q.committed /\ q.verdict # "none"
    BY <1>2, <2>1 DEF PageRow
  <2>3. OnPage([inv[w] EXCEPT !.pc = "commitConflicts"], q)
    BY <1>2, <2>2 DEF OnPage, Local
  <2> QED
    BY <1>1, <1>2, <1>4, <2>1, <2>3, PageKeeps DEF SealConflicts
<1> QED
  BY <1>3, <1>4 DEF SealConflicts

LEMMA CommitConflictsKeeps ==
    ASSUME WalkInv, NEW w \in Slots, CommitConflicts(w)
    PROVE  WalkInv'
<1>1. inv[w].pc \in Working /\ inv[w].pc = "commitConflicts" /\ "next" \in Working
  BY DEF CommitConflicts, At, Working, PCs
<1>2. /\ inv[w] \in Local /\ Here(w) \in PageRow /\ Here(w).body = "good" /\ Here(w).committed
      /\ Here(w).verdict # "none" /\ fresh \subseteq Slots
  BY <1>1, Knows DEF OnPage
<1>3. PICK q \in PageRow : q = [Here(w) EXCEPT !.noted = TRUE]
  BY <1>2 DEF PageRow
<1>4. q.body = "good" /\ q.committed /\ q.verdict # "none" /\ q.noted
  BY <1>2, <1>3 DEF PageRow
<1>5. OnPage([inv[w] EXCEPT !.pc = "next"], q)
  BY <1>2, <1>4 DEF OnPage, Local, Done
<1> QED
  BY <1>1, <1>2, <1>3, <1>5, PageKeeps DEF CommitConflicts

LEMMA NextPageKeeps ==
    ASSUME WalkInv, NEW w \in Slots, NextPage(w)
    PROVE  WalkInv'
<1>1. inv[w].pc \in Working /\ inv[w].pc = "next"
  BY DEF NextPage, At, Working, PCs
<1>2. /\ inv[w] \in Local /\ inv[w].run \in Runs /\ inv[w].page \in Page
      /\ NPages \in Nat /\ 1 \in Page
  BY <1>1, WorkerOwns, FirstPage
<1>3. /\ kind' = kind /\ pages' = pages /\ cont' = cont /\ waits' = waits /\ calm' = calm
      /\ ckpt' \in Answers \cup {None} /\ pages' \in Table /\ fresh' \subseteq Slots
      /\ waits' \in Ends
  BY TypeIs DEF NextPage, rows, WalkInv
<1>4. OnWalk(inv[w])
  BY DEF WalkInv
<1>5. \A p \in Page : p <= inv[w].page => Done(pages[inv[w].run][p])
  <2>1. Done(pages[inv[w].run][inv[w].page])
    BY <1>1, <1>4 DEF OnWalk, OnPage
  <2>2. \A p \in Page : p < inv[w].page => Done(pages[inv[w].run][p])
    BY <1>1, <1>4 DEF OnWalk
  <2>3. \A p \in Page : p <= inv[w].page => p < inv[w].page \/ p = inv[w].page
    BY <1>2 DEF Page
  <2> QED
    BY <2>1, <2>2, <2>3
<1>6. CASE inv[w].page < NPages /\ kind # "account"
  <2>0. inv[w].page + 1 \in Page
    BY <1>2, <1>6 DEF Page
  <2>1. PICK l \in Local :
          l = [inv[w] EXCEPT !.pc = "look", !.page = inv[w].page + 1, !.verdict = "none"]
    BY <1>2, <2>0 DEF Local, PCs, Verdicts
  <2>2. l.pc = "look" /\ l.run = inv[w].run /\ l.page = inv[w].page + 1
    BY <1>2, <2>1 DEF Local
  <2>3. inv' = [inv EXCEPT ![w] = l]
    BY <1>6, <2>1 DEF NextPage
  <2>4. \A p \in Page : p < l.page => Done(pages[l.run][p])'
    <3>1. \A p \in Page : p < l.page => p <= inv[w].page
      BY <1>2, <2>2 DEF Page
    <3> QED
      BY <3>1, <1>3, <1>5, <2>2 DEF Done, Schedule
  <2>5. OnWalk(l)'
    BY <1>2, <1>3, <1>6, <2>2, <2>4 DEF OnWalk, OnPage
  <2>6. "look" \in Working
    BY DEF Working, PCs
  <2> QED
    BY <1>1, <1>3, <2>2, <2>3, <2>5, <2>6, WorkStep, WorkerOwns
<1>7. CASE ~(inv[w].page < NPages /\ kind # "account")
  <2>0. PICK pc \in {"clear", "finish"} : Goto(w, pc)
    BY <1>7 DEF NextPage
  <2>1. PICK l \in Local : l = [inv[w] EXCEPT !.pc = pc]
    BY <1>2 DEF Local, PCs
  <2>2. l.pc = pc /\ l.run = inv[w].run /\ l.page = inv[w].page
    BY <1>2, <2>1 DEF Local
  <2>3. inv' = [inv EXCEPT ![w] = l]
    BY <2>0, <2>1 DEF Goto
  <2>4. \A p \in Page : p <= l.page => Done(pages[l.run][p])'
    BY <1>3, <1>5, <2>2 DEF Done, Schedule
  <2>5. (\A p \in Page : p < l.page => Done(pages[l.run][p])') /\ Done(pages[l.run][l.page])'
    BY <2>4, <1>2, <2>2 DEF Page
  <2>6. kind # "account" => l.page = NPages
    BY <1>2, <1>7, <2>2 DEF Page
  <2>7. OnPage(l, pages[l.run][l.page])'
    BY <2>2, <2>5 DEF OnPage
  <2>8. kind = "account" => l.page = 1
    BY <1>4, <2>2 DEF OnWalk
  <2>9. OnWalk(l)'
    BY <1>2, <1>3, <2>2, <2>5, <2>6, <2>7, <2>8 DEF OnWalk
  <2>10. pc \in Working
    BY DEF Working, PCs
  <2> QED
    BY <1>1, <1>3, <2>2, <2>3, <2>9, <2>10, WorkStep, WorkerOwns
<1> QED
  BY <1>6, <1>7

LEMMA PutCheckpointKeeps ==
    ASSUME WalkInv, NEW w \in Slots, PutCheckpoint(w)
    PROVE  WalkInv'
<1>1. inv[w].pc \in Working /\ inv[w].pc = "finish" /\ "clear" \in Working
  BY DEF PutCheckpoint, At, Working, PCs
<1>2. CASE Fail(w)
  BY <1>2, FailKeeps
<1>3. CASE /\ ckpt' = [says |-> Verdict(inv[w].run), due |-> FALSE] /\ fresh' = {}
           /\ Goto(w, "clear") /\ UNCHANGED <<kind, cont, pages, waits, calm>>
  <2>1. inv[w] \in Local
    BY <1>1, WorkerOwns
  <2>2. PICK l \in Local : l = [inv[w] EXCEPT !.pc = "clear"]
    BY <1>1, <2>1 DEF Local, Working
  <2>3. l.pc = "clear" /\ l.run = inv[w].run /\ l.page = inv[w].page
    BY <2>1, <2>2 DEF Local
  <2>4. inv' = [inv EXCEPT ![w] = l]
    BY <1>3, <2>2 DEF Goto
  <2>5. ckpt' \in Answers \cup {None}
    BY <1>3 DEF Answers, Verdict
  <2>6. kind' = kind /\ pages' = pages /\ pages' \in Table /\ waits' \in Ends
    BY <1>3, TypeIs DEF WalkInv
  <2>7. OnWalk(l)'
    <3>1. OnWalk(inv[w])
      BY DEF WalkInv
    <3>2. Done(pages[l.run][l.page])' /\ \A p \in Page : p < l.page => Done(pages[l.run][p])'
      BY <1>1, <2>3, <2>6, <3>1 DEF OnWalk, OnPage, Done, Schedule
    <3>3. OnPage(l, pages[l.run][l.page])'
      BY <3>2, <2>3 DEF OnPage
    <3> QED
      BY <1>1, <2>3, <2>6, <3>1, <3>2, <3>3 DEF OnWalk
  <2> QED
    BY <1>1, <1>3, <2>3, <2>4, <2>5, <2>6, <2>7, WorkStep, WorkerOwns
<1> QED
  BY <1>2, <1>3 DEF PutCheckpoint

LEMMA ClearKeeps ==
    ASSUME WalkInv, NEW w \in Slots, Clear(w)
    PROVE  WalkInv'
<1>1. cont \in Row \cup {None}
  BY TypeIs DEF WalkInv
<1>2. CASE Mine(w)
  BY <1>2, ReturnKeeps DEF Clear
<1>3. CASE ~Mine(w)
  BY <1>1, <1>3, ReturnKeeps DEF Clear
<1> QED
  BY <1>2, <1>3

-----------------------------------------------------------------------------
(* Election.                                                               *)

\* A step before the claim disturbs nobody.
LEMMA EarlyKeeps ==
    ASSUME WalkInv, NEW w \in Slots, inv[w].pc \notin Working,
           NEW l \in Local, l.pc \in {"idle", "due", "early", "claim"}, l.page = inv[w].page,
           inv' = [inv EXCEPT ![w] = l], UNCHANGED <<kind, rows, waits, calm>>, fresh' \subseteq Slots
    PROVE  WalkInv'
<1>0. inv \in [Slots -> Local] /\ inv[w] \in Local
  BY TypeIs DEF WalkInv
<1>1. inv' \in [Slots -> Local] /\ inv'[w] = l /\ \A v \in Slots : v # w => inv'[v] = inv[v]
  BY <1>0
<1>2. UNCHANGED <<kind, cont, ckpt, pages, waits, calm>>
  BY DEF rows
<1>3. TypeOK'
  BY <1>1, <1>2, TypeIs DEF WalkInv, TypeOK, Verdicts, Local, PageRow, Table, Answers, Ends
<1>4. Exclusive'
  BY <1>0, <1>1, <1>2 DEF WalkInv, Exclusive, Mine, Working
<1>5. inv[w].page = 1
  BY <1>0 DEF WalkInv, OnWalk, Working, Local, PCs
<1>6. ASSUME NEW v \in Slots PROVE OnWalk(inv[v])'
  <2>1. CASE v = w
    BY <2>1, <1>1, <1>2, <1>5 DEF OnWalk, Working
  <2>2. CASE v # w
    BY <2>2, <1>1, <1>2 DEF WalkInv, OnWalk, OnPage, Done, Schedule
  <2> QED
    BY <2>1, <2>2
<1> QED
  BY <1>3, <1>4, <1>6 DEF WalkInv

LEMMA ReadCheckpointKeeps ==
    ASSUME WalkInv, NEW w \in Slots, ReadCheckpoint(w)
    PROVE  WalkInv'
<1>1. inv[w].pc \notin Working /\ inv[w] \in Local /\ fresh' \subseteq Slots
  BY TypeIs DEF ReadCheckpoint, At, Working, WalkInv
<1>2. PICK pc \in {"due", "early"} : Goto(w, pc)
  BY DEF ReadCheckpoint
<1>3. PICK l \in Local : l = [inv[w] EXCEPT !.pc = pc]
  BY <1>1 DEF Local, PCs
<1>4. l.pc = pc /\ l.page = inv[w].page /\ inv' = [inv EXCEPT ![w] = l]
  BY <1>1, <1>2, <1>3 DEF Local, Goto
<1> QED
  BY <1>1, <1>4, EarlyKeeps DEF ReadCheckpoint

LEMMA ReadContinuationKeeps ==
    ASSUME WalkInv, NEW w \in Slots, ReadContinuation(w)
    PROVE  WalkInv'
<1>1. /\ inv[w].pc \notin Working /\ inv[w] \in Local /\ fresh \subseteq Slots
      /\ cont \in Row \cup {None}
  BY TypeIs DEF ReadContinuation, At, Working, WalkInv
<1>2. CASE Fail(w)
  BY <1>2, FailKeeps
<1>3. CASE /\ inv' = [inv EXCEPT ![w] = [@ EXCEPT
                        !.pc = "claim", !.run = IF cont = None THEN 0 ELSE cont.run]]
           /\ UNCHANGED <<kind, rows, fresh, waits, calm>>
  <2>1. (IF cont = None THEN 0 ELSE cont.run) \in Runs \cup {0}
    BY <1>1 DEF Row
  <2>2. PICK l \in Local :
          l = [inv[w] EXCEPT !.pc = "claim", !.run = IF cont = None THEN 0 ELSE cont.run]
    BY <1>1, <2>1 DEF Local, PCs
  <2>3. l.pc = "claim" /\ l.page = inv[w].page /\ inv' = [inv EXCEPT ![w] = l]
    BY <1>1, <1>3, <2>2 DEF Local
  <2> QED
    BY <1>1, <1>3, <2>3, EarlyKeeps
<1> QED
  BY <1>2, <1>3 DEF ReadContinuation

\* Run ids do not run out.
LEMMA FreshIsFresh ==
    ASSUME TypeOK
    PROVE  FreshRun \in Runs /\ (\A v \in Slots : inv[v].run # FreshRun)
<1>1. inv \in [Slots -> Local] /\ cont \in Row \cup {None}
  BY TypeIs
<1>2. \E r \in Runs : /\ \A v \in Slots : inv[v].run # r
                      /\ cont = None \/ cont.run # r
  <2> DEFINE used == [v \in Slots |-> inv[v].run]
  <2>1. used \in [Slots -> Runs \cup {0}]
    BY <1>1 DEF Local
  <2>2. \A v \in Slots : used[v] = inv[v].run
    OBVIOUS
  <2> HIDE DEF used
  <2>3. \A r \in Runs : \E new \in Runs : new # r /\ \A v \in Slots : used[v] # new
    BY <2>1, CollectorAssumption
  <2>4. CASE cont = None
    <3>1. \E new \in Runs : \A v \in Slots : used[v] # new
      <4>1. Runs # {}
        BY CollectorAssumption
      <4> QED
        BY <4>1, <2>3
    <3> QED
      BY <3>1, <2>2, <2>4
  <2>5. CASE cont # None
    <3>1. cont.run \in Runs
      BY <1>1, <2>5 DEF Row
    <3>2. PICK new \in Runs : new # cont.run /\ \A v \in Slots : used[v] # new
      BY <3>1, <2>3
    <3> QED
      BY <3>2, <2>2
  <2> QED
    BY <2>4, <2>5
<1> QED
  BY <1>2 DEF FreshRun

\* Nobody works while a claim is free to be made, and the claim makes a worker.
LEMMA ClaimKeeps ==
    ASSUME WalkInv, NEW w \in Slots, Claim(w)
    PROVE  WalkInv'
<1>1. /\ inv[w].pc = "claim" /\ inv[w].pc \notin Working /\ inv \in [Slots -> Local]
      /\ inv[w] \in Local /\ cont \in Row \cup {None} /\ pages \in Table /\ waits \in Ends
      /\ inv[w].page = 1
  BY TypeIs DEF Claim, At, Working, WalkInv, OnWalk
<1>2. CASE Fail(w)
  BY <1>2, FailKeeps
<1>3. ASSUME ~Held(w), NEW new \in BOOLEAN, inv[w].run = 0 => new,
             NEW r, r = IF new THEN FreshRun ELSE inv[w].run,
             cont' = [run |-> r, owner |-> w, live |-> TRUE, amb |-> "none",
                      aged |-> ~new /\ cont # None /\ cont.run = r /\ cont.aged],
             pages' = IF new THEN [pages EXCEPT ![r] = [p \in Page |-> NoPage]] ELSE pages,
             inv' = [inv EXCEPT ![w] = [@ EXCEPT !.pc = "look", !.run = r]],
             waits' = [waits EXCEPT !.lease = Alive],
             UNCHANGED <<kind, ckpt, fresh, calm>>
      PROVE  WalkInv'
  <2>1. r \in Runs
    BY <1>1, <1>3, FreshIsFresh DEF Local, WalkInv
  <2>2. \A v \in Slots : inv[v].pc \notin Working
    <3>1. SUFFICES ASSUME NEW v \in Slots, inv[v].pc \in Working PROVE FALSE
      OBVIOUS
    <3>2. cont # None /\ cont.owner = v /\ cont.live
      BY <3>1, WorkerOwns
    <3>3. v # w
      BY <1>1, <3>1
    <3> QED
      BY <3>2, <3>3, <1>3 DEF Held
  <2>3. PICK l \in Local : l = [inv[w] EXCEPT !.pc = "look", !.run = r]
    BY <1>1, <2>1 DEF Local, PCs
  <2>4. l.pc = "look" /\ l.run = r /\ l.page = 1
    BY <1>1, <2>3 DEF Local
  <2>5. inv' \in [Slots -> Local] /\ inv'[w] = l /\ \A v \in Slots : v # w => inv'[v] = inv[v]
    BY <1>1, <1>3, <2>3
  <2>6. pages' \in Table
    <3>1. NoPage \in PageRow
      BY DEF NoPage, PageRow, Verdicts
    <3> QED
      BY <3>1, <1>1, <1>3 DEF Table
  <2>7. cont' \in Row /\ cont' # None /\ cont'.run = r /\ cont'.owner = w /\ cont'.live
    <3>1. (~new /\ cont # None /\ cont.run = r /\ cont.aged) \in BOOLEAN
      BY <1>1
    <3>2. cont' \in Row
      BY <1>3, <2>1, <3>1 DEF Row
    <3> QED
      BY <3>2, <1>3, FirstPage
  <2>8. waits' \in Ends /\ w \in waits'.lease
    BY <1>1, <1>3 DEF Ends, Alive
  <2>9. TypeOK'
    <3>1. kind' \in Kinds /\ ckpt' \in Answers \cup {None} /\ fresh' \subseteq Slots /\ calm' \in BOOLEAN
      BY <1>3, TypeIs DEF WalkInv
    <3> QED
      BY <3>1, <2>5, <2>6, <2>7, <2>8 DEF TypeOK, Verdicts, Local, PageRow, Table, Answers, Ends
  <2>10. Exclusive'
    <3>1. "look" \in Working
      BY DEF Working, PCs
    <3> QED
      BY <3>1, <2>2, <2>4, <2>5, <2>7, <2>8, <1>1 DEF Exclusive, Mine
  <2>11. ASSUME NEW v \in Slots PROVE OnWalk(inv[v])'
    <3>1. CASE v = w
      <4>1. \A p \in Page : ~(p < 1)
        BY FirstPage DEF Page
      <4> QED
        BY <3>1, <4>1, <2>1, <2>4, <2>5 DEF OnWalk, OnPage
    <3>2. CASE v # w
      <4>1. inv'[v] = inv[v] /\ kind' = kind /\ inv[v].pc \notin Working
        BY <3>2, <2>2, <2>5, <1>3
      <4> QED
        BY <4>1 DEF WalkInv, OnWalk, Working, PCs
    <3> QED
      BY <3>1, <3>2
  <2> QED
    BY <2>9, <2>10, <2>11 DEF WalkInv
<1>4. CASE ~Held(w)
  <2>1. PICK old \in Abandons(w) :
          LET new == inv[w].run = 0 \/ old
              r   == IF new THEN FreshRun ELSE inv[w].run IN
          /\ cont' = [run |-> r, owner |-> w, live |-> TRUE, amb |-> "none",
                      aged |-> ~new /\ cont # None /\ cont.run = r /\ cont.aged]
          /\ pages' = IF new THEN [pages EXCEPT ![r] = [p \in Page |-> NoPage]] ELSE pages
          /\ inv' = [inv EXCEPT ![w] = [@ EXCEPT !.pc = "look", !.run = r]]
          /\ waits' = [waits EXCEPT !.lease = Alive]
          /\ UNCHANGED <<kind, ckpt, fresh, calm>>
    BY <1>4 DEF Claim
  <2>2. PICK new \in BOOLEAN : new = (inv[w].run = 0 \/ old)
    OBVIOUS
  <2>3. PICK r : r = IF new THEN FreshRun ELSE inv[w].run
    OBVIOUS
  <2> QED
    BY <1>3, <1>4, <2>1, <2>2, <2>3
<1> QED
  BY <1>2, <1>4 DEF Claim

-----------------------------------------------------------------------------
(* Time: only the lease's end could unseat an owner, and it waits.         *)
LEMMA TimeKeeps ==
    ASSUME WalkInv, Time \/ CalmDown \/ UNCHANGED vars
    PROVE  WalkInv'
<1>0. /\ cont \in Row \cup {None} /\ ckpt \in Answers \cup {None} /\ calm \in BOOLEAN
  BY TypeIs DEF WalkInv
<1>1. UNCHANGED <<kind, pages, inv, fresh, waits>>
  BY DEF Time, LeaseLapses, AmbiguityLapses, RunAges, CheckpointDue, CalmDown, vars, rows
<1>2. cont' \in Row \cup {None} /\ ckpt' \in Answers \cup {None} /\ calm' \in BOOLEAN
  BY <1>0 DEF Time, LeaseLapses, AmbiguityLapses, RunAges, CheckpointDue, CalmDown, vars, rows,
     Row, Answers
<1>3. TypeOK'
  BY <1>1, <1>2, TypeIs DEF WalkInv, TypeOK, Verdicts, Local, PageRow, Table, Answers, Ends
<1>4. \/ cont' = cont
      \/ /\ cont # None /\ cont' # None /\ cont'.run = cont.run /\ cont'.owner = cont.owner
         /\ cont'.live = cont.live \/ waits.lease = {}
  <2>1. CASE LeaseLapses
    BY <2>1, <1>0, <1>2, FirstPage DEF LeaseLapses, Row
  <2>2. CASE AmbiguityLapses
    BY <2>2, <1>0, FirstPage DEF AmbiguityLapses, Row
  <2>3. CASE RunAges
    BY <2>3, <1>0, FirstPage DEF RunAges, Row
  <2>4. CASE CheckpointDue \/ CalmDown \/ UNCHANGED vars
    BY <2>4 DEF CheckpointDue, CalmDown, vars, rows
  <2> QED
    BY <2>1, <2>2, <2>3, <2>4 DEF Time
<1>5. Exclusive'
  BY <1>1, <1>4 DEF WalkInv, Exclusive, Mine
<1>6. \A w \in Slots : OnWalk(inv[w])'
  BY <1>1 DEF WalkInv, OnWalk, OnPage, Done, Schedule
<1> QED
  BY <1>3, <1>5, <1>6 DEF WalkInv

-----------------------------------------------------------------------------
(* The theorem.                                                            *)
LEMMA InitHolds == Init => WalkInv
<1> SUFFICES ASSUME Init PROVE WalkInv
  OBVIOUS
<1>1. Idle \in Local
  BY FirstPage, SMT DEF Idle, Local, PCs, Verdicts
<1>2. NoPage \in PageRow
  BY DEF NoPage, PageRow, Verdicts
<1>3. TypeOK
  BY <1>1, <1>2, TypeIs DEF Init, Table, Ends
<1>4. Exclusive /\ \A w \in Slots : OnWalk(inv[w])
  BY DEF Init, Idle, Exclusive, OnWalk, Working
<1> QED
  BY <1>3, <1>4 DEF WalkInv

LEMMA StepKeeps == WalkInv /\ [Next]_vars => WalkInv'
<1> SUFFICES ASSUME WalkInv, [Next]_vars PROVE WalkInv'
  OBVIOUS
<1>1. ASSUME NEW w \in Slots, Step(w) PROVE WalkInv'
  BY <1>1, ReadCheckpointKeeps, ReadContinuationKeeps, ClaimKeeps, LookKeeps, ReserveKeeps,
     AnswerKeeps, MarkKeeps, FailKeeps, SealKeeps, UseKeeps, CommitKeeps, SealConflictsKeeps,
     CommitConflictsKeeps, NextPageKeeps, PutCheckpointKeeps, ClearKeeps DEF Step, GiveUp
<1>2. ASSUME NEW w \in Slots, Crash(w) PROVE WalkInv'
  BY <1>2, FailKeeps DEF Crash
<1>3. CASE Time \/ CalmDown \/ UNCHANGED vars
  BY <1>3, TimeKeeps
<1> QED
  BY <1>1, <1>2, <1>3 DEF Next

LEMMA InvImplies == WalkInv => WalksArePaidOnce
<1> SUFFICES ASSUME WalkInv PROVE WalksArePaidOnce
  OBVIOUS
<1>1. PaidOnce
  <2>1. \A w \in Slots : At(w, "ask") => inv[w].pc \in Working
    BY DEF At, Working, PCs
  <2>2. \A w \in Slots : At(w, "ask") => Here(w).body = "none"
    BY <2>1, Knows DEF At, OnPage
  <2> QED
    BY <2>1, <2>2, OneWorker DEF PaidOnce, WalkInv
<1>2. WalkIsWhole
  <2>1. SUFFICES ASSUME NEW w \in Slots, At(w, "finish") \/ At(w, "clear"), NEW p \in Walked
                 PROVE  Done(pages[inv[w].run][p])
    BY DEF WalkIsWhole, Done
  <2>2. inv[w].pc \in Working /\ inv[w].pc \in {"finish", "clear"}
    BY <2>1 DEF At, Working, PCs
  <2>3. /\ Done(pages[inv[w].run][inv[w].page])
        /\ \A q \in Page : q < inv[w].page => Done(pages[inv[w].run][q])
        /\ kind = "account" => inv[w].page = 1
        /\ kind # "account" => inv[w].page = NPages
    BY <2>2 DEF WalkInv, OnWalk, OnPage
  <2>4. p = inv[w].page \/ (p \in Page /\ p < inv[w].page)
    BY <2>1, <2>3, FirstPage DEF Walked, Page
  <2> QED
    BY <2>3, <2>4
<1> QED
  BY <1>1, <1>2 DEF WalkInv, WalksArePaidOnce

\* For any number of overlapping invocations, of runs and of pages: nobody pays for a page
\* while another does, or for one that its run has sealed, and a walk that ends has every page
\* committed, with what became of a schedule's events on record.
THEOREM CollectorCorrect == Spec => []WalksArePaidOnce
<1>1. Spec => []WalkInv
  BY InitHolds, StepKeeps, PTL DEF Spec
<1> QED
  BY <1>1, InvImplies, PTL
=============================================================================
