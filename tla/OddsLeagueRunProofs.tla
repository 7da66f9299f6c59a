-------------------------- MODULE OddsLeagueRunProofs --------------------------
(***************************************************************************)
(* What OddsLeagueRun guarantees for any number of invocations and pages.  *)
(* The first part assumes nothing of StallPastLease: its results rest on   *)
(* the conditional writes alone.  The second part is what the lease gives  *)
(* when no invocation outlives one, as deployed: a Lambda's timeout is the *)
(* length of a lease.  One invocation holds the league at a time, so one   *)
(* paid request is out at a time, and never for a page that is sealed; and *)
(* a recorded ambiguity stops everyone who begins after it.                *)
(***************************************************************************)
EXTENDS OddsLeagueRun, TLAPS

-----------------------------------------------------------------------------
(* The inductive invariant.  CheckpointSound is about the run an invocation  *)
(* names when it puts the checkpoint.  So one must know which run that is,   *)
(* and that the pages behind the invocation's position in that run are       *)
(* committed, whoever else worked on the same run.                           *)

\* Where an invocation need not know its run, and where it walks the pages.
Runless == {"idle", "due", "claim", "done"}
Before == Runless \cup {"readRun", "decide", "restartClear", "reclaimClear"}
Walked == {"missing", "checkpoint", "clear"}
After == Walked \cup {"fail", "failClear"}

\* What the locals l of one invocation may rely on, given the pages pg.
Sound(l, pg) ==
  /\ l.pc \notin Runless => l.my \in Invocations
  /\ l.pc \notin Before \cup After =>
       \A p \in Page : p < l.page => pg[l.my][p].committed
  /\ l.pc = "advance" => pg[l.my][l.page].committed
  /\ l.pc \in Walked => \A p \in Page : pg[l.my][p].committed

RowTypes ==
  /\ cont \in Continuation
  /\ runs \in [Invocations -> RunRow]
  /\ pages \in [Invocations -> [Page -> PageRow]]
  /\ ckpt \in MaybeInv

TimeTypes ==
  /\ aged \in SUBSET Invocations
  /\ holders \in SUBSET Invocations
  /\ met \in [Invocations -> SUBSET Invocations]
  /\ abandoned \in SUBSET Invocations
  /\ fence \in [open: BOOLEAN, readers: SUBSET Invocations]

LocalInv ==
  /\ inv \in [Invocations -> Locals]
  /\ \A w \in Invocations : Sound(inv[w], pages)

IInv == RowTypes /\ TimeTypes /\ LocalInv /\ CheckpointSound

\* A page keeps its content and its markers.
Grows(old, new) ==
  /\ old.content # "none" => new.content = old.content
  /\ old.intent => new.intent
  /\ old.committed => new.committed
PagesGrow == \A r \in Invocations, p \in Page : Grows(pages[r][p], pages'[r][p])
PagesStep == PagesGrow /\ pages' \in [Invocations -> [Page -> PageRow]]

-----------------------------------------------------------------------------
(* Types *)

LEMMA Types ==
  /\ NoCont \in Continuation /\ NoPage \in PageRow /\ NoRun \in RunRow
  /\ 1 \in Page /\ NoInv \in MaybeInv /\ Fresh \in Locals
<1>1. NoCont \in Continuation
  BY DEF NoCont, Continuation, MaybeInv
<1>2. NoPage \in PageRow
  BY DEF NoPage, PageRow
<1>3. NoRun \in RunRow
  BY DEF NoRun, RunRow
<1>4. 1 \in Page
  BY NPagesAssumption DEF Page
<1>5. "none" \in Why /\ NoInv \in MaybeInv /\ "idle" \in PC
  BY DEF Why, MaybeInv, PC
<1>6. Fresh \in Locals
  BY <1>1, <1>2, <1>4, <1>5 DEF Fresh, Locals
<1> QED
  BY <1>1, <1>2, <1>3, <1>4, <1>5, <1>6

\* Returning: every local is forgotten.
LEMMA FreshSound ==
  ASSUME NEW pc \in {"idle", "due", "done"}, NEW pg
  PROVE  [Fresh EXCEPT !.pc = pc] \in Locals /\ Sound([Fresh EXCEPT !.pc = pc], pg)
<1>1. pc \in PC
  BY DEF PC
<1>2. [Fresh EXCEPT !.pc = pc] \in Locals
  BY <1>1, Types DEF Locals
<1>3. [Fresh EXCEPT !.pc = pc].pc = pc
  BY DEF Fresh
<1> QED
  BY <1>2, <1>3 DEF Sound, Runless, Before, After, Walked

-----------------------------------------------------------------------------
(* Pages *)

LEMMA PageWritten ==
  ASSUME pages \in [Invocations -> [Page -> PageRow]],
         NEW r \in Invocations, NEW p \in Page, NEW row \in PageRow,
         Grows(pages[r][p], row), pages' = [pages EXCEPT ![r][p] = row]
  PROVE  /\ pages' \in [Invocations -> [Page -> PageRow]]
         /\ PagesGrow
         /\ pages'[r][p] = row
<1>1. pages' \in [Invocations -> [Page -> PageRow]] /\ pages'[r][p] = row
  OBVIOUS
<1>2. ASSUME NEW q \in Invocations, NEW x \in Page
      PROVE  pages'[q][x] = pages[q][x] \/ (q = r /\ x = p)
  OBVIOUS
<1>3. ASSUME NEW q \in Invocations, NEW x \in Page PROVE Grows(pages[q][x], pages'[q][x])
  BY <1>1, <1>2 DEF Grows
<1> QED
  BY <1>1, <1>3 DEF PagesGrow

\* Every write to a PAGE row either fills it for the first time or adds a marker.
LEMMA PagesOnlyGrow ==
  ASSUME RowTypes, LocalInv, [Next]_vars
  PROVE  PagesStep
<1>1. ASSUME pages' = pages PROVE PagesStep
  BY <1>1 DEF PagesStep, PagesGrow, Grows, RowTypes
<1>2. ASSUME NEW w \in Invocations, Seal(w) PROVE PagesStep
  <2>1. inv[w].my \in Invocations /\ inv[w].page \in Page
    BY <1>2 DEF Seal, At, LocalInv, Sound, Runless, Locals
  <2>2. CASE pages' = pages
    BY <2>2, <1>1
  <2>3. ASSUME NEW c \in Content, Sealable(w, c),
               pages' = [pages EXCEPT ![inv[w].my][inv[w].page].content = c]
        PROVE  PagesStep
    <3> DEFINE old == pages[inv[w].my][inv[w].page]
               new == [old EXCEPT !.content = c]
    <3>1. old \in PageRow
      BY <2>1 DEF RowTypes
    <3>2. new \in PageRow /\ Grows(old, new)
      BY <3>1, <2>3 DEF PageRow, Grows, Sealable, PageAt
    <3>3. pages' = [pages EXCEPT ![inv[w].my][inv[w].page] = new]
      BY <2>3
    <3> QED
      BY <2>1, <3>2, <3>3, PageWritten DEF RowTypes, PagesStep
  <2> QED
    BY <1>2, <2>2, <2>3 DEF Seal
<1>3. ASSUME NEW w \in Invocations, MarkEvidenceIntent(w) PROVE PagesStep
  <2>1. inv[w].my \in Invocations /\ inv[w].page \in Page
    BY <1>3 DEF MarkEvidenceIntent, At, LocalInv, Sound, Runless, Locals
  <2>2. CASE pages' = pages
    BY <2>2, <1>1
  <2>3. CASE pages' = [pages EXCEPT ![inv[w].my][inv[w].page].intent = TRUE]
    <3> DEFINE old == pages[inv[w].my][inv[w].page]
               new == [old EXCEPT !.intent = TRUE]
    <3>1. old \in PageRow
      BY <2>1 DEF RowTypes
    <3>2. new \in PageRow /\ Grows(old, new)
      BY <3>1 DEF PageRow, Grows
    <3>3. pages' = [pages EXCEPT ![inv[w].my][inv[w].page] = new]
      BY <2>3
    <3> QED
      BY <2>1, <3>2, <3>3, PageWritten DEF RowTypes, PagesStep
  <2> QED
    BY <1>3, <2>2, <2>3 DEF MarkEvidenceIntent
<1>4. ASSUME NEW w \in Invocations, CommitPage(w) PROVE PagesStep
  <2>1. inv[w].my \in Invocations /\ inv[w].page \in Page
    BY <1>4 DEF CommitPage, At, LocalInv, Sound, Runless, Locals
  <2>2. CASE pages' = pages
    BY <2>2, <1>1
  <2>3. CASE pages' = [pages EXCEPT ![inv[w].my][inv[w].page].committed = TRUE]
    <3> DEFINE old == pages[inv[w].my][inv[w].page]
               new == [old EXCEPT !.committed = TRUE]
    <3>1. old \in PageRow
      BY <2>1 DEF RowTypes
    <3>2. new \in PageRow /\ Grows(old, new)
      BY <3>1 DEF PageRow, Grows
    <3>3. pages' = [pages EXCEPT ![inv[w].my][inv[w].page] = new]
      BY <2>3
    <3> QED
      BY <2>1, <3>2, <3>3, PageWritten DEF RowTypes, PagesStep
  <2> QED
    BY <1>4, <2>2, <2>3 DEF CommitPage
<1>5. ASSUME NEW w \in Invocations, Recover(w) PROVE pages' = pages
  BY <1>5 DEF Recover, Begin, ReadDurableRun, RestartTerminalCursor, RestartClear,
     ReclaimAmbiguity, ReclaimClear, FencedByAmbiguity, rows
<1>6. ASSUME NEW w \in Invocations, Elect(w) PROVE pages' = pages
  BY <1>6 DEF Elect, Admitted, TurnedAway, QuotaReserveSkip, Claim, PutRunRunning,
     PutContinuation, rows
<1>7. ASSUME NEW w \in Invocations, Fetch(w), ~Seal(w) PROVE pages' = pages
  BY <1>7 DEF Fetch, LeaseCheck, LeaseLost, Renew, GetPage, QuotaRefused, Dispatch,
     ProviderAnswers, ProviderFails, SettleRequest, RecordAmbiguity, rows
<1>8. ASSUME NEW w \in Invocations, Heartbeat(w) PROVE pages' = pages
  BY <1>8 DEF Heartbeat, LeaseCheck, LeaseLost, Renew, rows
<1>9. ASSUME NEW w \in Invocations, Commit(w), ~MarkEvidenceIntent(w), ~CommitPage(w)
      PROVE  pages' = pages
  BY <1>9 DEF Commit, BeginCommit, LeaseCheck, LeaseLost, Advance, rows
<1>10. ASSUME NEW w \in Invocations, Finish(w) PROVE pages' = pages
  BY <1>10 DEF Finish, PutRunCompleted, PutCheckpoint, ClearContinuation,
     PutRunFailed, ClearAfterQuota
<1>11. ASSUME NEW w \in Invocations, Fault(w) PROVE pages' = pages
  BY <1>11 DEF Fault, StoreThrows, Crash, rows
<1>12. ASSUME Time \/ AllEnded \/ UNCHANGED vars PROVE pages' = pages
  BY <1>12 DEF Time, LeaseRunsOut, AmbiguityLapses, RunAges, AllEnded, vars, rows
<1> QED
  BY <1>1, <1>2, <1>3, <1>4, <1>5, <1>6, <1>7, <1>8, <1>9, <1>10, <1>11, <1>12
     DEF Next, Step

-----------------------------------------------------------------------------
(* Locals *)

\* What an invocation relies on is not disturbed by the writes of others.
LEMMA SoundStays ==
  ASSUME NEW l \in Locals, Sound(l, pages), PagesGrow,
         pages \in [Invocations -> [Page -> PageRow]]
  PROVE  Sound(l, pages')
<1>1. l.page \in Page
  BY DEF Locals
<1>2. CASE l.pc \in Runless
  BY <1>2 DEF Sound, Runless, Before, After, Walked
<1>3. CASE l.pc \notin Runless
  <2>1. l.my \in Invocations
    BY <1>3 DEF Sound
  <2>2. \A p \in Page : pages[l.my][p].committed => pages'[l.my][p].committed
    BY <2>1 DEF PagesGrow, Grows
  <2> QED
    BY <1>1, <2>1, <2>2 DEF Sound
<1> QED
  BY <1>2, <1>3

LEMMA Moved ==
  ASSUME LocalInv, RowTypes, PagesGrow, NEW w \in Invocations, NEW l \in Locals,
         inv' = [inv EXCEPT ![w] = l], Sound(l, pages')
  PROVE  LocalInv'
<1>1. inv' \in [Invocations -> Locals]
  BY DEF LocalInv
<1>2. ASSUME NEW v \in Invocations PROVE Sound(inv'[v], pages')
  <2>1. CASE v = w
    BY <2>1 DEF LocalInv
  <2>2. CASE v # w
    BY <2>2, SoundStays DEF LocalInv, RowTypes
  <2> QED
    BY <2>1, <2>2
<1> QED
  BY <1>1, <1>2 DEF LocalInv

\* An invocation that walks on keeps its run and its page.
LEMMA Onward ==
  ASSUME NEW k \in Locals, NEW l \in Locals, Sound(k, pages), RowTypes, PagesGrow,
         k.pc \notin Before \cup After, l.my = k.my, l.page = k.page,
         l.pc \notin Before \cup Walked,
         l.pc = "advance" => pages'[l.my][l.page].committed
  PROVE  Sound(l, pages')
<1>1. k.my \in Invocations
  BY DEF Sound, Before
<1>2. \A p \in Page : p < k.page => pages[k.my][p].committed
  BY DEF Sound
<1>3. \A p \in Page : pages[k.my][p].committed => pages'[k.my][p].committed
  BY <1>1 DEF PagesGrow, Grows
<1> QED
  BY <1>1, <1>2, <1>3 DEF Sound, Before

\* From anywhere in a run to the catch block.
LEMMA Caught ==
  ASSUME NEW k \in Locals, NEW l \in Locals, NEW pg, Sound(k, pages),
         k.pc \notin Runless, l.my = k.my, l.pc \in {"fail", "failClear"}
  PROVE  Sound(l, pg)
BY DEF Sound, Runless, After, Walked

LEMMA ReturnKeeps ==
  ASSUME LocalInv, RowTypes, PagesGrow, NEW w \in Invocations, Return(w)
  PROVE  LocalInv'
BY FreshSound, Moved DEF Return

LEMMA FailKeeps ==
  ASSUME LocalInv, RowTypes, PagesGrow, NEW w \in Invocations, NEW why \in Why,
         inv[w].pc \notin Runless, Fail(w, why)
  PROVE  LocalInv'
<1> DEFINE l == [inv[w] EXCEPT !.pc = "fail", !.why = why]
<1>1. inv[w] \in Locals /\ "fail" \in PC
  BY DEF LocalInv, PC
<1>2. l \in Locals /\ l.pc = "fail" /\ l.my = inv[w].my
  BY <1>1 DEF Locals
<1>3. inv' = [inv EXCEPT ![w] = l]
  BY <1>1 DEF Fail, LocalInv
<1>4. Sound(l, pages')
  BY <1>1, <1>2, Caught DEF LocalInv
<1> QED
  BY <1>2, <1>3, <1>4, Moved

LEMMA SettleKeeps ==
  ASSUME LocalInv, RowTypes, PagesGrow, NEW w \in Invocations, NEW why \in Why,
         inv[w].pc \notin Before \cup After, Settle(w, why)
  PROVE  LocalInv'
<1> DEFINE l == [inv[w] EXCEPT !.pc = "settle", !.why = why]
<1>1. inv[w] \in Locals /\ "settle" \in PC
  BY DEF LocalInv, PC
<1>2. l \in Locals /\ l.pc = "settle" /\ l.my = inv[w].my /\ l.page = inv[w].page
  BY <1>1 DEF Locals
<1>3. inv' = [inv EXCEPT ![w] = l]
  BY <1>1 DEF Settle, LocalInv
<1>4. Sound(l, pages')
  BY <1>1, <1>2, Onward DEF LocalInv, Before, Runless, Walked
<1> QED
  BY <1>2, <1>3, <1>4, Moved

LEMMA GotoKeeps ==
  ASSUME LocalInv, RowTypes, PagesGrow, NEW w \in Invocations, NEW pc \in PC,
         inv[w].pc \notin Before \cup After,
         pc \notin Before \cup Walked \cup {"advance"}, Goto(w, pc)
  PROVE  LocalInv'
<1> DEFINE l == [inv[w] EXCEPT !.pc = pc]
<1>1. inv[w] \in Locals
  BY DEF LocalInv
<1>2. l \in Locals /\ l.pc = pc /\ l.my = inv[w].my /\ l.page = inv[w].page
  BY <1>1 DEF Locals
<1>3. inv' = [inv EXCEPT ![w] = l]
  BY <1>1 DEF Goto, LocalInv
<1>4. Sound(l, pages')
  BY <1>1, <1>2, Onward DEF LocalInv
<1> QED
  BY <1>2, <1>3, <1>4, Moved

\* Before a run is claimed, a step only needs the run it is about to be known.
LEMMA EarlyKeeps ==
  ASSUME LocalInv, RowTypes, PagesGrow, NEW w \in Invocations, NEW l \in Locals,
         inv' = [inv EXCEPT ![w] = l], l.pc \in Before,
         l.pc \notin Runless => l.my \in Invocations
  PROVE  LocalInv'
<1>1. Sound(l, pages')
  BY DEF Sound, Before, Runless, After, Walked
<1> QED
  BY <1>1, Moved

-----------------------------------------------------------------------------
(* LocalInv, action by action.  PagesGrow is known of every step. *)

LEMMA RecoverKeeps ==
  ASSUME LocalInv, RowTypes, PagesGrow, NEW w \in Invocations, Recover(w)
  PROVE  LocalInv'
<1>0. inv[w] \in Locals /\ Sound(inv[w], pages) /\ cont \in Continuation
  BY DEF LocalInv, RowTypes
<1>1. CASE Begin(w)
  <2> DEFINE l == [inv[w] EXCEPT !.cont = cont, !.my = cont.run,
                     !.pc = IF cont.run = NoInv THEN "due" ELSE "readRun"]
  <2>1. l \in Locals
    BY <1>0 DEF Locals, Continuation, PC
  <2>2. l.pc \in Before /\ (l.pc \notin Runless => l.my \in Invocations)
    BY <1>0 DEF Locals, Continuation, MaybeInv, Before, Runless
  <2>3. inv' = [inv EXCEPT ![w] = l]
    BY <1>1, <1>0 DEF Begin, LocalInv
  <2> QED
    BY <2>1, <2>2, <2>3, EarlyKeeps
<1>2. CASE ReadDurableRun(w)
  <2> DEFINE run == runs[inv[w].my]
             promote == /\ run.status # "none" /\ ~run.evid
                        /\ \E p \in Page : pages[inv[w].my][p].intent
             evid == run.evid \/ promote
             restart == /\ run.status = "failed" /\ run.cursor
                        /\ ~run.evid /\ ~promote
                        /\ NPages > 1 /\ pages[inv[w].my][1].content # "none"
             l == [inv[w] EXCEPT !.pc = "decide", !.evid = evid, !.restart = restart]
  <2>1. inv[w].my \in Invocations
    BY <1>0, <1>2 DEF ReadDurableRun, At, Sound, Runless
  <2>2. run.evid \in BOOLEAN
    BY <2>1 DEF RowTypes, RunRow
  <2>3. evid \in BOOLEAN /\ restart \in BOOLEAN /\ "decide" \in PC
    BY <2>2 DEF PC
  <2> HIDE DEF evid, restart
  <2>4. l \in Locals /\ l.pc = "decide" /\ l.my = inv[w].my
    BY <1>0, <2>3 DEF Locals
  <2>5. inv' = [inv EXCEPT ![w] = l]
    BY <1>0, <1>2 DEF ReadDurableRun, LocalInv, Row, evid, restart
  <2> QED
    BY <2>1, <2>4, <2>5, EarlyKeeps DEF Before
<1>3. ASSUME NEW pc \in {"restartClear", "reclaimClear"}, Goto(w, pc), At(w, "decide")
      PROVE  LocalInv'
  <2> DEFINE l == [inv[w] EXCEPT !.pc = pc]
  <2>1. inv[w].my \in Invocations
    BY <1>0, <1>3 DEF At, Sound, Runless
  <2>2. l \in Locals /\ l.pc = pc /\ l.my = inv[w].my
    BY <1>0 DEF Locals, PC
  <2>3. inv' = [inv EXCEPT ![w] = l]
    BY <1>0, <1>3 DEF Goto, LocalInv
  <2> QED
    BY <2>1, <2>2, <2>3, EarlyKeeps DEF Before
<1>4. CASE RestartTerminalCursor(w)
  BY <1>4, <1>3, ReturnKeeps DEF RestartTerminalCursor
<1>5. CASE RestartClear(w)
  <2>1. CASE inv' = [inv EXCEPT ![w] = [Fresh EXCEPT !.pc = "due"]]
    BY <2>1, FreshSound, Moved
  <2> QED
    BY <1>5, <2>1, ReturnKeeps DEF RestartClear
<1>6. CASE ReclaimAmbiguity(w)
  BY <1>6, <1>3, ReturnKeeps DEF ReclaimAmbiguity
<1>7. CASE ReclaimClear(w)
  BY <1>7, ReturnKeeps DEF ReclaimClear
<1>8. CASE FencedByAmbiguity(w)
  BY <1>8, ReturnKeeps DEF FencedByAmbiguity
<1> QED
  BY <1>1, <1>2, <1>4, <1>5, <1>6, <1>7, <1>8 DEF Recover

LEMMA ElectKeeps ==
  ASSUME LocalInv, RowTypes, PagesGrow, NEW w \in Invocations, Elect(w)
  PROVE  LocalInv'
<1>0. inv[w] \in Locals /\ Sound(inv[w], pages)
  BY DEF LocalInv
<1>1. CASE Admitted(w)
  <2> DEFINE l == [inv[w] EXCEPT !.ckptMoved = FALSE, !.pc = "claim"]
  <2>1. l \in Locals /\ l.pc = "claim"
    BY <1>0 DEF Locals, PC
  <2>2. inv' = [inv EXCEPT ![w] = l]
    BY <1>0, <1>1 DEF Admitted, LocalInv
  <2> QED
    BY <2>1, <2>2, EarlyKeeps DEF Before, Runless
<1>2. CASE TurnedAway(w)
  BY <1>2, ReturnKeeps DEF TurnedAway
<1>3. CASE QuotaReserveSkip(w)
  BY <1>3, ReturnKeeps DEF QuotaReserveSkip
<1>4. CASE Claim(w)
  <2> DEFINE c == ClaimValue(w)
             l == [Fresh EXCEPT !.pc = "putRun", !.my = c.run, !.evid = c.evid,
                                !.ckptMoved = inv[w].ckptMoved]
  <2>1. c \in Continuation /\ c.run \in Invocations
    BY <1>0, Types DEF ClaimValue, Continuation, Locals, MaybeInv, NoCont
  <2>2. c.run \in MaybeInv /\ c.evid \in BOOLEAN /\ inv[w].ckptMoved \in BOOLEAN
    BY <1>0, <2>1 DEF Continuation, Locals
  <2> HIDE DEF c
  <2>3. l \in Locals /\ l.pc = "putRun" /\ l.my = c.run /\ l.page = 1
    BY <2>2, Types DEF Locals, PC, Fresh
  <2>4. Sound(l, pages')
    BY <2>1, <2>3, NPagesAssumption DEF Sound, Walked, Page
  <2>5. CASE inv' = [inv EXCEPT ![w] = l]
    BY <2>3, <2>4, <2>5, Moved
  <2> QED
    BY <1>4, <2>5, ReturnKeeps DEF Claim, c
<1>5. CASE PutRunRunning(w)
  <2>1. PICK evid : /\ evid \in {inv[w].evid, runs[inv[w].my].evid}
                    /\ inv' = [inv EXCEPT ![w] = [@ EXCEPT !.pc = "putCont", !.evid = evid]]
    BY <1>5 DEF PutRunRunning, Row
  <2> DEFINE l == [inv[w] EXCEPT !.pc = "putCont", !.evid = evid]
  <2>2. inv[w].my \in Invocations
    BY <1>0, <1>5 DEF PutRunRunning, At, Sound, Runless
  <2>3. evid \in BOOLEAN
    BY <1>0, <2>1, <2>2 DEF Locals, RowTypes, RunRow
  <2>4. l \in Locals /\ l.pc = "putCont" /\ l.my = inv[w].my /\ l.page = inv[w].page
    BY <1>0, <2>3 DEF Locals, PC
  <2>5. inv' = [inv EXCEPT ![w] = l]
    BY <1>0, <2>1 DEF LocalInv
  <2>6. Sound(l, pages')
    BY <1>0, <1>5, <2>4, Onward DEF PutRunRunning, At, Before, Runless, After, Walked
  <2> QED
    BY <2>4, <2>5, <2>6, Moved
<1>6. CASE PutContinuation(w)
  <2>1. inv[w].pc \notin Before \cup After /\ "lease" \in PC
        /\ "lease" \notin Before \cup Walked \cup {"advance"}
    BY <1>6 DEF PutContinuation, At, Before, Runless, After, Walked, PC
  <2> QED
    BY <1>6, <2>1, GotoKeeps, ReturnKeeps DEF PutContinuation
<1> QED
  BY <1>1, <1>2, <1>3, <1>4, <1>5, <1>6 DEF Elect

LEMMA LeaseCheckKeeps ==
  ASSUME LocalInv, RowTypes, PagesGrow, NEW w \in Invocations,
         NEW pc \in PC \ (Before \cup After),
         NEW next \in PC \ (Before \cup Walked \cup {"advance"}), LeaseCheck(w, pc, next)
  PROVE  LocalInv'
<1> DEFINE l == [inv[w] EXCEPT !.pc = next, !.cont = cont]
<1>0. inv[w] \in Locals /\ Sound(inv[w], pages) /\ cont \in Continuation
  BY DEF LocalInv, RowTypes
<1>1. l \in Locals /\ l.pc = next /\ l.my = inv[w].my /\ l.page = inv[w].page
  BY <1>0 DEF Locals
<1>2. inv' = [inv EXCEPT ![w] = l]
  BY <1>0 DEF LeaseCheck, LocalInv
<1>3. Sound(l, pages')
  BY <1>0, <1>1, Onward DEF LeaseCheck, At
<1> QED
  BY <1>1, <1>2, <1>3, Moved

LEMMA LeaseLostKeeps ==
  ASSUME LocalInv, RowTypes, PagesGrow, NEW w \in Invocations,
         NEW pc \in PC \ (Before \cup After), LeaseLost(w, pc)
  PROVE  LocalInv'
<1>1. inv[w].pc \notin Before \cup After /\ inv[w].pc \notin Runless
  BY DEF LeaseLost, At, Before
<1>2. "recovering" \in Why /\ "ambiguous" \in Why
  BY DEF Why
<1> QED
  BY <1>1, <1>2, FailKeeps, SettleKeeps DEF LeaseLost

LEMMA RenewKeeps ==
  ASSUME LocalInv, RowTypes, PagesGrow, NEW w \in Invocations,
         NEW pc \in PC \ (Before \cup After),
         NEW next \in PC \ (Before \cup Walked \cup {"advance"}), Renew(w, pc, next)
  PROVE  LocalInv'
<1> DEFINE l == [inv[w] EXCEPT !.pc = next, !.cont = NoCont]
<1>0. inv[w] \in Locals /\ Sound(inv[w], pages)
  BY DEF LocalInv
<1>1. l \in Locals /\ l.pc = next /\ l.my = inv[w].my /\ l.page = inv[w].page
  BY <1>0, Types DEF Locals
<1>2. Sound(l, pages')
  <2>1. inv[w].pc \notin Before \cup After
    BY DEF Renew, At
  <2> QED
    BY <1>0, <1>1, <2>1, Onward
<1>3. CASE inv' = [inv EXCEPT ![w] = [@ EXCEPT !.pc = next, !.cont = NoCont]]
  <2>1. inv' = [inv EXCEPT ![w] = l]
    BY <1>0, <1>3 DEF LocalInv
  <2> QED
    BY <1>1, <1>2, <2>1, Moved
<1>4. inv[w].pc \notin Before \cup After /\ inv[w].pc \notin Runless
      /\ "other" \in Why /\ "ambiguous" \in Why
  BY DEF Renew, At, Before, Why
<1> QED
  BY <1>3, <1>4, FailKeeps, SettleKeeps DEF Renew

\* The states the page loop's own steps start from and lead to.
LEMMA PageLoopStates ==
  LET Inside == {"lease", "renew", "getPage", "dispatch", "fetching", "beating",
                 "postCheck", "postRenew", "seal", "settle", "recordAmb",
                 "commitCheck", "mark", "commitPage"}
  IN /\ Inside \subseteq PC \ (Before \cup After)
     /\ Inside \subseteq PC \ (Before \cup Walked \cup {"advance"})
     /\ Inside \cap Runless = {}
BY DEF PC, Before, Runless, After, Walked

\* Both lead on to a page's commit unless the page is committed already.
LEMMA AfterSealSound ==
  ASSUME NEW k \in Locals, NEW page \in PageRow, NEW l \in Locals,
         Sound(k, pages), RowTypes, PagesGrow, k.pc \notin Before \cup After,
         l.my = k.my, l.page = k.page, page = pages[k.my][k.page],
         l.pc \in {AfterSeal(page), AfterGet(page)}
  PROVE  Sound(l, pages')
<1>1. k.my \in Invocations /\ k.page \in Page
  BY DEF Sound, Before, Locals
<1>2. l.pc \in {"advance", "commitCheck", "dispatch"} /\ (l.pc = "advance" => page.committed)
  BY DEF AfterSeal, AfterGet
<1>3. l.pc = "advance" => pages'[l.my][l.page].committed
  BY <1>1, <1>2 DEF PagesGrow, Grows
<1> QED
  BY <1>2, <1>3, Onward DEF Before, Runless, Walked

LEMMA FetchKeeps ==
  ASSUME LocalInv, RowTypes, PagesGrow, NEW w \in Invocations, Fetch(w) \/ Heartbeat(w)
  PROVE  LocalInv'
<1>0. inv[w] \in Locals /\ Sound(inv[w], pages)
  BY DEF LocalInv
<1>1. ASSUME LeaseCheck(w, "lease", "renew") \/ LeaseCheck(w, "postCheck", "postRenew")
               \/ LeaseCheck(w, "fetching", "beating")
      PROVE  LocalInv'
  BY <1>1, PageLoopStates, LeaseCheckKeeps
<1>2. ASSUME LeaseLost(w, "lease") \/ LeaseLost(w, "postCheck") \/ LeaseLost(w, "fetching")
      PROVE  LocalInv'
  BY <1>2, PageLoopStates, LeaseLostKeeps
<1>3. ASSUME Renew(w, "renew", "getPage") \/ Renew(w, "postRenew", "seal")
               \/ Renew(w, "beating", "fetching")
      PROVE  LocalInv'
  BY <1>3, PageLoopStates, RenewKeeps
<1>4. CASE GetPage(w)
  <2> DEFINE l == [inv[w] EXCEPT !.sealed = PageAt(w), !.pc = AfterGet(PageAt(w))]
  <2>1. inv[w].pc \notin Before \cup After /\ inv[w].my \in Invocations
        /\ inv[w].page \in Page
    BY <1>0, <1>4, PageLoopStates DEF GetPage, At, Sound, Locals
  <2>2. PageAt(w) \in PageRow
    BY <2>1 DEF PageAt, RowTypes
  <2>3. AfterGet(PageAt(w)) \in PC
    BY DEF AfterGet, AfterSeal, PC
  <2>4. /\ l \in Locals /\ l.my = inv[w].my /\ l.page = inv[w].page
        /\ l.pc = AfterGet(PageAt(w))
    BY <1>0, <2>2, <2>3 DEF Locals
  <2>5. Sound(l, pages')
    BY <1>0, <2>1, <2>2, <2>4, AfterSealSound DEF PageAt
  <2>6. inv' = [inv EXCEPT ![w] = l]
    BY <1>0, <1>4 DEF GetPage, LocalInv
  <2> QED
    BY <2>4, <2>5, <2>6, Moved
<1>5. CASE QuotaRefused(w)
  BY <1>5, PageLoopStates, FailKeeps DEF QuotaRefused, At, Why
<1>6. CASE Dispatch(w)
  BY <1>6, PageLoopStates, GotoKeeps DEF Dispatch, At
<1>7. CASE ProviderAnswers(w)
  BY <1>7, PageLoopStates, GotoKeeps DEF ProviderAnswers, At
<1>8. CASE ProviderFails(w)
  BY <1>8, PageLoopStates, SettleKeeps DEF ProviderFails, At, Why
<1>9. CASE Seal(w)
  <2>1. inv[w].pc \notin Before \cup After /\ "ambiguous" \in Why
    BY <1>9, PageLoopStates DEF Seal, At, Why
  <2>2. ASSUME NEW c \in Content,
               inv' = [inv EXCEPT ![w] = [@ EXCEPT !.pc = "commitCheck",
                                                   !.sealed = [NoPage EXCEPT !.content = c]]]
        PROVE  LocalInv'
    <3> DEFINE l == [inv[w] EXCEPT !.pc = "commitCheck",
                                   !.sealed = [NoPage EXCEPT !.content = c]]
    <3>1. [NoPage EXCEPT !.content = c] \in PageRow
      BY Types DEF PageRow
    <3>2. /\ l \in Locals /\ l.my = inv[w].my /\ l.page = inv[w].page
          /\ l.pc = "commitCheck"
      BY <1>0, <3>1, PageLoopStates DEF Locals
    <3>3. Sound(l, pages')
      BY <1>0, <2>1, <3>2, PageLoopStates, Onward
    <3>4. inv' = [inv EXCEPT ![w] = l]
      BY <1>0, <2>2 DEF LocalInv
    <3> QED
      BY <3>2, <3>3, <3>4, Moved
  <2> QED
    BY <1>9, <2>1, <2>2, SettleKeeps DEF Seal
<1>10. CASE SettleRequest(w)
  <2>1. inv[w].pc \notin Before \cup After /\ inv[w].pc \notin Runless
        /\ inv[w].my \in Invocations /\ inv[w].page \in Page /\ inv[w].why \in Why
    BY <1>0, <1>10, PageLoopStates DEF SettleRequest, At, Sound, Locals
  <2>2. CASE inv' = [inv EXCEPT ![w] = [@ EXCEPT !.sealed = PageAt(w), !.why = "none",
                                                 !.pc = AfterSeal(PageAt(w))]]
    <3> DEFINE l == [inv[w] EXCEPT !.sealed = PageAt(w), !.why = "none",
                                   !.pc = AfterSeal(PageAt(w))]
    <3>1. PageAt(w) \in PageRow
      BY <2>1 DEF PageAt, RowTypes
    <3>2. AfterSeal(PageAt(w)) \in PC /\ "none" \in Why
      BY DEF AfterSeal, PC, Why
    <3>3. /\ l \in Locals /\ l.my = inv[w].my /\ l.page = inv[w].page
          /\ l.pc = AfterSeal(PageAt(w))
      BY <1>0, <3>1, <3>2 DEF Locals
    <3>4. Sound(l, pages')
      BY <1>0, <2>1, <3>1, <3>3, AfterSealSound DEF PageAt
    <3>5. inv' = [inv EXCEPT ![w] = l]
      BY <1>0, <2>2 DEF LocalInv
    <3> QED
      BY <3>3, <3>4, <3>5, Moved
  <2> QED
    BY <1>10, <2>1, <2>2, PageLoopStates, GotoKeeps, FailKeeps DEF SettleRequest
<1>11. CASE RecordAmbiguity(w)
  BY <1>11, PageLoopStates, FailKeeps DEF RecordAmbiguity, At, Why
<1> QED
  BY <1>1, <1>2, <1>3, <1>4, <1>5, <1>6, <1>7, <1>8, <1>9, <1>10, <1>11
     DEF Fetch, Heartbeat

LEMMA CommitKeeps ==
  ASSUME LocalInv, RowTypes, PagesGrow, NEW w \in Invocations, Commit(w)
  PROVE  LocalInv'
<1>0. inv[w] \in Locals /\ Sound(inv[w], pages)
  BY DEF LocalInv
<1>1. CASE BeginCommit(w)
  BY <1>1, PageLoopStates, LeaseCheckKeeps DEF BeginCommit
<1>2. CASE LeaseLost(w, "commitCheck")
  BY <1>2, PageLoopStates, LeaseLostKeeps
<1>3. CASE MarkEvidenceIntent(w)
  <2>1. inv[w].pc \notin Before \cup After /\ inv[w].pc \notin Runless /\ "other" \in Why
    BY <1>3, PageLoopStates DEF MarkEvidenceIntent, At, Why
  <2>2. CASE inv' = [inv EXCEPT ![w] = [@ EXCEPT !.pc = "commitPage", !.evid = TRUE]]
    <3> DEFINE l == [inv[w] EXCEPT !.pc = "commitPage", !.evid = TRUE]
    <3>1. /\ l \in Locals /\ l.my = inv[w].my /\ l.page = inv[w].page
          /\ l.pc = "commitPage"
      BY <1>0, PageLoopStates DEF Locals
    <3>2. Sound(l, pages')
      BY <1>0, <2>1, <3>1, PageLoopStates, Onward
    <3>3. inv' = [inv EXCEPT ![w] = l]
      BY <1>0, <2>2 DEF LocalInv
    <3> QED
      BY <3>1, <3>2, <3>3, Moved
  <2> QED
    BY <1>3, <2>1, <2>2, FailKeeps DEF MarkEvidenceIntent
<1>4. CASE CommitPage(w)
  <2>1. /\ inv[w].pc \notin Before \cup After /\ inv[w].pc \notin Runless
        /\ "other" \in Why /\ inv[w].my \in Invocations /\ inv[w].page \in Page
    BY <1>0, <1>4, PageLoopStates DEF CommitPage, At, Why, Sound, Locals
  <2>2. ASSUME NEW evidence \in BOOLEAN,
               inv' = [inv EXCEPT ![w] = [@ EXCEPT !.pc = "advance", !.evid = inv[w].evid \/ evidence]],
               pages' = [pages EXCEPT ![inv[w].my][inv[w].page].committed = TRUE]
        PROVE  LocalInv'
    <3> DEFINE evid == inv[w].evid \/ evidence
               l == [inv[w] EXCEPT !.pc = "advance", !.evid = evid]
    <3>1. evid \in BOOLEAN /\ "advance" \in PC
      BY DEF PC
    <3>2. inv' = [inv EXCEPT ![w] = l]
      BY <1>0, <2>2 DEF LocalInv
    <3> HIDE DEF evid
    <3>3. /\ l \in Locals /\ l.my = inv[w].my /\ l.page = inv[w].page
          /\ l.pc = "advance"
      BY <1>0, <3>1 DEF Locals
    <3>4. pages'[inv[w].my][inv[w].page].committed
      BY <2>1, <2>2 DEF RowTypes, PageRow
    <3>5. Sound(l, pages')
      BY <1>0, <2>1, <3>3, <3>4, Onward DEF Before, Runless, Walked
    <3> QED
      BY <3>2, <3>3, <3>5, Moved
  <2> QED
    BY <1>4, <2>1, <2>2, FailKeeps DEF CommitPage
<1>5. CASE Advance(w)
  <2>1. /\ inv[w].pc = "advance" /\ inv[w].pc \notin Runless /\ "other" \in Why
        /\ inv[w].my \in Invocations /\ inv[w].page \in Page
    BY <1>0, <1>5 DEF Advance, At, Sound, Runless, Why, Locals
  <2>2. \A p \in Page : p <= inv[w].page => pages'[inv[w].my][p].committed
    <3>1. \A p \in Page : p < inv[w].page => pages[inv[w].my][p].committed
      BY <1>0, <2>1 DEF Sound, Before, Runless, After, Walked
    <3>2. pages[inv[w].my][inv[w].page].committed
      BY <1>0, <2>1 DEF Sound
    <3>3. \A p \in Page : pages[inv[w].my][p].committed => pages'[inv[w].my][p].committed
      BY <2>1 DEF PagesGrow, Grows
    <3> QED
      BY <2>1, <3>1, <3>2, <3>3, NPagesAssumption DEF Page
  <2>3. CASE PatchAllowed(w)
    <3> DEFINE pc == IF LastPage(w) THEN "missing" ELSE "lease"
               page == IF LastPage(w) THEN inv[w].page ELSE inv[w].page + 1
               l == [inv[w] EXCEPT !.cont = NoCont, !.sealed = NoPage,
                                   !.pc = pc, !.page = page]
    <3>1. inv' = [inv EXCEPT ![w] = l]
      BY <1>0, <1>5, <2>3 DEF Advance, LocalInv
    <3>2. pc \in PC /\ page \in Page
      BY <2>1, NPagesAssumption DEF PC, Page, LastPage
    <3>3. pc = "missing" => inv[w].page = NPages
      BY DEF LastPage
    <3>4. pc = "lease" => page = inv[w].page + 1
      OBVIOUS
    <3>5. pc \in {"missing", "lease"}
      OBVIOUS
    <3> HIDE DEF pc, page
    <3>6. l \in Locals /\ l.pc = pc /\ l.my = inv[w].my /\ l.page = page
      BY <1>0, <3>2, Types DEF Locals
    <3>7. CASE pc = "missing"
      <4>1. \A p \in Page : pages'[inv[w].my][p].committed
        BY <2>2, <3>3, <3>7, NPagesAssumption DEF Page
      <4>2. Sound(l, pages')
        BY <2>1, <3>6, <3>7, <4>1 DEF Sound, After, Walked
      <4> QED
        BY <3>1, <3>6, <4>2, Moved
    <3>8. CASE pc = "lease"
      <4>1. \A p \in Page : p < page => pages'[inv[w].my][p].committed
        BY <2>1, <2>2, <3>4, <3>8, NPagesAssumption DEF Page
      <4>2. Sound(l, pages')
        BY <2>1, <3>6, <3>8, <4>1 DEF Sound, Walked
      <4> QED
        BY <3>1, <3>6, <4>2, Moved
    <3> QED
      BY <3>5, <3>7, <3>8
  <2> QED
    BY <1>5, <2>1, <2>3, FailKeeps DEF Advance
<1> QED
  BY <1>1, <1>2, <1>3, <1>4, <1>5 DEF Commit

LEMMA FinishKeeps ==
  ASSUME LocalInv, RowTypes, PagesGrow, NEW w \in Invocations, Finish(w)
  PROVE  LocalInv'
<1>0. inv[w] \in Locals /\ Sound(inv[w], pages) /\ "other" \in Why
  BY DEF LocalInv, Why
<1>1. CASE PutRunCompleted(w)
  <2>1. PICK gaps \in BOOLEAN :
          inv' = [inv EXCEPT ![w] = [@ EXCEPT !.pc = "checkpoint", !.evid = inv[w].evid \/ gaps]]
    BY <1>1 DEF PutRunCompleted
  <2> DEFINE evid == inv[w].evid \/ gaps
             l == [inv[w] EXCEPT !.pc = "checkpoint", !.evid = evid]
  <2>2. evid \in BOOLEAN /\ "checkpoint" \in PC
    BY DEF PC
  <2>3. inv' = [inv EXCEPT ![w] = l]
    BY <1>0, <2>1 DEF LocalInv
  <2> HIDE DEF evid
  <2>4. l \in Locals /\ l.pc = "checkpoint" /\ l.my = inv[w].my
    BY <1>0, <2>2 DEF Locals
  <2>5. inv[w].my \in Invocations /\ \A p \in Page : pages'[inv[w].my][p].committed
    BY <1>0, <1>1 DEF PutRunCompleted, At, Sound, Runless, Walked, PagesGrow, Grows
  <2>6. Sound(l, pages')
    BY <2>4, <2>5 DEF Sound, After, Walked
  <2> QED
    BY <2>3, <2>4, <2>6, Moved
<1>2. CASE PutCheckpoint(w)
  <2>1. /\ inv[w].pc = "checkpoint" /\ inv[w].pc \notin Runless
        /\ inv[w].my \in Invocations
        /\ \A p \in Page : pages'[inv[w].my][p].committed
    BY <1>0, <1>2 DEF PutCheckpoint, At, Sound, Runless, Walked, PagesGrow, Grows
  <2>2. CASE ~inv[w].ckptMoved
    <3> DEFINE l(v) == IF v = w THEN [inv[v] EXCEPT !.pc = "clear"]
                       ELSE IF v \in Alive THEN [inv[v] EXCEPT !.ckptMoved = TRUE]
                       ELSE inv[v]
    <3>1. inv' = [v \in Invocations |-> l(v)]
      BY <1>2, <2>2 DEF PutCheckpoint
    <3>2. ASSUME NEW v \in Invocations PROVE l(v) \in Locals /\ Sound(l(v), pages')
      <4>1. inv[v] \in Locals /\ Sound(inv[v], pages')
        BY SoundStays DEF LocalInv, RowTypes
      <4>2. CASE v = w
        <5>1. l(v) \in Locals /\ l(v).pc = "clear" /\ l(v).my = inv[w].my
          BY <4>1, <4>2 DEF Locals, PC
        <5> QED
          BY <2>1, <5>1 DEF Sound, After, Walked
      <4>3. CASE v # w
        <5>1. /\ l(v) \in Locals /\ l(v).pc = inv[v].pc /\ l(v).my = inv[v].my
              /\ l(v).page = inv[v].page
          BY <4>1, <4>3 DEF Locals
        <5> QED
          BY <4>1, <5>1 DEF Sound
      <4> QED
        BY <4>2, <4>3
    <3> QED
      BY <3>1, <3>2 DEF LocalInv
  <2> QED
    BY <1>0, <1>2, <2>1, <2>2, FailKeeps DEF PutCheckpoint
<1>3. CASE ClearContinuation(w)
  <2>1. inv[w].pc \notin Runless
    BY <1>3 DEF ClearContinuation, At, Runless
  <2> QED
    BY <1>0, <1>3, <2>1, FailKeeps, ReturnKeeps DEF ClearContinuation
<1>4. CASE PutRunFailed(w)
  <2>1. CASE Goto(w, "failClear")
    <3> DEFINE l == [inv[w] EXCEPT !.pc = "failClear"]
    <3>1. l \in Locals /\ l.pc = "failClear" /\ l.my = inv[w].my
      BY <1>0 DEF Locals, PC
    <3>2. inv' = [inv EXCEPT ![w] = l]
      BY <1>0, <2>1 DEF Goto, LocalInv
    <3>3. Sound(l, pages')
      BY <1>0, <1>4, <3>1, Caught DEF PutRunFailed, At, Runless
    <3> QED
      BY <3>1, <3>2, <3>3, Moved
  <2> QED
    BY <1>4, <2>1, ReturnKeeps DEF PutRunFailed
<1>5. CASE ClearAfterQuota(w)
  BY <1>5, ReturnKeeps DEF ClearAfterQuota
<1> QED
  BY <1>1, <1>2, <1>3, <1>4, <1>5 DEF Finish

LEMMA FaultKeeps ==
  ASSUME LocalInv, RowTypes, PagesGrow, NEW w \in Invocations, Fault(w)
  PROVE  LocalInv'
<1>1. CASE StoreThrows(w)
  <2>1. CASE Fail(w, "other") /\ inv[w].pc \in
               {"lease", "renew", "getPage", "dispatch", "settle", "recordAmb", "commitCheck",
                "mark", "commitPage", "advance", "missing", "checkpoint", "clear"}
    BY <2>1, FailKeeps DEF Why, Runless
  <2>2. CASE Settle(w, "ambiguous") /\ inv[w].pc \in {"postCheck", "postRenew", "seal"}
    BY <2>2, PageLoopStates, SettleKeeps DEF Why
  <2> QED
    BY <1>1, <2>1, <2>2 DEF StoreThrows
<1>2. CASE Crash(w)
  BY <1>2, ReturnKeeps DEF Crash
<1> QED
  BY <1>1, <1>2 DEF Fault

\* The environment, the end of the schedule and stuttering move no invocation.
LEMMA StillKeeps ==
  ASSUME LocalInv, RowTypes, PagesGrow, inv' = inv
  PROVE  LocalInv'
BY SoundStays DEF LocalInv, RowTypes

LEMMA LocalsKept ==
  ASSUME LocalInv, RowTypes, [Next]_vars
  PROVE  LocalInv'
<1>1. PagesGrow
  BY PagesOnlyGrow DEF PagesStep
<1>2. CASE Time \/ AllEnded \/ UNCHANGED vars
  BY <1>1, <1>2, StillKeeps DEF Time, LeaseRunsOut, AmbiguityLapses, RunAges,
     AllEnded, vars
<1>3. CASE \E w \in Invocations : Step(w) \/ Fault(w)
  BY <1>1, <1>3, RecoverKeeps, ElectKeeps, FetchKeeps, CommitKeeps, FinishKeeps,
     FaultKeeps DEF Step
<1> QED
  BY <1>2, <1>3 DEF Next

-----------------------------------------------------------------------------
(* Rows and clocks *)

LEMMA ContTyped ==
  ASSUME RowTypes, TimeTypes, LocalInv, [Next]_vars
  PROVE  cont' \in Continuation /\ holders' \in SUBSET Invocations
<1>0. cont \in Continuation /\ holders \in SUBSET Invocations
      /\ Alive \in SUBSET Invocations
  BY DEF RowTypes, TimeTypes, Alive
<1>1. ASSUME UNCHANGED <<cont, holders>>
      PROVE  cont' \in Continuation /\ holders' \in SUBSET Invocations
  BY <1>0, <1>1
<1>2. ASSUME NEW w \in Invocations, NEW row \in Continuation, ClaimRow(w, row)
      PROVE  cont' \in Continuation /\ holders' \in SUBSET Invocations
  BY <1>0, <1>2 DEF ClaimRow, Continuation, MaybeInv
<1>3. ASSUME NEW w \in Invocations, inv[w].pc \notin Runless
      PROVE  inv[w].my \in Invocations /\ inv[w] \in Locals
  BY <1>3 DEF LocalInv, Sound
<1>4. ASSUME NEW w \in Invocations, PatchRow(w), inv[w].pc \notin Runless
      PROVE  cont' \in Continuation
  BY <1>0, <1>3, <1>4 DEF PatchRow, Continuation, Locals, MaybeInv
<1>5. ASSUME NEW w \in Invocations, RenewRow(w), inv[w].pc \notin Runless
      PROVE  cont' \in Continuation /\ holders' \in SUBSET Invocations
  BY <1>0, <1>3, <1>5 DEF RenewRow, Continuation, Locals, MaybeInv
<1>6. ASSUME NEW w \in Invocations, Recover(w)
      PROVE  cont' \in Continuation /\ holders' \in SUBSET Invocations
  <2>1. inv[w].cont \in Continuation
    BY DEF LocalInv, Locals
  <2> QED
    BY <1>0, <1>1, <1>2, <1>6, <2>1, Types
       DEF Recover, Begin, ReadDurableRun, RestartTerminalCursor, RestartClear,
           ReclaimAmbiguity, ReclaimClear, FencedByAmbiguity, rows, time
<1>7. ASSUME NEW w \in Invocations, Elect(w)
      PROVE  cont' \in Continuation /\ holders' \in SUBSET Invocations
  <2>1. ClaimValue(w) \in Continuation
    BY Types DEF ClaimValue, LocalInv, Locals, Continuation, MaybeInv
  <2>2. CASE PutContinuation(w)
    <3>1. inv[w].pc \notin Runless
      BY <2>2 DEF PutContinuation, At, Runless
    <3> QED
      BY <1>0, <1>4, <2>2, <3>1 DEF PutContinuation, time
  <2> QED
    BY <1>1, <1>2, <1>7, <2>1, <2>2
       DEF Elect, Admitted, TurnedAway, QuotaReserveSkip, Claim, PutRunRunning,
           rows, time
<1>8. ASSUME NEW w \in Invocations, NEW pc \in PC \ Runless, NEW next, Renew(w, pc, next)
      PROVE  cont' \in Continuation /\ holders' \in SUBSET Invocations
  BY <1>1, <1>5, <1>8 DEF Renew, At
<1>9. ASSUME NEW w \in Invocations, Fetch(w) \/ Heartbeat(w)
      PROVE  cont' \in Continuation /\ holders' \in SUBSET Invocations
  <2>1. ASSUME Renew(w, "renew", "getPage") \/ Renew(w, "postRenew", "seal")
                 \/ Renew(w, "beating", "fetching")
        PROVE  cont' \in Continuation /\ holders' \in SUBSET Invocations
    BY <1>8, <2>1, PageLoopStates
  <2>2. CASE RecordAmbiguity(w)
    <3>1. inv[w] \in Locals
      BY DEF LocalInv
    <3> QED
      BY <1>0, <2>2, <3>1 DEF RecordAmbiguity, time, Continuation, Locals
  <2> QED
    BY <1>1, <1>9, <2>1, <2>2
       DEF Fetch, Heartbeat, LeaseCheck, LeaseLost, GetPage, QuotaRefused, Dispatch,
           ProviderAnswers, ProviderFails, Seal, SettleRequest, rows, time
<1>10. ASSUME NEW w \in Invocations, Commit(w)
       PROVE  cont' \in Continuation /\ holders' \in SUBSET Invocations
  <2>1. CASE Advance(w)
    <3>1. inv[w].pc \notin Runless
      BY <2>1 DEF Advance, At, Runless
    <3> QED
      BY <1>0, <1>4, <2>1, <3>1 DEF Advance, time
  <2> QED
    BY <1>1, <1>10, <2>1
       DEF Commit, BeginCommit, LeaseCheck, LeaseLost, MarkEvidenceIntent, CommitPage,
           rows, time
<1>11. ASSUME NEW w \in Invocations, Finish(w)
       PROVE  cont' \in Continuation /\ holders' \in SUBSET Invocations
  BY <1>0, <1>1, <1>11, Types
     DEF Finish, PutRunCompleted, PutCheckpoint, ClearContinuation, PutRunFailed,
         ClearAfterQuota, time
<1>12. ASSUME NEW w \in Invocations, Fault(w)
       PROVE  cont' \in Continuation /\ holders' \in SUBSET Invocations
  BY <1>1, <1>12 DEF Fault, StoreThrows, Crash, rows, time
<1>13. ASSUME Time \/ AllEnded \/ UNCHANGED vars
       PROVE  cont' \in Continuation /\ holders' \in SUBSET Invocations
  BY <1>0, <1>13 DEF Time, LeaseRunsOut, AmbiguityLapses, RunAges, AllEnded, vars,
     rows, time, Continuation
<1> QED
  BY <1>6, <1>7, <1>9, <1>10, <1>11, <1>12, <1>13 DEF Next, Step

LEMMA RunsTyped ==
  ASSUME RowTypes, LocalInv, [Next]_vars
  PROVE  runs' \in [Invocations -> RunRow]
<1>0. runs \in [Invocations -> RunRow]
  BY DEF RowTypes
<1>1. ASSUME NEW w \in Invocations, NEW status \in {"running", "completed", "failed", "skipped"},
             NEW evid \in BOOLEAN, NEW cursor \in BOOLEAN, WriteRun(w, status, evid, cursor)
      PROVE  runs' \in [Invocations -> RunRow]
  BY <1>0, <1>1 DEF WriteRun, RunRow
<1>2. ASSUME NEW w \in Invocations, LatchRun(w) PROVE runs' \in [Invocations -> RunRow]
  BY <1>0, <1>2 DEF LatchRun, RunRow
<1>3. ASSUME NEW w \in Invocations
      PROVE  /\ inv[w].evid \in BOOLEAN
             /\ inv[w].pc \notin Runless => runs[inv[w].my] \in RunRow
  BY <1>0 DEF LocalInv, Locals, Sound
<1>4. ASSUME NEW w \in Invocations, ReadDurableRun(w)
      PROVE  runs' \in [Invocations -> RunRow]
  <2>1. runs[inv[w].my] \in RunRow
    BY <1>3, <1>4 DEF ReadDurableRun, At, Runless
  <2>2. CASE UNCHANGED runs
    BY <1>0, <2>2
  <2>3. CASE Row(w).status # "none" /\ WriteRun(w, Row(w).status, TRUE, Row(w).cursor)
    BY <1>1, <2>1, <2>3 DEF Row, RunRow
  <2> QED
    BY <1>4, <2>2, <2>3 DEF ReadDurableRun
<1>5. ASSUME NEW w \in Invocations, PutRunRunning(w)
      PROVE  runs' \in [Invocations -> RunRow]
  <2>1. runs[inv[w].my] \in RunRow
    BY <1>3, <1>5 DEF PutRunRunning, At, Runless
  <2>2. PICK evid \in {inv[w].evid, runs[inv[w].my].evid} : WriteRun(w, "running", evid, FALSE)
    BY <1>5 DEF PutRunRunning, Row
  <2>3. evid \in BOOLEAN
    BY <1>3, <2>1, <2>2 DEF RunRow
  <2> QED
    BY <1>1, <2>2, <2>3
<1>6. ASSUME NEW w \in Invocations, QuotaReserveSkip(w)
      PROVE  runs' \in [Invocations -> RunRow]
  BY <1>0, <1>6 DEF QuotaReserveSkip, NoRun, RunRow
<1>7. ASSUME NEW w \in Invocations, PutRunCompleted(w)
      PROVE  runs' \in [Invocations -> RunRow]
  <2>1. PICK gaps \in BOOLEAN : WriteRun(w, "completed", inv[w].evid \/ gaps, FALSE)
    BY <1>7 DEF PutRunCompleted
  <2>2. (inv[w].evid \/ gaps) \in BOOLEAN
    OBVIOUS
  <2> QED
    BY <1>1, <2>1, <2>2
<1>8. ASSUME NEW w \in Invocations, PutRunFailed(w)
      PROVE  runs' \in [Invocations -> RunRow]
  <2>1. PICK status \in {"skipped", "failed"} :
          WriteRun(w, status, inv[w].evid, inv[w].why = "cursor")
    BY <1>8 DEF PutRunFailed
  <2>2. (inv[w].why = "cursor") \in BOOLEAN
    OBVIOUS
  <2> QED
    BY <1>1, <1>3, <2>1, <2>2
<1>9. ASSUME NEW w \in Invocations, MarkEvidenceIntent(w) \/ CommitPage(w)
      PROVE  runs' \in [Invocations -> RunRow]
  BY <1>0, <1>2, <1>9 DEF MarkEvidenceIntent, CommitPage
<1>10. ASSUME NEW w \in Invocations, Recover(w), ~ReadDurableRun(w) PROVE runs' = runs
  BY <1>10 DEF Recover, Begin, RestartTerminalCursor, RestartClear, ReclaimAmbiguity,
     ReclaimClear, FencedByAmbiguity, rows
<1>11. ASSUME NEW w \in Invocations, Elect(w), ~QuotaReserveSkip(w), ~PutRunRunning(w)
       PROVE  runs' = runs
  BY <1>11 DEF Elect, Admitted, TurnedAway, Claim, PutContinuation, rows
<1>12. ASSUME NEW w \in Invocations, Fetch(w) \/ Heartbeat(w) PROVE runs' = runs
  BY <1>12 DEF Fetch, Heartbeat, LeaseCheck, LeaseLost, Renew, GetPage, QuotaRefused,
     Dispatch, ProviderAnswers, ProviderFails, Seal, SettleRequest, RecordAmbiguity, rows
<1>13. ASSUME NEW w \in Invocations, Commit(w), ~MarkEvidenceIntent(w), ~CommitPage(w)
       PROVE  runs' = runs
  BY <1>13 DEF Commit, BeginCommit, LeaseCheck, LeaseLost, Advance, rows
<1>14. ASSUME NEW w \in Invocations, Finish(w), ~PutRunCompleted(w), ~PutRunFailed(w)
       PROVE  runs' = runs
  BY <1>14 DEF Finish, PutCheckpoint, ClearContinuation, ClearAfterQuota
<1>15. ASSUME (\E w \in Invocations : Fault(w)) \/ Time \/ AllEnded \/ UNCHANGED vars
       PROVE  runs' = runs
  BY <1>15 DEF Fault, StoreThrows, Crash, Time, LeaseRunsOut, AmbiguityLapses, RunAges,
     AllEnded, vars, rows
<1> QED
  BY <1>0, <1>4, <1>5, <1>6, <1>7, <1>8, <1>9, <1>10, <1>11, <1>12, <1>13, <1>14, <1>15
     DEF Next, Step

LEMMA TimeTyped ==
  ASSUME RowTypes, TimeTypes, LocalInv, [Next]_vars
  PROVE  TimeTypes'
<1>0. /\ aged \in SUBSET Invocations /\ met \in [Invocations -> SUBSET Invocations]
      /\ abandoned \in SUBSET Invocations
      /\ fence \in [open: BOOLEAN, readers: SUBSET Invocations]
  BY DEF TimeTypes
<1>1. holders' \in SUBSET Invocations
  BY ContTyped
<1>2. ASSUME UNCHANGED <<aged, met, abandoned, fence>> PROVE TimeTypes'
  BY <1>0, <1>1, <1>2 DEF TimeTypes
<1>3. ASSUME NEW w \in Invocations, Begin(w) PROVE TimeTypes'
  <2>1. met' \in [Invocations -> SUBSET Invocations]
    BY <1>0, <1>3 DEF Begin, Alive
  <2> QED
    BY <1>0, <1>1, <1>3, <2>1 DEF Begin, hist, TimeTypes
<1>4. ASSUME NEW w \in Invocations, Claim(w) PROVE TimeTypes'
  <2>1. StaleRun(w) => inv[w].cont.run \in Invocations
    BY <1>0 DEF StaleRun
  <2>2. abandoned' \in SUBSET Invocations
    BY <1>0, <1>4, <2>1 DEF Claim
  <2> QED
    BY <1>0, <1>1, <1>4, <2>2 DEF Claim, ages, TimeTypes
<1>5. ASSUME NEW w \in Invocations, RecordAmbiguity(w) PROVE TimeTypes'
  <2>1. CASE UNCHANGED fence
    BY <1>0, <1>1, <1>5, <2>1 DEF RecordAmbiguity, time, TimeTypes
  <2>2. CASE fence' = [open |-> TRUE, readers |-> {v \in Invocations : ~At(v, "idle")}]
    <3> DEFINE readers == {v \in Invocations : ~At(v, "idle")}
    <3>1. readers \in SUBSET Invocations
      OBVIOUS
    <3>2. fence' = [open |-> TRUE, readers |-> readers]
      BY <2>2
    <3> HIDE DEF readers
    <3>3. [open |-> TRUE, readers |-> readers] \in [open: BOOLEAN, readers: SUBSET Invocations]
      BY <3>1
    <3> QED
      BY <1>0, <1>1, <1>5, <3>2, <3>3 DEF RecordAmbiguity, time, TimeTypes
  <2> QED
    BY <1>5, <2>1, <2>2 DEF RecordAmbiguity
<1>6. ASSUME NEW r \in Invocations, RunAges(r) PROVE TimeTypes'
  BY <1>0, <1>1, <1>6 DEF RunAges, hist, TimeTypes
<1>7. CASE AmbiguityLapses
  <2>1. fence' \in [open: BOOLEAN, readers: SUBSET Invocations]
    BY <1>0, <1>7 DEF AmbiguityLapses
  <2> QED
    BY <1>0, <1>1, <1>7, <2>1 DEF AmbiguityLapses, time, TimeTypes
<1>8. ASSUME NEW w \in Invocations, Recover(w), ~Begin(w) PROVE TimeTypes'
  BY <1>2, <1>8 DEF Recover, ReadDurableRun, RestartTerminalCursor, RestartClear,
     ReclaimAmbiguity, ReclaimClear, FencedByAmbiguity, time, ages, hist
<1>9. ASSUME NEW w \in Invocations, Elect(w), ~Claim(w) PROVE TimeTypes'
  BY <1>2, <1>9 DEF Elect, Admitted, TurnedAway, QuotaReserveSkip, PutRunRunning,
     PutContinuation, time, hist
<1>10. ASSUME NEW w \in Invocations, Fetch(w) \/ Heartbeat(w), ~RecordAmbiguity(w)
       PROVE  TimeTypes'
  BY <1>2, <1>10 DEF Fetch, Heartbeat, LeaseCheck, LeaseLost, Renew, GetPage,
     QuotaRefused, Dispatch, ProviderAnswers, ProviderFails, Seal, SettleRequest,
     time, ages, hist
<1>11. ASSUME NEW w \in Invocations, Commit(w) \/ Finish(w) PROVE TimeTypes'
  BY <1>2, <1>11 DEF Commit, BeginCommit, LeaseCheck, LeaseLost, MarkEvidenceIntent,
     CommitPage, Advance, Finish, PutRunCompleted, PutCheckpoint, ClearContinuation,
     PutRunFailed, ClearAfterQuota, time, hist
<1>12. ASSUME (\E w \in Invocations : Fault(w)) \/ LeaseRunsOut \/ AllEnded \/ UNCHANGED vars
       PROVE  TimeTypes'
  BY <1>2, <1>12 DEF Fault, StoreThrows, Crash, LeaseRunsOut, AllEnded, vars, time, hist
<1> QED
  BY <1>3, <1>4, <1>5, <1>6, <1>7, <1>8, <1>9, <1>10, <1>11, <1>12 DEF Next, Step, Time

-----------------------------------------------------------------------------
(* The checkpoint *)

\* Only PutCheckpoint moves the checkpoint, and it names a run it has walked.
LEMMA CheckpointKept ==
  ASSUME RowTypes, LocalInv, CheckpointSound, [Next]_vars
  PROVE  ckpt' \in MaybeInv /\ CheckpointSound'
<1>0. PagesGrow /\ ckpt \in MaybeInv
  BY PagesOnlyGrow DEF PagesStep, RowTypes
<1>1. ASSUME ckpt' = ckpt PROVE ckpt' \in MaybeInv /\ CheckpointSound'
  BY <1>0, <1>1 DEF CheckpointSound, MaybeInv, PagesGrow, Grows
<1>2. ASSUME NEW w \in Invocations, PutCheckpoint(w)
      PROVE  ckpt' \in MaybeInv /\ CheckpointSound'
  <2>1. inv[w].my \in Invocations /\ \A p \in Page : pages[inv[w].my][p].committed
    BY <1>2 DEF PutCheckpoint, At, LocalInv, Sound, Runless, Walked
  <2>2. CASE ckpt' = inv[w].my
    BY <1>0, <2>1, <2>2 DEF CheckpointSound, MaybeInv, PagesGrow, Grows
  <2> QED
    BY <1>1, <1>2, <2>2 DEF PutCheckpoint
<1>3. ASSUME NEW w \in Invocations, Recover(w) \/ Elect(w) \/ Fault(w) PROVE ckpt' = ckpt
  BY <1>3 DEF Recover, Begin, ReadDurableRun, RestartTerminalCursor, RestartClear,
     ReclaimAmbiguity, ReclaimClear, FencedByAmbiguity, Elect, Admitted, TurnedAway,
     QuotaReserveSkip, Claim, PutRunRunning, PutContinuation, Fault, StoreThrows,
     Crash, rows
<1>4. ASSUME NEW w \in Invocations, Fetch(w) \/ Heartbeat(w) \/ Commit(w)
      PROVE  ckpt' = ckpt
  BY <1>4 DEF Fetch, Heartbeat, Commit, LeaseCheck, LeaseLost, Renew, GetPage,
     QuotaRefused, Dispatch, ProviderAnswers, ProviderFails, Seal, SettleRequest,
     RecordAmbiguity, BeginCommit, MarkEvidenceIntent, CommitPage, Advance, rows
<1>5. ASSUME NEW w \in Invocations, Finish(w), ~PutCheckpoint(w) PROVE ckpt' = ckpt
  BY <1>5 DEF Finish, PutRunCompleted, ClearContinuation, PutRunFailed, ClearAfterQuota
<1>6. ASSUME Time \/ AllEnded \/ UNCHANGED vars PROVE ckpt' = ckpt
  BY <1>6 DEF Time, LeaseRunsOut, AmbiguityLapses, RunAges, AllEnded, vars, rows
<1> QED
  BY <1>1, <1>2, <1>3, <1>4, <1>5, <1>6 DEF Next, Step

-----------------------------------------------------------------------------
(* The theorems *)

LEMMA InitEstablishes == Init => IInv
<1> SUFFICES ASSUME Init PROVE IInv
  OBVIOUS
<1>1. RowTypes
  BY Types DEF Init, RowTypes
<1>2. TimeTypes
  BY DEF Init, TimeTypes
<1>3. LocalInv
  BY Types DEF Init, LocalInv, Sound, Fresh, Runless, Before, After, Walked
<1>4. CheckpointSound
  BY DEF Init, CheckpointSound
<1> QED
  BY <1>1, <1>2, <1>3, <1>4 DEF IInv

LEMMA NextPreserves == IInv /\ [Next]_vars => IInv'
<1> SUFFICES ASSUME IInv, [Next]_vars PROVE IInv'
  OBVIOUS
<1>1. RowTypes /\ TimeTypes /\ LocalInv /\ CheckpointSound
  BY DEF IInv
<1>2. RowTypes'
  BY <1>1, ContTyped, RunsTyped, PagesOnlyGrow, CheckpointKept DEF RowTypes, PagesStep
<1> QED
  BY <1>1, <1>2, TimeTyped, LocalsKept, CheckpointKept DEF IInv

LEMMA Invariance == Spec => []IInv
BY InitEstablishes, NextPreserves, PTL DEF Spec

\* Every row and every local variable stays in its type.
THEOREM TypeCorrect == Spec => []TypeOK
<1>1. IInv => TypeOK
  BY DEF IInv, RowTypes, TimeTypes, LocalInv, TypeOK
<1> QED
  BY <1>1, Invariance, PTL

\* Whatever stalls, crashes and takeovers happen, the checkpoint only ever
\* names a run all of whose pages are committed.
THEOREM CheckpointCorrect == Spec => []CheckpointSound
<1>1. IInv => CheckpointSound
  BY DEF IInv
<1> QED
  BY <1>1, Invariance, PTL

\* A sealed page keeps its content and its markers.
THEOREM SealedPagesStand == Spec => SealedForGood
<1>1. IInv /\ [Next]_vars => PagesGrow
  BY PagesOnlyGrow DEF IInv, PagesStep
<1>2. PagesGrow =>
        \A r \in Invocations, p \in Page :
          /\ pages[r][p].content # "none" => pages'[r][p].content = pages[r][p].content
          /\ pages[r][p].intent => pages'[r][p].intent
          /\ pages[r][p].committed => pages'[r][p].committed
  BY DEF PagesGrow, Grows
<1>3. IInv /\ [Next]_vars =>
        [\A r \in Invocations, p \in Page :
          /\ pages[r][p].content # "none" => pages'[r][p].content = pages[r][p].content
          /\ pages[r][p].intent => pages'[r][p].intent
          /\ pages[r][p].committed => pages'[r][p].committed]_vars
  BY <1>1, <1>2
<1> QED
  BY <1>3, Invariance, PTL DEF Spec, SealedForGood

-----------------------------------------------------------------------------
(* No lease is outlived.  An invocation that has claimed the league        *)
(* stays its owner under a live lease until it ends, because it is itself  *)
(* among those the lease waits for.  Everything else follows from there    *)
(* being one of them: the row's ambiguity is written by nobody else, and   *)
(* its page is filled by nobody else.                                      *)

Outside == {"idle", "readRun", "decide", "due", "claim", "done"}
Held(w) == inv[w].pc \notin Outside

\* Holders that have not met an ambiguity, and those whose copy of the row has none.
Unmarked == Outside \cup {"restartClear", "reclaimClear", "fail", "failClear"}
Unmarking == {"due", "claim", "renew", "beating", "postRenew"}
Asking == {"dispatch", "fetching", "beating"}

Leased(w) ==
  Held(w) => /\ cont.owner = w /\ cont.live /\ w \in holders
             /\ cont.run = inv[w].my
Unambiguous(w) ==
  /\ inv[w].pc \notin Unmarked => cont.amb = "none"
  /\ inv[w].pc \in Unmarking => inv[w].cont.amb = "none"
Unsealed(w) == inv[w].pc \in Asking => PageAt(w).content = "none"

\* Who begins after an ambiguity was recorded has read it.
Resumes(w) == inv[w].pc \in {"readRun", "decide"}
Named(w) == Resumes(w) => inv[w].cont.run = inv[w].my
HasRead(w) ==
  cont.amb = "open" /\ w \in Alive /\ w \notin fence.readers
    => Resumes(w) /\ inv[w].cont.amb = "open"

Good(w) == Leased(w) /\ Unambiguous(w) /\ Unsealed(w) /\ Named(w) /\ HasRead(w)
LeaseInv ==
  /\ cont.run = NoInv => cont.amb = "none"
  /\ \A w \in Invocations : Good(w)

(***************************************************************************)
(* Only a claim may replace a recorded ambiguity.  A restart of a rejected *)
(* cursor could as well, but those who read the run row while its last     *)
(* owner was at work saw it running, and those who read it before are      *)
(* among those the owner's lease waits for.                                *)
(***************************************************************************)
Rejected(r) == runs[r].status = "failed" /\ runs[r].cursor
Started == Outside \cup {"restartClear", "reclaimClear", "putRun"}
Walking(w) == inv[w].pc \notin Started \cup After
Renewing == Started \cup After \cup {"putCont", "lease", "renew", "commitCheck",
                                     "mark", "commitPage", "advance"}

Met(w) == w \in holders
Late(w) == inv[w].my = cont.run
LateAndUnaware(w) == Late(w) /\ (At(w, "decide") => ~inv[w].restart)

Watched(v) ==
  /\ Walking(v) => ~Rejected(cont.run)
  /\ Held(v) /\ inv[v].pc \notin After
       => \A w \in Invocations \ {v} : Resumes(w) => Met(w) \/ Late(w)
  /\ inv[v].pc \notin Renewing
       => \A w \in Invocations \ {v} : Resumes(w) => Met(w) \/ LateAndUnaware(w)

\* The same while an ambiguity is on record, whether or not its owner is still alive.
Barred(w) == Met(w) /\ cont.live /\ cont.owner \notin {NoInv, w}
Spared ==
  cont.amb = "open" =>
    \A w \in Invocations :
      Resumes(w) /\ inv[w].cont.amb = "none"
        => Barred(w) \/ (LateAndUnaware(w) /\ ~Rejected(cont.run))

\* Its owner, while there is one, is the invocation that recorded it and fails with it.
Reported(v) ==
  cont.amb = "open" /\ Held(v) => At(v, "fail") /\ inv[v].why = "ambiguous"

RestartInv == Spared /\ \A v \in Invocations : Watched(v) /\ Reported(v)

-----------------------------------------------------------------------------
(* What a step of w leaves of the locals of the others, and of its own.    *)

Kept(v) ==
  /\ inv'[v].pc = inv[v].pc /\ inv'[v].my = inv[v].my /\ inv'[v].cont = inv[v].cont
  /\ inv'[v].page = inv[v].page /\ inv'[v].restart = inv[v].restart
  /\ inv'[v].why = inv[v].why

Typed == RowTypes /\ TimeTypes /\ LocalInv

LEMMA OwnKept ==
  ASSUME LocalInv, NEW w \in Invocations, NEW pc, NEW why
  PROVE  /\ Goto(w, pc) =>
              /\ inv'[w].pc = pc /\ inv'[w].my = inv[w].my /\ inv'[w].cont = inv[w].cont
              /\ inv'[w].page = inv[w].page /\ inv'[w].restart = inv[w].restart
              /\ inv'[w].why = inv[w].why
         /\ Fail(w, why) =>
              inv'[w].pc = "fail" /\ inv'[w].my = inv[w].my /\ inv'[w].why = why
         /\ Settle(w, why) =>
              /\ inv'[w].pc = "settle" /\ inv'[w].my = inv[w].my
              /\ inv'[w].page = inv[w].page
         /\ Return(w) => inv'[w].pc = "done"
<1>1. inv[w] \in Locals
  BY DEF LocalInv
<1> QED
  BY <1>1 DEF LocalInv, Locals, Goto, Fail, Settle, Return, Fresh

LEMMA OthersKept ==
  ASSUME LocalInv, NEW w \in Invocations, Step(w) \/ Fault(w),
         NEW v \in Invocations \ {w}
  PROVE  Kept(v)
<1>1. inv[v] \in Locals
  BY DEF LocalInv
<1>2. ASSUME inv'[v] = inv[v] PROVE Kept(v)
  BY <1>2 DEF Kept
<1>3. ASSUME NEW l, inv' = [inv EXCEPT ![w] = l] PROVE Kept(v)
  BY <1>2, <1>3 DEF LocalInv
<1>4. CASE Begin(w) \/ ReadDurableRun(w)
  BY <1>2, <1>4 DEF LocalInv, Begin, ReadDurableRun
<1>11. CASE Recover(w) /\ ~Begin(w) /\ ~ReadDurableRun(w)
  BY <1>2, <1>11 DEF LocalInv, Recover, RestartTerminalCursor, RestartClear,
     ReclaimAmbiguity, ReclaimClear, FencedByAmbiguity, Return, Goto
<1>5. CASE Elect(w)
  BY <1>2, <1>5 DEF LocalInv, Elect, Admitted, TurnedAway, QuotaReserveSkip, Claim,
     PutRunRunning, PutContinuation, Return, Goto
<1>6. CASE Fetch(w) \/ Heartbeat(w)
  BY <1>2, <1>6 DEF LocalInv, Fetch, Heartbeat, LeaseCheck, LeaseLost, Renew, GetPage,
     QuotaRefused, Dispatch, ProviderAnswers, ProviderFails, Seal, SettleRequest,
     RecordAmbiguity, Goto, Fail, Settle
<1>7. CASE Commit(w)
  BY <1>2, <1>7 DEF LocalInv, Commit, BeginCommit, LeaseCheck, LeaseLost,
     MarkEvidenceIntent, CommitPage, Advance, Goto, Fail, Settle
<1>8. CASE PutCheckpoint(w)
  <2>1. CASE Fail(w, "other")
    BY <1>2, <2>1 DEF LocalInv, Fail
  <2>2. CASE inv' = [u \in Invocations |->
                       IF u = w THEN [inv[u] EXCEPT !.pc = "clear"]
                       ELSE IF u \in Alive THEN [inv[u] EXCEPT !.ckptMoved = TRUE]
                       ELSE inv[u]]
    BY <1>1, <2>2 DEF Kept, Locals
  <2> QED
    BY <1>8, <2>1, <2>2 DEF PutCheckpoint
<1>9. CASE Finish(w) /\ ~PutCheckpoint(w)
  BY <1>2, <1>9 DEF LocalInv, Finish, PutRunCompleted, ClearContinuation,
     PutRunFailed, ClearAfterQuota, Return, Goto, Fail
<1>10. CASE Fault(w)
  BY <1>2, <1>10 DEF LocalInv, Fault, StoreThrows, Crash, Return, Fail, Settle
<1> QED
  BY <1>4, <1>5, <1>6, <1>7, <1>8, <1>9, <1>10, <1>11 DEF Step

LEMMA ReadMoves ==
  ASSUME RowTypes, LocalInv, NEW w \in Invocations, ReadDurableRun(w)
  PROVE  /\ inv[w].pc = "readRun" /\ inv'[w].pc = "decide"
         /\ inv'[w].my = inv[w].my /\ inv'[w].cont = inv[w].cont
         /\ inv'[w].restart => Rejected(inv[w].my)
<1> DEFINE run == runs[inv[w].my]
           promote == /\ run.status # "none" /\ ~run.evid
                      /\ \E p \in Page : pages[inv[w].my][p].intent
           evid == run.evid \/ promote
           restart == /\ run.status = "failed" /\ run.cursor
                      /\ ~run.evid /\ ~promote
                      /\ NPages > 1 /\ pages[inv[w].my][1].content # "none"
           l == [inv[w] EXCEPT !.pc = "decide", !.evid = evid, !.restart = restart]
<1>1. inv[w] \in Locals /\ inv[w].pc = "readRun"
  BY DEF LocalInv, ReadDurableRun, At
<1>2. restart => Rejected(inv[w].my)
  BY DEF Rejected
<1> HIDE DEF evid, restart
<1>3. inv' = [inv EXCEPT ![w] = l]
  BY <1>1 DEF ReadDurableRun, LocalInv, Row, evid, restart
<1>4. inv'[w] = l
  BY <1>3 DEF LocalInv
<1>5. l.pc = "decide" /\ l.my = inv[w].my /\ l.cont = inv[w].cont /\ l.restart = restart
  BY <1>1 DEF Locals
<1> QED
  BY <1>1, <1>2, <1>4, <1>5

-----------------------------------------------------------------------------
(* One holder at a time.                                                   *)

LEMMA SoleHolder ==
  ASSUME LeaseInv, NEW v \in Invocations, NEW w \in Invocations, Held(v)
  PROVE  Held(w) \/ Claimable(w) => v = w
<1>1. Leased(v) /\ Leased(w)
  BY DEF LeaseInv, Good
<1> QED
  BY <1>1, NoInvAssumption DEF Leased, Claimable

\* A step of w that touches the row only as its holder, or as one who may claim it, and
\* leaves w with what it relies on, leaves everybody with it.
LEMMA StepKeeps ==
  ASSUME LeaseInv, NEW w \in Invocations,
         \A v \in Invocations \ {w} : Kept(v),
         UNCHANGED <<cont, holders>> \/ Held(w) \/ Claimable(w),
         pages' = pages \/ Held(w),
         cont'.amb = "open" =>
           \/ cont.amb = "open" /\ fence' = fence
           \/ \A v \in Invocations : ~At(v, "idle") => v \in fence'.readers,
         cont'.run = NoInv => cont'.amb = "none",
         Good(w)'
  PROVE  LeaseInv'
<1>1. ASSUME NEW v \in Invocations, v # w PROVE Good(v)'
  <2>1. Kept(v) /\ Good(v)
    BY <1>1 DEF LeaseInv
  <2>2. ASSUME Held(v) PROVE UNCHANGED <<cont, holders, pages>>
    BY <1>1, <2>2, SoleHolder
  <2>3. Leased(v)'
    BY <2>1, <2>2 DEF Good, Leased, Held, Kept
  <2>4. Unambiguous(v)'
    BY <2>1, <2>2 DEF Good, Unambiguous, Held, Kept, Unmarked, Unmarking
  <2>5. Unsealed(v)'
    BY <2>1, <2>2 DEF Good, Unsealed, PageAt, Held, Kept, Asking, Outside
  <2>6. Named(v)' /\ HasRead(v)'
    BY <2>1 DEF Good, Named, HasRead, Resumes, Alive, At, Kept
  <2> QED
    BY <2>3, <2>4, <2>5, <2>6 DEF Good
<1> QED
  BY <1>1 DEF LeaseInv

SameLease ==
  /\ cont'.owner = cont.owner /\ cont'.live = cont.live
  /\ cont'.run = cont.run /\ cont'.amb = cont.amb
  /\ UNCHANGED <<holders, fence>>

\* The holder takes a step within its tenure and leaves the lease as it is.
Tenure(w) ==
  /\ Held(w) /\ SameLease /\ inv'[w].my = inv[w].my
  /\ inv'[w].pc \notin {"idle", "readRun", "decide", "due", "claim"}
  /\ inv'[w].pc \notin Unmarked => inv[w].pc \notin Unmarked
  /\ inv'[w].pc \in Unmarking => inv'[w].cont.amb = "none"
  /\ Unsealed(w)'

LEMMA TenureKeeps ==
  ASSUME LeaseInv, NEW w \in Invocations, \A v \in Invocations \ {w} : Kept(v),
         Tenure(w)
  PROVE  LeaseInv'
<1>1. Good(w) /\ (cont.run = NoInv => cont.amb = "none")
  BY DEF LeaseInv
<1>2. Leased(w)'
  BY <1>1 DEF Good, Leased, Tenure, SameLease
<1>3. Unambiguous(w)' /\ Named(w)'
  BY <1>1 DEF Good, Unambiguous, Named, Resumes, Tenure, SameLease
<1>4. HasRead(w)'
  BY <1>1 DEF Good, HasRead, Resumes, Held, Outside, Alive, Tenure, SameLease
<1>5. Good(w)'
  BY <1>2, <1>3, <1>4 DEF Good, Tenure
<1> QED
  BY <1>1, <1>5, StepKeeps DEF Tenure, SameLease

\* Whoever returns leaves everybody with what they rely on.
LEMMA EndKeeps ==
  ASSUME LeaseInv, NEW w \in Invocations, \A v \in Invocations \ {w} : Kept(v),
         cont' = cont \/ (Held(w) /\ cont' = NoCont), UNCHANGED <<holders, fence, pages>>,
         inv'[w].pc = "done"
  PROVE  LeaseInv'
<1>1. Good(w)'
  BY DEF Good, Leased, Unambiguous, Unsealed, Named, HasRead, Held, Outside, Unmarked,
     Unmarking, Asking, Resumes, Alive
<1>2. cont.run = NoInv => cont.amb = "none"
  BY DEF LeaseInv
<1>3. NoCont.amb = "none"
  BY DEF NoCont
<1> QED
  BY <1>1, <1>2, <1>3, StepKeeps

\* Who may claim the row becomes its holder.
LEMMA ClaimKeeps ==
  ASSUME LeaseInv, NEW w \in Invocations, \A v \in Invocations \ {w} : Kept(v),
         Claimable(w), w \in Alive, NEW row \in Continuation, ClaimRow(w, row),
         UNCHANGED <<fence, pages>>,
         row.amb # "open", row.run \in Invocations, inv'[w].my = row.run,
         inv'[w].pc \in {"restartClear", "reclaimClear"}
           \/ (inv'[w].pc = "putRun" /\ row.amb = "none")
  PROVE  LeaseInv'
<1>1. /\ cont'.owner = w /\ cont'.live /\ cont'.run = row.run /\ cont'.amb = row.amb
      /\ w \in holders'
  BY DEF ClaimRow, Continuation
<1>2. Leased(w)' /\ Unsealed(w)'
  BY <1>1 DEF Leased, Unsealed, Asking
<1>3. Unambiguous(w)' /\ Named(w)' /\ HasRead(w)'
  BY <1>1 DEF Unambiguous, Unmarked, Unmarking, Named, Resumes, HasRead
<1>4. Good(w)'
  BY <1>2, <1>3 DEF Good
<1> QED
  BY <1>1, <1>4, StepKeeps, NoInvAssumption

-----------------------------------------------------------------------------
(* LeaseInv, action by action. *)

LEMMA RecoverKeepsLease ==
  ASSUME Typed, LeaseInv, NEW w \in Invocations, Recover(w)
  PROVE  LeaseInv'
<1>0. /\ inv[w] \in Locals /\ Sound(inv[w], pages) /\ cont \in Continuation
      /\ LocalInv /\ inv \in [Invocations -> Locals] /\ inv[w].cont \in Continuation
  BY DEF Typed, LocalInv, RowTypes, Locals
<1>a. \A v \in Invocations \ {w} : Kept(v)
  BY <1>0, OthersKept DEF Step
<1>b. Good(w) /\ (cont.run = NoInv => cont.amb = "none")
  BY DEF LeaseInv
<1>1. CASE Begin(w)
  <2>1. /\ inv'[w].cont = cont /\ inv'[w].my = cont.run
        /\ inv'[w].pc = IF cont.run = NoInv THEN "due" ELSE "readRun"
    BY <1>0, <1>1 DEF Begin, Locals
  <2>2. UNCHANGED <<cont, holders, pages, fence>>
    BY <1>1 DEF Begin, rows, hist
  <2>3. Good(w)'
    BY <1>b, <2>1, <2>2 DEF Good, Leased, Unambiguous, Unsealed, Named, HasRead, Held,
       Outside, Unmarked, Unmarking, Asking, Resumes, Alive
  <2> QED
    BY <1>a, <1>b, <2>2, <2>3, StepKeeps
<1>2. CASE ReadDurableRun(w)
  <2>1. /\ inv'[w].cont = inv[w].cont /\ inv'[w].my = inv[w].my
        /\ inv[w].pc = "readRun" /\ inv'[w].pc = "decide"
    BY <1>2, ReadMoves DEF Typed
  <2>2. UNCHANGED <<cont, holders, pages, fence>>
    BY <1>2 DEF ReadDurableRun, time, hist
  <2>3. Good(w)'
    BY <1>b, <2>1, <2>2 DEF Good, Leased, Unambiguous, Unsealed, Named, HasRead, Held,
       Outside, Unmarked, Unmarking, Asking, Resumes, Alive
  <2> QED
    BY <1>a, <1>b, <2>2, <2>3, StepKeeps
<1>3. ASSUME Return(w), UNCHANGED <<cont, holders, pages, fence>> PROVE LeaseInv'
  <2>1. inv'[w].pc = "done"
    BY <1>0, <1>3, OwnKept
  <2> QED
    BY <1>3, <1>a, <2>1, EndKeeps
<1>4. ASSUME At(w, "decide") PROVE inv[w].cont.run = inv[w].my /\ inv[w].my \in Invocations /\ w \in Alive
  BY <1>0, <1>b, <1>4 DEF At, Good, Named, Resumes, Sound, Runless, Alive
<1>5. CASE RestartTerminalCursor(w) /\ Claimable(w)
  <2>1. /\ ClaimRow(w, inv[w].cont) /\ Goto(w, "restartClear") /\ At(w, "decide")
        /\ inv[w].cont.amb = "none" /\ UNCHANGED <<fence, pages>>
    BY <1>5 DEF RestartTerminalCursor, hist
  <2>2. inv'[w].pc = "restartClear" /\ inv'[w].my = inv[w].my
    BY <1>0, <2>1, OwnKept
  <2> QED
    BY <1>0, <1>a, <1>4, <1>5, <2>1, <2>2, ClaimKeeps
<1>6. CASE ReclaimAmbiguity(w) /\ Claimable(w)
  <2>1. /\ ClaimRow(w, inv[w].cont) /\ Goto(w, "reclaimClear") /\ At(w, "decide")
        /\ inv[w].cont.amb = "lapsed" /\ UNCHANGED <<fence, pages>>
    BY <1>6 DEF ReclaimAmbiguity, hist
  <2>2. inv'[w].pc = "reclaimClear" /\ inv'[w].my = inv[w].my
    BY <1>0, <2>1, OwnKept
  <2> QED
    BY <1>0, <1>a, <1>4, <1>6, <2>1, <2>2, ClaimKeeps
<1>7. CASE RestartClear(w)
  <2>1. Held(w) /\ UNCHANGED <<holders, pages, fence>>
    BY <1>7 DEF RestartClear, At, Held, Outside, time, hist
  <2>2. CASE cont' = NoCont /\ inv' = [inv EXCEPT ![w] = [Fresh EXCEPT !.pc = "due"]]
    <3>1. inv'[w].pc = "due" /\ inv'[w].cont.amb = "none"
      BY <1>0, <2>2 DEF Fresh, NoCont
    <3>2. Good(w)'
      BY <2>2, <3>1 DEF Good, Leased, Unambiguous, Unsealed, Named, HasRead, Held, Outside,
         Unmarked, Asking, Resumes, NoCont
    <3> QED
      BY <1>a, <2>1, <2>2, <3>2, StepKeeps DEF NoCont
  <2> QED
    BY <1>7, <1>3, <2>1, <2>2 DEF RestartClear
<1>8. CASE ReclaimClear(w)
  <2>1. Held(w) /\ UNCHANGED <<holders, pages, fence>>
    BY <1>8 DEF ReclaimClear, At, Held, Outside, time, hist
  <2>2. inv'[w].pc = "done"
    BY <1>0, <1>8, OwnKept DEF ReclaimClear
  <2> QED
    BY <1>8, <1>a, <2>1, <2>2, EndKeeps DEF ReclaimClear
<1>9. CASE FencedByAmbiguity(w)
  BY <1>9, <1>3 DEF FencedByAmbiguity, rows, time, hist
<1>10. CASE (RestartTerminalCursor(w) \/ ReclaimAmbiguity(w)) /\ ~Claimable(w)
  BY <1>10, <1>3 DEF RestartTerminalCursor, ReclaimAmbiguity, hist
<1> QED
  BY <1>1, <1>2, <1>5, <1>6, <1>7, <1>8, <1>9, <1>10 DEF Recover

LEMMA ElectKeepsLease ==
  ASSUME Typed, LeaseInv, NEW w \in Invocations, Elect(w)
  PROVE  LeaseInv'
<1>0. /\ inv[w] \in Locals /\ Sound(inv[w], pages) /\ cont \in Continuation
      /\ LocalInv /\ inv \in [Invocations -> Locals] /\ inv[w].cont \in Continuation
  BY DEF Typed, LocalInv, RowTypes, Locals
<1>a. \A v \in Invocations \ {w} : Kept(v)
  BY <1>0, OthersKept DEF Step
<1>b. Good(w) /\ (cont.run = NoInv => cont.amb = "none")
  BY DEF LeaseInv
<1>1. CASE Admitted(w)
  <2>1. /\ inv'[w].cont = inv[w].cont /\ inv'[w].my = inv[w].my /\ inv'[w].pc = "claim"
        /\ UNCHANGED <<cont, holders, pages, fence>>
    BY <1>0, <1>1 DEF Admitted, Locals, rows, time, hist
  <2>2. inv[w].cont.amb = "none" /\ inv[w].pc \in {"due", "decide"}
    BY <1>b, <1>1 DEF Admitted, Resuming, At, Good, Unambiguous, Unmarking
  <2>3. Good(w)'
    BY <1>b, <2>1, <2>2 DEF Good, Leased, Unambiguous, Unsealed, Named, HasRead, Held,
       Outside, Unmarked, Asking, Resumes, Alive
  <2> QED
    BY <1>a, <1>b, <2>1, <2>3, StepKeeps
<1>2. ASSUME Return(w), UNCHANGED <<cont, holders, pages, fence>> PROVE LeaseInv'
  <2>1. inv'[w].pc = "done"
    BY <1>0, <1>2, OwnKept
  <2> QED
    BY <1>2, <1>a, <2>1, EndKeeps
<1>3. CASE TurnedAway(w) \/ QuotaReserveSkip(w) \/ (Claim(w) /\ ~Claimable(w))
  BY <1>2, <1>3 DEF TurnedAway, QuotaReserveSkip, Claim, rows, time, hist, ages
<1>4. CASE Claim(w) /\ Claimable(w)
  <2> DEFINE row == ClaimValue(w)
  <2>1. row \in Continuation /\ row.run \in Invocations
    BY <1>0, Types DEF ClaimValue, Continuation, MaybeInv, NoCont
  <2>2. row.amb = "none" /\ w \in Alive
    BY <1>b, <1>4 DEF ClaimValue, NoCont, Claim, At, Good, Unambiguous, Unmarking, Alive
  <2>3. ClaimRow(w, row) /\ UNCHANGED <<fence, pages>>
    BY <1>4 DEF Claim
  <2>4. inv'[w].pc = "putRun" /\ inv'[w].my = row.run
    BY <1>0, <1>4 DEF Claim, Fresh
  <2> HIDE DEF row
  <2> QED
    BY <1>a, <1>4, <2>1, <2>2, <2>3, <2>4, ClaimKeeps
<1>5. CASE PutRunRunning(w)
  <2>1. /\ inv'[w].my = inv[w].my /\ inv[w].pc = "putRun" /\ inv'[w].pc = "putCont"
        /\ UNCHANGED <<cont, holders, fence, pages>>
    BY <1>0, <1>5 DEF PutRunRunning, At, Locals, time, hist
  <2>2. Tenure(w)
    BY <2>1 DEF Tenure, SameLease, Held, Outside, Unmarked, Unmarking, Unsealed, Asking
  <2> QED
    BY <1>a, <2>2, TenureKeeps
<1>6. CASE PutContinuation(w)
  <2>1. CASE PatchRow(w) /\ Goto(w, "lease")
    <3>1. inv'[w].my = inv[w].my /\ inv[w].pc = "putCont" /\ inv'[w].pc = "lease"
      BY <1>0, <1>6, <2>1, OwnKept DEF PutContinuation, At
    <3>2. Held(w) /\ cont.run = inv[w].my
      BY <1>b, <3>1 DEF Good, Leased, Held, Outside
    <3>3. SameLease
      BY <1>0, <1>6, <2>1, <3>2 DEF SameLease, PatchRow, PutContinuation, Continuation,
         time, hist
    <3>4. Tenure(w)
      BY <3>1, <3>2, <3>3 DEF Tenure, Outside, Unmarked, Unmarking, Unsealed, Asking
    <3> QED
      BY <1>a, <3>4, TenureKeeps
  <2>2. UNCHANGED <<holders, pages, fence>>
    BY <1>6 DEF PutContinuation, time, hist
  <2> QED
    BY <1>6, <1>2, <2>1, <2>2 DEF PutContinuation
<1> QED
  BY <1>1, <1>3, <1>4, <1>5, <1>6 DEF Elect

\* Leaving the page loop, or the paid request, by an error.
LEMMA ErrorHolds ==
  ASSUME LocalInv, LeaseInv, NEW w \in Invocations,
         \A v \in Invocations \ {w} : Kept(v), Held(w), SameLease, NEW why,
         Fail(w, why) \/ (Settle(w, why) /\ inv[w].pc \notin Unmarked)
  PROVE  LeaseInv'
<1>1. Tenure(w)
  BY OwnKept DEF Tenure, Outside, Unmarked, Unmarking, Unsealed, Asking
<1> QED
  BY <1>1, TenureKeeps

Loop == {"lease", "renew", "getPage", "dispatch", "fetching", "beating", "postCheck",
         "postRenew", "seal", "settle", "recordAmb", "commitCheck", "mark",
         "commitPage", "advance", "missing", "checkpoint", "clear"}

LEMMA LoopHolds ==
  ASSUME NEW w \in Invocations, inv[w].pc \in Loop
  PROVE  Held(w) /\ inv[w].pc \notin Unmarked
BY DEF Loop, Held, Outside, Unmarked

LEMMA LeaseCheckHolds ==
  ASSUME Typed, LeaseInv, NEW w \in Invocations,
         \A v \in Invocations \ {w} : Kept(v), NEW pc \in Loop, NEW next \in Loop,
         next \in Asking => pc \in Asking,
         LeaseCheck(w, pc, next) \/ LeaseLost(w, pc)
  PROVE  LeaseInv'
<1>1. inv[w] \in Locals /\ LocalInv /\ inv[w].pc = pc /\ Good(w)
  BY DEF Typed, LocalInv, LeaseCheck, LeaseLost, At, LeaseInv
<1>2. Held(w) /\ pc \notin Unmarked /\ cont.amb = "none"
  BY <1>1, LoopHolds DEF Good, Unambiguous
<1>3. SameLease /\ UNCHANGED pages
  BY DEF LeaseCheck, LeaseLost, SameLease, rows, time, hist
<1>4. CASE LeaseCheck(w, pc, next)
  <2>1. /\ inv'[w].pc = next /\ inv'[w].my = inv[w].my /\ inv'[w].page = inv[w].page
        /\ inv'[w].cont = cont
    BY <1>1, <1>4 DEF LeaseCheck, LocalInv, Locals
  <2>2. Unsealed(w)'
    BY <1>1, <1>3, <2>1 DEF Good, Unsealed, PageAt
  <2>3. Tenure(w)
    BY <1>1, <1>2, <1>3, <2>1, <2>2 DEF Tenure, Loop
  <2> QED
    BY <2>3, TenureKeeps
<1>5. CASE LeaseLost(w, pc)
  BY <1>1, <1>2, <1>3, <1>5, ErrorHolds DEF LeaseLost
<1> QED
  BY <1>4, <1>5

LEMMA RenewHolds ==
  ASSUME Typed, LeaseInv, NEW w \in Invocations,
         \A v \in Invocations \ {w} : Kept(v), NEW pc \in Loop \cap Unmarking,
         NEW next \in Loop \ Unmarking, next \in Asking => pc \in Asking,
         Renew(w, pc, next)
  PROVE  LeaseInv'
<1>1. inv[w] \in Locals /\ LocalInv /\ inv[w].pc = pc /\ Good(w) /\ Sound(inv[w], pages)
  BY DEF Typed, LocalInv, Renew, At, LeaseInv
<1>2. Held(w) /\ pc \notin Unmarked /\ cont.amb = "none" /\ inv[w].cont.amb = "none"
  BY <1>1, LoopHolds DEF Good, Unambiguous
<1>3. UNCHANGED <<pages, fence>>
  BY DEF Renew, hist
<1>4. CASE RenewAllowed(w)
  <2>1. /\ cont'.run = inv[w].my /\ cont'.owner = w /\ cont'.live /\ cont'.amb = "none"
        /\ holders' = Alive
    BY <1>2, <1>4 DEF Renew, RenewRow
  <2>2. w \in Alive
    BY <1>1 DEF Alive, Loop
  <2>3. /\ inv'[w].pc = next /\ inv'[w].my = inv[w].my /\ inv'[w].page = inv[w].page
    BY <1>1, <1>4 DEF Renew, LocalInv, Locals
  <2>4. Unsealed(w)'
    BY <1>1, <1>3, <2>3 DEF Good, Unsealed, PageAt
  <2>5. Leased(w)' /\ Unambiguous(w)' /\ Named(w)' /\ HasRead(w)'
    BY <2>1, <2>2, <2>3
       DEF Leased, Unambiguous, Named, Resumes, HasRead, Loop
  <2>6. Good(w)'
    BY <2>4, <2>5 DEF Good
  <2> QED
    BY <1>2, <1>3, <2>1, <2>6, StepKeeps
<1>5. CASE ~RenewAllowed(w)
  <2>1. SameLease
    BY <1>5 DEF Renew, SameLease, hist
  <2> QED
    BY <1>1, <1>2, <1>5, <2>1, ErrorHolds DEF Renew
<1> QED
  BY <1>4, <1>5

LEMMA FetchKeepsLease ==
  ASSUME Typed, LeaseInv, NEW w \in Invocations, Fetch(w) \/ Heartbeat(w)
  PROVE  LeaseInv'
<1>0. /\ inv[w] \in Locals /\ Sound(inv[w], pages) /\ cont \in Continuation /\ LocalInv
  BY DEF Typed, LocalInv, RowTypes
<1>a. \A v \in Invocations \ {w} : Kept(v)
  BY <1>0, OthersKept DEF Step
<1>b. Good(w)
  BY DEF LeaseInv
<1>1. CASE \/ LeaseCheck(w, "lease", "renew") \/ LeaseLost(w, "lease")
           \/ LeaseCheck(w, "postCheck", "postRenew") \/ LeaseLost(w, "postCheck")
           \/ LeaseCheck(w, "fetching", "beating") \/ LeaseLost(w, "fetching")
  BY <1>a, <1>1, LeaseCheckHolds DEF Loop, Asking
<1>2. CASE Renew(w, "renew", "getPage") \/ Renew(w, "postRenew", "seal")
             \/ Renew(w, "beating", "fetching")
  BY <1>a, <1>2, RenewHolds DEF Loop, Asking, Unmarking
<1>3. CASE GetPage(w)
  <2>1. /\ inv'[w].pc = AfterGet(PageAt(w)) /\ inv'[w].my = inv[w].my
        /\ inv'[w].page = inv[w].page /\ inv[w].pc = "getPage"
    BY <1>0, <1>3 DEF GetPage, At, LocalInv, Locals
  <2>2. SameLease /\ UNCHANGED pages
    BY <1>3 DEF GetPage, SameLease, rows, time, hist
  <2>3. /\ inv'[w].pc \in {"dispatch", "advance", "commitCheck"}
        /\ inv'[w].pc = "dispatch" => PageAt(w).content = "none"
    BY <2>1 DEF AfterGet, AfterSeal
  <2>4. Unsealed(w)'
    BY <2>1, <2>2, <2>3 DEF Unsealed, PageAt, Asking
  <2>5. Tenure(w)
    BY <2>1, <2>2, <2>3, <2>4 DEF Tenure, Held, Outside, Unmarked, Unmarking
  <2> QED
    BY <1>a, <2>5, TenureKeeps
<1>4. CASE QuotaRefused(w)
  BY <1>0, <1>a, <1>4, LoopHolds, ErrorHolds
     DEF QuotaRefused, At, Loop, SameLease, rows, time, hist
<1>5. ASSUME NEW next \in {"fetching", "postCheck"}, Goto(w, next), SameLease,
             UNCHANGED pages, inv[w].pc \in {"dispatch", "fetching"}
      PROVE  LeaseInv'
  <2>1. /\ inv'[w].pc = next /\ inv'[w].my = inv[w].my /\ inv'[w].page = inv[w].page
    BY <1>0, <1>5, OwnKept
  <2>2. Unsealed(w)'
    BY <1>b, <1>5, <2>1 DEF Good, Unsealed, PageAt, Asking
  <2>3. Tenure(w)
    BY <1>5, <2>1, <2>2 DEF Tenure, Held, Outside, Unmarked, Unmarking
  <2> QED
    BY <1>a, <2>3, TenureKeeps
<1>6. CASE Dispatch(w) \/ ProviderAnswers(w)
  BY <1>5, <1>6 DEF Dispatch, ProviderAnswers, At, SameLease, rows, time, hist
<1>7. CASE ProviderFails(w)
  BY <1>0, <1>a, <1>7, LoopHolds, ErrorHolds
     DEF ProviderFails, At, Loop, SameLease, rows, time, hist
<1>8. CASE Seal(w)
  <2>1. SameLease /\ inv[w].pc = "seal" /\ Held(w) /\ inv[w].pc \notin Unmarked
    BY <1>8, LoopHolds DEF Seal, At, SameLease, Loop, time, hist
  <2>2. ASSUME NEW c, inv' = [inv EXCEPT ![w] = [@ EXCEPT !.pc = "commitCheck",
                                !.sealed = [NoPage EXCEPT !.content = c]]]
        PROVE  LeaseInv'
    <3>1. inv'[w].pc = "commitCheck" /\ inv'[w].my = inv[w].my
      BY <1>0, <2>2 DEF LocalInv, Locals
    <3>2. Tenure(w)
      BY <2>1, <3>1 DEF Tenure, Unmarking, Unsealed, Asking
    <3> QED
      BY <1>a, <3>2, TenureKeeps
  <2> QED
    BY <1>0, <1>a, <1>8, <2>1, <2>2, ErrorHolds DEF Seal
<1>9. CASE SettleRequest(w)
  <2>1. SameLease /\ inv[w].pc = "settle" /\ Held(w) /\ inv[w].pc \notin Unmarked
    BY <1>9, LoopHolds DEF SettleRequest, At, SameLease, Loop, rows, time, hist
  <2>2. ASSUME inv'[w].pc \in {"advance", "commitCheck", "recordAmb"},
               inv'[w].my = inv[w].my
        PROVE  LeaseInv'
    <3>1. Tenure(w)
      BY <2>1, <2>2 DEF Tenure, Unmarking, Unsealed, Asking
    <3> QED
      BY <1>a, <3>1, TenureKeeps
  <2>3. CASE inv' = [inv EXCEPT ![w] = [@ EXCEPT !.sealed = PageAt(w), !.why = "none",
                                                 !.pc = AfterSeal(PageAt(w))]]
    <3>1. inv'[w].pc = AfterSeal(PageAt(w)) /\ inv'[w].my = inv[w].my
      BY <1>0, <2>3 DEF LocalInv, Locals
    <3> QED
      BY <2>2, <3>1 DEF AfterSeal
  <2>4. CASE Goto(w, "recordAmb")
    BY <1>0, <2>2, <2>4, OwnKept
  <2>5. CASE Fail(w, inv[w].why)
    BY <1>0, <1>a, <2>1, <2>5, ErrorHolds
  <2> QED
    BY <1>9, <2>3, <2>4, <2>5 DEF SettleRequest
<1>10. CASE RecordAmbiguity(w)
  <2>1. /\ inv[w].pc = "recordAmb" /\ Held(w) /\ cont.amb = "none"
        /\ UNCHANGED <<pages, holders>> /\ inv[w].my \in Invocations
    BY <1>0, <1>b, <1>10, LoopHolds
       DEF RecordAmbiguity, At, Loop, Good, Unambiguous, time, Sound, Runless
  <2>2. CASE Mine(w)
    <3>1. /\ cont'.run = cont.run /\ cont'.owner = cont.owner /\ cont'.live = cont.live
          /\ cont'.amb = "open"
      BY <1>0, <1>10, <2>1, <2>2 DEF RecordAmbiguity, Continuation
    <3>2. inv'[w].pc = "fail" /\ inv'[w].my = inv[w].my
      BY <1>0, <1>10, <2>2, OwnKept DEF RecordAmbiguity
    <3>3. \A v \in Invocations : ~At(v, "idle") => v \in fence'.readers
      BY <1>10, <2>2 DEF RecordAmbiguity
    <3>4. w \in fence'.readers
      BY <2>1, <3>3 DEF At
    <3>5. Good(w)'
      BY <1>b, <2>1, <3>1, <3>2, <3>4
         DEF Good, Leased, Unambiguous, Unsealed, Named, HasRead, Held, Outside, Unmarked,
             Unmarking, Asking, Resumes
    <3>6. cont'.run # NoInv
      BY <2>1, <2>2, <3>1, NoInvAssumption DEF Mine
    <3> QED
      BY <1>a, <2>1, <3>1, <3>3, <3>5, <3>6, StepKeeps
  <2>3. CASE ~Mine(w)
    <3>1. SameLease
      BY <1>10, <2>3 DEF RecordAmbiguity, SameLease, time
    <3> QED
      BY <1>0, <1>a, <1>10, <2>1, <2>3, <3>1, ErrorHolds DEF RecordAmbiguity
  <2> QED
    BY <2>2, <2>3
<1> QED
  BY <1>1, <1>2, <1>3, <1>4, <1>6, <1>7, <1>8, <1>9, <1>10 DEF Fetch, Heartbeat

LEMMA CommitKeepsLease ==
  ASSUME Typed, LeaseInv, NEW w \in Invocations, Commit(w)
  PROVE  LeaseInv'
<1>0. inv[w] \in Locals /\ cont \in Continuation /\ LocalInv
  BY DEF Typed, LocalInv, RowTypes
<1>a. \A v \in Invocations \ {w} : Kept(v)
  BY <1>0, OthersKept DEF Step
<1>b. Good(w)
  BY DEF LeaseInv
<1>1. CASE BeginCommit(w) \/ LeaseLost(w, "commitCheck")
  BY <1>a, <1>1, LeaseCheckHolds DEF BeginCommit, Loop, Asking
<1>2. ASSUME inv[w].pc \in {"mark", "commitPage", "advance"}, SameLease,
             inv'[w].pc \in {"commitPage", "advance", "missing", "lease"},
             inv'[w].my = inv[w].my
      PROVE  LeaseInv'
  <2>1. Tenure(w)
    BY <1>2 DEF Tenure, Held, Outside, Unmarked, Unmarking, Unsealed, Asking
  <2> QED
    BY <1>a, <2>1, TenureKeeps
<1>3. ASSUME inv[w].pc \in {"mark", "commitPage", "advance"}, SameLease, Fail(w, "other")
      PROVE  LeaseInv'
  BY <1>0, <1>a, <1>3, LoopHolds, ErrorHolds DEF Loop
<1>4. CASE MarkEvidenceIntent(w)
  <2>1. inv[w].pc = "mark" /\ SameLease
    BY <1>4 DEF MarkEvidenceIntent, At, SameLease, time, hist
  <2>2. CASE inv' = [inv EXCEPT ![w] = [@ EXCEPT !.pc = "commitPage", !.evid = TRUE]]
    <3>1. inv'[w].pc = "commitPage" /\ inv'[w].my = inv[w].my
      BY <1>0, <2>2 DEF LocalInv, Locals
    <3> QED
      BY <1>2, <2>1, <3>1
  <2> QED
    BY <1>3, <1>4, <2>1, <2>2 DEF MarkEvidenceIntent
<1>5. CASE CommitPage(w)
  <2>1. inv[w].pc = "commitPage" /\ SameLease
    BY <1>5 DEF CommitPage, At, SameLease, time, hist
  <2>2. ASSUME NEW evidence \in BOOLEAN,
               inv' = [inv EXCEPT ![w] = [@ EXCEPT !.pc = "advance", !.evid = inv[w].evid \/ evidence]]
        PROVE  LeaseInv'
    <3>1. inv'[w].pc = "advance" /\ inv'[w].my = inv[w].my
      BY <1>0, <2>2 DEF LocalInv, Locals
    <3> QED
      BY <1>2, <2>1, <3>1
  <2> QED
    BY <1>3, <1>5, <2>1, <2>2 DEF CommitPage
<1>6. CASE Advance(w)
  <2>1. inv[w].pc = "advance" /\ UNCHANGED <<holders, fence>>
    BY <1>6 DEF Advance, At, time, hist
  <2>2. CASE ~PatchAllowed(w)
    BY <1>3, <1>6, <2>1, <2>2 DEF Advance, SameLease
  <2>3. CASE PatchAllowed(w)
    <3>1. cont.run = inv[w].my
      BY <1>b, <2>1 DEF Good, Leased, Held, Outside
    <3>2. SameLease
      BY <1>0, <1>6, <2>1, <2>3, <3>1 DEF Advance, PatchRow, SameLease, Continuation
    <3>3. inv'[w].pc \in {"missing", "lease"} /\ inv'[w].my = inv[w].my
      BY <1>0, <1>6, <2>3 DEF Advance, LocalInv, Locals
    <3> QED
      BY <1>2, <2>1, <3>2, <3>3
  <2> QED
    BY <2>2, <2>3
<1> QED
  BY <1>1, <1>4, <1>5, <1>6 DEF Commit

LEMMA FinishKeepsLease ==
  ASSUME Typed, LeaseInv, NEW w \in Invocations, Finish(w)
  PROVE  LeaseInv'
<1>0. inv[w] \in Locals /\ LocalInv
  BY DEF Typed, LocalInv
<1>a. \A v \in Invocations \ {w} : Kept(v)
  BY <1>0, OthersKept DEF Step
<1>1. ASSUME inv[w].pc \in {"missing", "checkpoint", "fail"}, SameLease,
             inv'[w].pc \in {"checkpoint", "clear", "failClear"}, inv'[w].my = inv[w].my,
             inv'[w].pc \notin Unmarked => inv[w].pc \notin Unmarked
      PROVE  LeaseInv'
  <2>1. Tenure(w)
    BY <1>1 DEF Tenure, Held, Outside, Unmarking, Unsealed, Asking
  <2> QED
    BY <1>a, <2>1, TenureKeeps
<1>2. ASSUME inv[w].pc \in {"checkpoint", "clear"}, SameLease, Fail(w, "other")
      PROVE  LeaseInv'
  BY <1>0, <1>a, <1>2, LoopHolds, ErrorHolds DEF Loop
<1>3. ASSUME Return(w), cont' = cont \/ (Held(w) /\ cont' = NoCont),
             UNCHANGED <<holders, fence, pages>>
      PROVE  LeaseInv'
  <2>1. inv'[w].pc = "done"
    BY <1>0, <1>3, OwnKept
  <2> QED
    BY <1>3, <1>a, <2>1, EndKeeps
<1>4. CASE PutRunCompleted(w)
  <2>1. ASSUME NEW gaps \in BOOLEAN,
               inv' = [inv EXCEPT ![w] = [@ EXCEPT !.pc = "checkpoint", !.evid = inv[w].evid \/ gaps]]
        PROVE  inv'[w].pc = "checkpoint" /\ inv'[w].my = inv[w].my
    BY <1>0, <2>1 DEF LocalInv, Locals
  <2>2. inv[w].pc = "missing" /\ SameLease
    BY <1>4 DEF PutRunCompleted, At, SameLease, time, hist
  <2> QED
    BY <1>1, <1>4, <2>1, <2>2 DEF PutRunCompleted, Outside, Unmarked
<1>5. CASE PutCheckpoint(w)
  <2>1. inv[w].pc = "checkpoint" /\ SameLease
    BY <1>5 DEF PutCheckpoint, At, SameLease, time, hist
  <2>2. CASE inv' = [v \in Invocations |->
                       IF v = w THEN [inv[v] EXCEPT !.pc = "clear"]
                       ELSE IF v \in Alive THEN [inv[v] EXCEPT !.ckptMoved = TRUE]
                       ELSE inv[v]]
    <3>1. inv'[w].pc = "clear" /\ inv'[w].my = inv[w].my
      BY <1>0, <2>2 DEF Locals
    <3> QED
      BY <1>1, <2>1, <3>1 DEF Outside, Unmarked
  <2> QED
    BY <1>2, <1>5, <2>1, <2>2 DEF PutCheckpoint
<1>6. CASE ClearContinuation(w)
  <2>1. inv[w].pc = "clear" /\ Held(w) /\ UNCHANGED <<holders, fence, pages>>
    BY <1>6 DEF ClearContinuation, At, Held, Outside, time, hist
  <2>2. CASE Fail(w, "other") /\ UNCHANGED cont
    BY <1>2, <2>1, <2>2 DEF SameLease
  <2> QED
    BY <1>3, <1>6, <2>1, <2>2 DEF ClearContinuation
<1>7. CASE PutRunFailed(w)
  <2>1. inv[w].pc = "fail" /\ SameLease /\ UNCHANGED <<cont, holders, fence, pages>>
    BY <1>7 DEF PutRunFailed, At, SameLease, time, hist
  <2>2. CASE Goto(w, "failClear")
    BY <1>0, <1>1, <2>1, <2>2, OwnKept DEF Unmarked
  <2> QED
    BY <1>3, <1>7, <2>1, <2>2 DEF PutRunFailed
<1>8. CASE ClearAfterQuota(w)
  <2>1. Held(w) /\ UNCHANGED <<holders, fence, pages>>
    BY <1>8 DEF ClearAfterQuota, At, Held, Outside, time, hist
  <2> QED
    BY <1>3, <1>8, <2>1 DEF ClearAfterQuota
<1> QED
  BY <1>4, <1>5, <1>6, <1>7, <1>8 DEF Finish

LEMMA FaultKeepsLease ==
  ASSUME Typed, LeaseInv, NEW w \in Invocations, Fault(w)
  PROVE  LeaseInv'
<1>0. inv[w] \in Locals /\ LocalInv
  BY DEF Typed, LocalInv
<1>a. \A v \in Invocations \ {w} : Kept(v)
  BY <1>0, OthersKept
<1>1. UNCHANGED <<cont, holders, fence, pages>> /\ SameLease
  BY DEF Fault, StoreThrows, Crash, SameLease, rows, time, hist
<1>2. CASE StoreThrows(w)
  <2>1. inv[w].pc \in Loop
    BY <1>2 DEF StoreThrows, Loop
  <2> QED
    BY <1>0, <1>a, <1>1, <1>2, <2>1, LoopHolds, ErrorHolds DEF StoreThrows
<1>3. CASE Crash(w)
  <2>1. inv'[w].pc = "done"
    BY <1>0, <1>3, OwnKept DEF Crash
  <2> QED
    BY <1>a, <1>1, <2>1, EndKeeps
<1> QED
  BY <1>2, <1>3 DEF Fault

\* A lease that has not been outlived runs out when nobody holds the league.
LEMMA TimeKeepsLease ==
  ASSUME Typed, LeaseInv, ~StallPastLease, Time
  PROVE  LeaseInv'
<1>0. cont \in Continuation /\ inv \in [Invocations -> Locals]
  BY DEF Typed, RowTypes, LocalInv
<1>1. UNCHANGED <<inv, pages, holders>> /\ cont'.run = cont.run
  BY <1>0 DEF Time, LeaseRunsOut, AmbiguityLapses, RunAges, rows, time, hist, Continuation
<1>2. cont'.amb = cont.amb \/ (cont'.amb = "lapsed" /\ cont.amb = "open")
  BY <1>0 DEF Time, LeaseRunsOut, AmbiguityLapses, RunAges, rows, Continuation
<1>3. ASSUME NEW w \in Invocations PROVE Good(w)'
  <2>1. Good(w)
    BY DEF LeaseInv
  <2>2. Leased(w)'
    <3>1. CASE Held(w) /\ cont' # cont
      <4>1. ~LeaseRunsOut
        BY <2>1, <3>1 DEF Good, Leased, LeaseRunsOut, Ended, Held, Outside
      <4>2. cont'.owner = cont.owner /\ cont'.live = cont.live
        BY <1>0, <3>1, <4>1 DEF Time, AmbiguityLapses, RunAges, rows, Continuation
      <4> QED
        BY <1>1, <2>1, <4>2 DEF Good, Leased, Held
    <3> QED
      BY <1>1, <2>1, <3>1 DEF Good, Leased, Held
  <2>3. Unambiguous(w)' /\ Unsealed(w)' /\ Named(w)'
    BY <1>1, <1>2, <2>1
       DEF Good, Unambiguous, Unsealed, Named, PageAt, Resumes
  <2>4. HasRead(w)'
    <3>1. cont'.amb = "open" => cont.amb = "open" /\ fence'.readers = fence.readers
      BY <1>0, <1>2
         DEF Time, LeaseRunsOut, AmbiguityLapses, RunAges, rows, hist, Continuation,
             Typed, TimeTypes
    <3> QED
      BY <1>1, <2>1, <3>1 DEF Good, HasRead, Resumes, Alive
  <2> QED
    BY <2>2, <2>3, <2>4 DEF Good
<1>4. cont'.run = NoInv => cont'.amb = "none"
  BY <1>1, <1>2 DEF LeaseInv
<1> QED
  BY <1>3, <1>4 DEF LeaseInv

LEMMA LeaseInitially == Init => LeaseInv
BY DEF Init, Fresh, NoCont, LeaseInv, Good, Leased, Unambiguous, Unsealed, Named, HasRead,
   Held, Outside, Unmarked, Unmarking, Asking, Resumes, Alive

LEMMA LeasePreserved ==
  ASSUME ~StallPastLease, Typed, LeaseInv, [Next]_vars
  PROVE  LeaseInv'
<1>1. ASSUME UNCHANGED vars PROVE LeaseInv'
  BY <1>1
     DEF vars, LeaseInv, Good, Leased, Unambiguous, Unsealed, Named, HasRead, Held,
         PageAt, Resumes, Alive
<1>2. ASSUME NEW w \in Invocations, Step(w) \/ Fault(w) PROVE LeaseInv'
  BY <1>2, RecoverKeepsLease, ElectKeepsLease, FetchKeepsLease, CommitKeepsLease,
     FinishKeepsLease, FaultKeepsLease DEF Step
<1> QED
  BY <1>1, <1>2, TimeKeepsLease DEF Next, AllEnded

LEMMA LeaseInvariance ==
  ASSUME ~StallPastLease
  PROVE  Spec => [](Typed /\ LeaseInv)
<1>1. IInv => Typed
  BY DEF IInv, Typed
<1>2. IInv /\ LeaseInv /\ [Next]_vars => LeaseInv'
  BY <1>1, LeasePreserved
<1> QED
  BY <1>1, <1>2, LeaseInitially, Invariance, PTL DEF Spec

-----------------------------------------------------------------------------
(* One request at a time, never for a sealed page, and none past the fence. *)

\* When no invocation outlives its lease, one paid request is out at a time, whoever
\* resumes, reclaims or restarts the run and whenever a worker dies.
THEOREM OneRequestAtATime ==
  ASSUME ~StallPastLease
  PROVE  Spec => []SingleRequest
<1>1. LeaseInv => SingleRequest
  BY SoleHolder DEF SingleRequest, Requesting, Held, Outside
<1> QED
  BY <1>1, LeaseInvariance, PTL

\* And it never asks for a page that is already sealed.
THEOREM NeverPaidTwice ==
  ASSUME ~StallPastLease
  PROVE  Spec => []SealedPageNotRefetched
<1>1. LeaseInv => SealedPageNotRefetched
  BY DEF SealedPageNotRefetched, Requesting, LeaseInv, Good, Unsealed, Asking
<1> QED
  BY <1>1, LeaseInvariance, PTL

\* One invocation at a time puts evidence beyond recall, and whoever begins after an
\* ambiguity was recorded gets no further than reading it.
THEOREM PublisherFenced ==
  ASSUME ~StallPastLease
  PROVE  Spec => []PublisherIsFenced
<1>1. LeaseInv => SinglePublisher
  BY SoleHolder DEF SinglePublisher, Publishing, Held, Outside
<1>2. LeaseInv => FenceStopsNewcomers
  BY DEF FenceStopsNewcomers, LeaseInv, Good, HasRead, Resumes, Alive
<1> QED
  BY <1>1, <1>2, LeaseInvariance, PTL DEF PublisherIsFenced

-----------------------------------------------------------------------------
(* How a step takes an invocation on, and what it does to the row.         *)

\* It returns or starts over, with or without deleting the row it holds;
Leaving(w) ==
  /\ inv'[w].pc \in {"due", "claim", "done"}
  /\ \/ SameLease
     \/ /\ inv[w].pc \in {"restartClear", "reclaimClear", "clear", "failClear"}
        /\ cont' = NoCont /\ UNCHANGED <<holders, fence>>
\* reads what an earlier invocation left;
Looking(w) == (Begin(w) \/ ReadDurableRun(w)) /\ UNCHANGED <<cont, holders, fence>>
\* takes the row over;
Claiming(w) ==
  /\ Claimable(w) /\ holders' = Alive
  /\ cont'.owner = w /\ cont'.live /\ cont'.run = inv'[w].my /\ cont'.amb # "open"
  /\ inv'[w].pc \in {"restartClear", "reclaimClear", "putRun"}
  /\ cont'.amb = "none" =>
       At(w, "claim") \/ (At(w, "decide") /\ inv[w].restart /\ inv[w].cont.amb = "none")
\* records that it runs;
Starting(w) ==
  /\ inv[w].pc = "putRun" /\ inv'[w].pc = "putCont" /\ inv'[w].my = inv[w].my
  /\ SameLease /\ ~Rejected(inv[w].my)'
\* extends its lease;
Extending(w) ==
  /\ inv[w].pc \in {"renew", "beating", "postRenew"} /\ inv'[w].pc \in Loop
  /\ inv'[w].my = inv[w].my
  /\ holders' = Alive /\ fence' = fence /\ cont'.run = cont.run
  /\ cont'.owner = cont.owner /\ cont'.live /\ cont'.amb = "none"
\* walks on, or records an ambiguity;
Recording(w) ==
  /\ inv[w].pc = "recordAmb" /\ inv'[w].pc = "fail" /\ inv'[w].why = "ambiguous"
  /\ cont'.run = cont.run /\ cont'.owner = cont.owner /\ cont'.live = cont.live
  /\ cont'.amb = "open" /\ holders' = holders
Going(w) ==
  /\ Walking(w) /\ inv[w].pc # "putRun" /\ inv'[w].my = inv[w].my
  /\ inv'[w].pc \in Loop \cup {"fail"}
  /\ inv'[w].pc \notin Renewing => inv[w].pc \notin Renewing
  /\ SameLease \/ Recording(w)
\* or is done with its pages.
Finishing(w) ==
  /\ inv[w].pc \in After /\ inv'[w].pc \in After /\ inv'[w].my = inv[w].my
  /\ SameLease /\ (inv[w].pc = "fail" => inv[w].why = "quota")

Moving(w) == \/ Leaving(w) \/ Looking(w) \/ Claiming(w) \/ Starting(w)
             \/ Extending(w) \/ Going(w) \/ Finishing(w)

\* An error ends the walk.
LEMMA ErrorMoves ==
  ASSUME LocalInv, NEW w \in Invocations, NEW why, SameLease,
         \/ Fail(w, why) /\ inv[w].pc \in Loop
         \/ Settle(w, why) /\ inv[w].pc \in Loop \ (Renewing \cup After)
  PROVE  Moving(w)
<1>1. Going(w) \/ Finishing(w)
  BY OwnKept DEF Going, Finishing, Walking, Loop, Started, Outside, After, Walked, Renewing
<1> QED
  BY <1>1 DEF Moving

LEMMA RecoverMoves ==
  ASSUME Typed, LeaseInv, NEW w \in Invocations, Recover(w)
  PROVE  Moving(w)
<1>0. inv[w] \in Locals /\ LocalInv /\ cont \in Continuation /\ inv[w].cont \in Continuation
  BY DEF Typed, LocalInv, RowTypes, Locals
<1>1. CASE Begin(w) \/ ReadDurableRun(w)
  <2>1. Looking(w)
    BY <1>1 DEF Looking, Begin, ReadDurableRun, rows, time, hist
  <2> QED
    BY <2>1 DEF Moving
<1>2. ASSUME Return(w), UNCHANGED <<cont, holders, fence>> PROVE Moving(w)
  <2>1. Leaving(w)
    BY <1>0, <1>2, OwnKept DEF Leaving, SameLease
  <2> QED
    BY <2>1 DEF Moving
<1>3. ASSUME At(w, "decide"), Claimable(w), ClaimRow(w, inv[w].cont), fence' = fence,
             NEW pc \in {"restartClear", "reclaimClear"}, Goto(w, pc),
             inv[w].cont.amb # "open", inv[w].cont.amb = "none" => inv[w].restart
      PROVE  Moving(w)
  <2>1. inv'[w].pc = pc /\ inv'[w].my = inv[w].my
    BY <1>0, <1>3, OwnKept
  <2>2. inv[w].cont.run = inv[w].my
    BY <1>3 DEF At, LeaseInv, Good, Named, Resumes
  <2>3. /\ cont'.owner = w /\ cont'.live /\ cont'.run = inv[w].cont.run
        /\ cont'.amb = inv[w].cont.amb /\ holders' = Alive
    BY <1>0, <1>3 DEF ClaimRow, Continuation
  <2>4. Claiming(w)
    BY <1>3, <2>1, <2>2, <2>3 DEF Claiming
  <2> QED
    BY <2>4 DEF Moving
<1>4. CASE RestartTerminalCursor(w)
  BY <1>2, <1>3, <1>4 DEF RestartTerminalCursor, hist
<1>5. CASE ReclaimAmbiguity(w)
  BY <1>2, <1>3, <1>5 DEF ReclaimAmbiguity, hist
<1>6. CASE FencedByAmbiguity(w)
  BY <1>2, <1>6 DEF FencedByAmbiguity, rows, time, hist
<1>7. CASE RestartClear(w)
  <2>1. inv'[w].pc \in {"due", "done"}
    BY <1>0, <1>7, OwnKept DEF RestartClear, LocalInv, Fresh
  <2>2. Leaving(w)
    BY <1>7, <2>1 DEF RestartClear, At, Leaving, SameLease, time, hist
  <2> QED
    BY <2>2 DEF Moving
<1>8. CASE ReclaimClear(w)
  <2>1. inv'[w].pc = "done"
    BY <1>0, <1>8, OwnKept DEF ReclaimClear
  <2>2. Leaving(w)
    BY <1>8, <2>1 DEF ReclaimClear, At, Leaving, SameLease, time, hist
  <2> QED
    BY <2>2 DEF Moving
<1> QED
  BY <1>1, <1>4, <1>5, <1>6, <1>7, <1>8 DEF Recover

LEMMA ElectMoves ==
  ASSUME Typed, LeaseInv, NEW w \in Invocations, Elect(w)
  PROVE  Moving(w)
<1>0. inv[w] \in Locals /\ LocalInv /\ cont \in Continuation /\ inv[w].cont \in Continuation
  BY DEF Typed, LocalInv, RowTypes, Locals
<1>1. ASSUME inv'[w].pc \in {"claim", "done"}, UNCHANGED <<cont, holders, fence>>
      PROVE Moving(w)
  <2>1. Leaving(w)
    BY <1>1 DEF Leaving, SameLease
  <2> QED
    BY <2>1 DEF Moving
<1>2. CASE Admitted(w)
  BY <1>0, <1>1, <1>2 DEF Admitted, LocalInv, Locals, rows, time, hist
<1>3. ASSUME Return(w), UNCHANGED <<cont, holders, fence>> PROVE Moving(w)
  BY <1>0, <1>1, <1>3, OwnKept
<1>4. CASE TurnedAway(w) \/ QuotaReserveSkip(w) \/ (Claim(w) /\ ~Claimable(w))
  BY <1>3, <1>4 DEF TurnedAway, QuotaReserveSkip, Claim, rows, time, hist
<1>5. CASE Claim(w) /\ Claimable(w)
  <2> DEFINE row == ClaimValue(w)
  <2>1. row \in Continuation /\ row.amb = "none"
    BY <1>0, <1>5, Types
       DEF ClaimValue, Continuation, MaybeInv, NoCont, LeaseInv, Good, Unambiguous,
           Unmarking, Claim, At
  <2>2. inv'[w].pc = "putRun" /\ inv'[w].my = row.run
    BY <1>0, <1>5 DEF Claim, Fresh, LocalInv
  <2>3. ClaimRow(w, row) /\ fence' = fence /\ At(w, "claim")
    BY <1>5 DEF Claim
  <2> HIDE DEF row
  <2>4. /\ cont'.owner = w /\ cont'.live /\ cont'.run = row.run /\ cont'.amb = "none"
        /\ holders' = Alive
    BY <2>1, <2>3 DEF ClaimRow, Continuation
  <2>5. Claiming(w)
    BY <1>5, <2>2, <2>3, <2>4 DEF Claiming
  <2> QED
    BY <2>5 DEF Moving
<1>6. CASE PutRunRunning(w)
  <2>1. /\ inv[w].pc = "putRun" /\ inv'[w].pc = "putCont" /\ inv'[w].my = inv[w].my
        /\ SameLease
    BY <1>0, <1>6 DEF PutRunRunning, At, SameLease, LocalInv, Locals, time, hist
  <2>2. inv[w].my \in Invocations
    BY <2>1 DEF Typed, LocalInv, Sound, Runless
  <2>3. runs'[inv[w].my].status = "running"
    BY <1>6, <2>2 DEF PutRunRunning, WriteRun, Typed, RowTypes
  <2>4. ~Rejected(inv[w].my)'
    BY <2>1, <2>3 DEF Rejected
  <2>5. Starting(w)
    BY <2>1, <2>4 DEF Starting
  <2> QED
    BY <2>5 DEF Moving
<1>7. CASE PutContinuation(w)
  <2>1. CASE PatchRow(w) /\ Goto(w, "lease")
    <3>1. inv'[w].my = inv[w].my /\ inv[w].pc = "putCont" /\ inv'[w].pc = "lease"
      BY <1>0, <1>7, <2>1, OwnKept DEF PutContinuation, At
    <3>2. cont.run = inv[w].my
      BY <3>1 DEF LeaseInv, Good, Leased, Held, Outside
    <3>3. SameLease
      BY <1>0, <1>7, <2>1, <3>2 DEF SameLease, PatchRow, PutContinuation, Continuation,
         time, hist
    <3>4. Going(w)
      BY <3>1, <3>3 DEF Going, Walking, Started, Outside, After, Walked, Loop, Renewing
    <3> QED
      BY <3>4 DEF Moving
  <2>2. UNCHANGED <<holders, fence>>
    BY <1>7 DEF PutContinuation, time, hist
  <2> QED
    BY <1>7, <1>3, <2>1, <2>2 DEF PutContinuation
<1> QED
  BY <1>2, <1>4, <1>5, <1>6, <1>7 DEF Elect

\* From one state of the page loop to another under an unchanged lease.
LEMMA LoopMoves ==
  ASSUME NEW w \in Invocations, inv[w].pc \in Loop, inv'[w].pc \in Loop,
         inv'[w].my = inv[w].my, SameLease,
         inv[w].pc \in After => inv'[w].pc \in After,
         inv'[w].pc \in Renewing \/ inv[w].pc \notin Renewing
  PROVE  Moving(w)
<1>1. Going(w) \/ Finishing(w)
  BY DEF Going, Finishing, Walking, Loop, Started, Outside, After, Walked
<1> QED
  BY <1>1 DEF Moving

LEMMA LeaseCheckMoves ==
  ASSUME Typed, NEW w \in Invocations, NEW pc \in Loop \ After, NEW next \in Loop,
         next \in Renewing \/ pc \notin Renewing,
         LeaseCheck(w, pc, next) \/ (LeaseLost(w, pc) /\ pc \in {"lease", "commitCheck",
                                                                "postCheck", "fetching"})
  PROVE  Moving(w)
<1>1. inv[w] \in Locals /\ LocalInv /\ inv[w].pc = pc
  BY DEF Typed, LocalInv, LeaseCheck, LeaseLost, At
<1>2. SameLease
  BY DEF LeaseCheck, LeaseLost, SameLease, rows, time, hist
<1>3. CASE LeaseCheck(w, pc, next)
  <2>1. inv'[w].pc = next /\ inv'[w].my = inv[w].my
    BY <1>1, <1>3 DEF LeaseCheck, LocalInv, Locals
  <2> QED
    BY <1>1, <1>2, <2>1, LoopMoves
<1>4. CASE LeaseLost(w, pc) /\ pc \in {"lease", "commitCheck", "postCheck", "fetching"}
  <2>1. pc \in {"lease", "commitCheck"} \/ pc \in Loop \ (Renewing \cup After)
    BY <1>4 DEF Renewing, Loop, Started, Outside, After, Walked
  <2> QED
    BY <1>1, <1>2, <1>4, <2>1, ErrorMoves DEF LeaseLost
<1> QED
  BY <1>3, <1>4

LEMMA RenewMoves ==
  ASSUME Typed, LeaseInv, NEW w \in Invocations,
         NEW pc \in {"renew", "beating", "postRenew"}, NEW next \in Loop, Renew(w, pc, next)
  PROVE  Moving(w)
<1>1. inv[w] \in Locals /\ LocalInv /\ inv[w].pc = pc /\ Good(w) /\ fence' = fence
  BY DEF Typed, LocalInv, Renew, At, LeaseInv, hist
<1>2. Held(w) /\ cont.amb = "none" /\ inv[w].cont.amb = "none"
  BY <1>1 DEF Good, Unambiguous, Held, Outside, Unmarked, Unmarking
<1>3. cont.run = inv[w].my /\ cont.owner = w
  BY <1>1, <1>2 DEF Good, Leased
<1>4. CASE RenewAllowed(w)
  <2>1. /\ cont'.run = inv[w].my /\ cont'.owner = w /\ cont'.live /\ cont'.amb = "none"
        /\ holders' = Alive
    BY <1>2, <1>4 DEF Renew, RenewRow
  <2>2. inv'[w].pc = next /\ inv'[w].my = inv[w].my
    BY <1>1, <1>4 DEF Renew, LocalInv, Locals
  <2>3. Extending(w)
    BY <1>1, <1>3, <2>1, <2>2 DEF Extending
  <2> QED
    BY <2>3 DEF Moving
<1>5. CASE ~RenewAllowed(w)
  <2>1. SameLease
    BY <1>1, <1>5 DEF Renew, SameLease
  <2>2. pc \in Loop /\ (pc # "renew" => pc \notin Renewing \cup After)
    BY DEF Loop, Renewing, Started, Outside, After, Walked
  <2> QED
    BY <1>1, <1>5, <2>1, <2>2, ErrorMoves DEF Renew
<1> QED
  BY <1>4, <1>5

LEMMA FetchMoves ==
  ASSUME Typed, LeaseInv, NEW w \in Invocations, Fetch(w) \/ Heartbeat(w)
  PROVE  Moving(w)
<1>0. inv[w] \in Locals /\ cont \in Continuation /\ LocalInv
  BY DEF Typed, LocalInv, RowTypes
<1>1. CASE \/ LeaseCheck(w, "lease", "renew") \/ LeaseLost(w, "lease")
           \/ LeaseCheck(w, "postCheck", "postRenew") \/ LeaseLost(w, "postCheck")
           \/ LeaseCheck(w, "fetching", "beating") \/ LeaseLost(w, "fetching")
  <2>1. /\ {"lease", "postCheck", "fetching"} \subseteq Loop \ After
        /\ {"renew", "postRenew", "beating"} \subseteq Loop
        /\ "renew" \in Renewing /\ "postCheck" \notin Renewing /\ "fetching" \notin Renewing
    BY DEF Loop, Renewing, Started, Outside, After, Walked
  <2> QED
    BY <1>1, <2>1, LeaseCheckMoves
<1>2. CASE Renew(w, "renew", "getPage") \/ Renew(w, "postRenew", "seal")
             \/ Renew(w, "beating", "fetching")
  BY <1>2, RenewMoves DEF Loop
<1>3. ASSUME NEW from \in {"getPage", "dispatch", "fetching", "seal", "settle"},
             inv[w].pc = from, SameLease,
             NEW next \in {"dispatch", "fetching", "postCheck", "commitCheck", "advance",
                           "recordAmb"},
             inv'[w].pc = next, inv'[w].my = inv[w].my
      PROVE  Moving(w)
  <2>1. from \in Loop \ (Renewing \cup After) /\ next \in Loop
    BY DEF Loop, Renewing, Started, Outside, After, Walked
  <2> QED
    BY <1>3, <2>1, LoopMoves
<1>4. ASSUME NEW from \in {"getPage", "dispatch", "fetching", "seal", "settle", "recordAmb"},
             inv[w].pc = from, SameLease, NEW why, Fail(w, why) \/ Settle(w, why)
      PROVE  Moving(w)
  <2>1. from \in Loop \ (Renewing \cup After)
    BY DEF Loop, Renewing, Started, Outside, After, Walked
  <2> QED
    BY <1>0, <1>4, <2>1, ErrorMoves
<1>5. CASE GetPage(w)
  <2>1. /\ inv'[w].pc = AfterGet(PageAt(w)) /\ inv'[w].my = inv[w].my
        /\ inv[w].pc = "getPage" /\ SameLease
    BY <1>0, <1>5 DEF GetPage, At, LocalInv, Locals, SameLease, rows, time, hist
  <2> QED
    BY <1>3, <2>1 DEF AfterGet, AfterSeal
<1>6. CASE QuotaRefused(w) \/ ProviderFails(w)
  BY <1>4, <1>6 DEF QuotaRefused, ProviderFails, At, SameLease, rows, time, hist
<1>7. CASE Dispatch(w) \/ ProviderAnswers(w)
  BY <1>0, <1>3, <1>7, OwnKept
     DEF Dispatch, ProviderAnswers, At, SameLease, rows, time, hist
<1>8. CASE Seal(w)
  <2>1. inv[w].pc = "seal" /\ SameLease
    BY <1>8 DEF Seal, At, SameLease, time, hist
  <2>2. ASSUME NEW c, inv' = [inv EXCEPT ![w] = [@ EXCEPT !.pc = "commitCheck",
                                !.sealed = [NoPage EXCEPT !.content = c]]]
        PROVE  Moving(w)
    <3>1. inv'[w].pc = "commitCheck" /\ inv'[w].my = inv[w].my
      BY <1>0, <2>2 DEF LocalInv, Locals
    <3> QED
      BY <1>3, <2>1, <3>1
  <2> QED
    BY <1>4, <1>8, <2>1, <2>2 DEF Seal
<1>9. CASE SettleRequest(w)
  <2>1. inv[w].pc = "settle" /\ SameLease
    BY <1>9 DEF SettleRequest, At, SameLease, rows, time, hist
  <2>2. CASE inv' = [inv EXCEPT ![w] = [@ EXCEPT !.sealed = PageAt(w), !.why = "none",
                                                 !.pc = AfterSeal(PageAt(w))]]
    <3>1. inv'[w].pc = AfterSeal(PageAt(w)) /\ inv'[w].my = inv[w].my
      BY <1>0, <2>2 DEF LocalInv, Locals
    <3> QED
      BY <1>3, <2>1, <3>1 DEF AfterSeal
  <2>3. CASE Goto(w, "recordAmb")
    BY <1>0, <1>3, <2>1, <2>3, OwnKept
  <2> QED
    BY <1>4, <1>9, <2>1, <2>2, <2>3 DEF SettleRequest
<1>10. CASE RecordAmbiguity(w)
  <2>1. inv[w].pc = "recordAmb" /\ holders' = holders
    BY <1>10 DEF RecordAmbiguity, At, time
  <2>2. CASE ~Mine(w)
    <3>1. SameLease
      BY <1>10, <2>2 DEF RecordAmbiguity, SameLease, time
    <3> QED
      BY <1>4, <1>10, <2>1, <2>2, <3>1 DEF RecordAmbiguity
  <2>3. CASE Mine(w)
    <3>1. cont.amb = "none"
      BY <2>1 DEF LeaseInv, Good, Unambiguous, Unmarked, Outside
    <3>2. cont' = [cont EXCEPT !.evid = inv[w].evid,
                               !.amb = IF @ = "none" THEN "open" ELSE @]
      BY <1>10, <2>3 DEF RecordAmbiguity
    <3>4. /\ cont'.run = cont.run /\ cont'.owner = cont.owner /\ cont'.live = cont.live
          /\ cont'.amb = "open"
      BY <1>0, <3>1, <3>2 DEF Continuation
    <3>3. /\ inv'[w].pc = "fail" /\ inv'[w].my = inv[w].my /\ inv'[w].why = "ambiguous"
      BY <1>0, <1>10, <2>3, OwnKept DEF RecordAmbiguity
    <3>5. Going(w)
      BY <2>1, <3>3, <3>4
         DEF Going, Recording, Walking, Started, Outside, After, Walked, Renewing
    <3> QED
      BY <3>5 DEF Moving
  <2> QED
    BY <2>2, <2>3
<1> QED
  BY <1>1, <1>2, <1>5, <1>6, <1>7, <1>8, <1>9, <1>10 DEF Fetch, Heartbeat

LEMMA CommitMoves ==
  ASSUME Typed, LeaseInv, NEW w \in Invocations, Commit(w)
  PROVE  Moving(w)
<1>0. inv[w] \in Locals /\ cont \in Continuation /\ LocalInv
  BY DEF Typed, LocalInv, RowTypes
<1>1. CASE BeginCommit(w) \/ LeaseLost(w, "commitCheck")
  <2>1. /\ "commitCheck" \in Loop \ After /\ {"mark", "commitPage"} \subseteq Loop
        /\ {"mark", "commitPage"} \subseteq Renewing
    BY DEF Loop, Renewing, After, Walked
  <2> QED
    BY <1>1, <2>1, LeaseCheckMoves DEF BeginCommit
<1>2. ASSUME NEW from \in {"mark", "commitPage", "advance"}, inv[w].pc = from, SameLease,
             \/ /\ inv'[w].pc \in {"commitPage", "advance", "missing", "lease"}
                /\ inv'[w].my = inv[w].my
             \/ Fail(w, "other")
      PROVE  Moving(w)
  <2>1. from \in Loop \ After
    BY DEF Loop, After, Walked
  <2>2. CASE Fail(w, "other")
    BY <1>0, <1>2, <2>1, <2>2, ErrorMoves
  <2>3. CASE /\ inv'[w].pc \in {"commitPage", "advance", "missing", "lease"}
             /\ inv'[w].my = inv[w].my
    <3>1. inv'[w].pc \in Loop \cap Renewing
      BY <2>3 DEF Loop, Renewing, After, Walked
    <3> QED
      BY <1>2, <2>1, <2>3, <3>1, LoopMoves
  <2> QED
    BY <1>2, <2>2, <2>3
<1>3. CASE MarkEvidenceIntent(w)
  <2>1. inv[w].pc = "mark" /\ SameLease
    BY <1>3 DEF MarkEvidenceIntent, At, SameLease, time, hist
  <2>2. CASE inv' = [inv EXCEPT ![w] = [@ EXCEPT !.pc = "commitPage", !.evid = TRUE]]
    <3>1. inv'[w].pc = "commitPage" /\ inv'[w].my = inv[w].my
      BY <1>0, <2>2 DEF LocalInv, Locals
    <3> QED
      BY <1>2, <2>1, <3>1
  <2> QED
    BY <1>2, <1>3, <2>1, <2>2 DEF MarkEvidenceIntent
<1>4. CASE CommitPage(w)
  <2>1. inv[w].pc = "commitPage" /\ SameLease
    BY <1>4 DEF CommitPage, At, SameLease, time, hist
  <2>2. ASSUME NEW evidence \in BOOLEAN,
               inv' = [inv EXCEPT ![w] = [@ EXCEPT !.pc = "advance", !.evid = inv[w].evid \/ evidence]]
        PROVE  Moving(w)
    <3>1. inv'[w].pc = "advance" /\ inv'[w].my = inv[w].my
      BY <1>0, <2>2 DEF LocalInv, Locals
    <3> QED
      BY <1>2, <2>1, <3>1
  <2> QED
    BY <1>2, <1>4, <2>1, <2>2 DEF CommitPage
<1>5. CASE Advance(w)
  <2>1. inv[w].pc = "advance" /\ UNCHANGED <<holders, fence>>
    BY <1>5 DEF Advance, At, time, hist
  <2>2. CASE ~PatchAllowed(w)
    BY <1>2, <1>5, <2>1, <2>2 DEF Advance, SameLease
  <2>3. CASE PatchAllowed(w)
    <3>1. cont.run = inv[w].my
      BY <2>1 DEF LeaseInv, Good, Leased, Held, Outside
    <3>2. SameLease
      BY <1>0, <1>5, <2>1, <2>3, <3>1 DEF Advance, PatchRow, SameLease, Continuation
    <3>3. inv'[w].pc \in {"missing", "lease"} /\ inv'[w].my = inv[w].my
      BY <1>0, <1>5, <2>3 DEF Advance, LocalInv, Locals
    <3> QED
      BY <1>2, <2>1, <3>2, <3>3
  <2> QED
    BY <2>2, <2>3
<1> QED
  BY <1>1, <1>3, <1>4, <1>5 DEF Commit

LEMMA FinishMoves ==
  ASSUME Typed, LeaseInv, NEW w \in Invocations, Finish(w)
  PROVE  Moving(w)
<1>0. inv[w] \in Locals /\ LocalInv
  BY DEF Typed, LocalInv
<1>1. ASSUME NEW from \in {"missing", "checkpoint", "clear"}, inv[w].pc = from, SameLease,
             \/ inv'[w].pc \in {"checkpoint", "clear"} /\ inv'[w].my = inv[w].my
             \/ Fail(w, "other")
      PROVE  Moving(w)
  <2>1. from \in Loop \cap After
    BY DEF Loop, After, Walked
  <2>2. CASE Fail(w, "other")
    BY <1>0, <1>1, <2>1, <2>2, ErrorMoves
  <2>3. CASE inv'[w].pc \in {"checkpoint", "clear"} /\ inv'[w].my = inv[w].my
    <3>1. inv'[w].pc \in Loop \cap After \cap Renewing
      BY <2>3 DEF Loop, After, Walked, Renewing
    <3> QED
      BY <1>1, <2>1, <2>3, <3>1, LoopMoves
  <2> QED
    BY <1>1, <2>2, <2>3
<1>2. ASSUME inv'[w].pc = "done",
             SameLease \/ (inv[w].pc \in {"clear", "failClear"} /\ cont' = NoCont
                             /\ UNCHANGED <<holders, fence>>)
      PROVE  Moving(w)
  <2>1. Leaving(w)
    BY <1>2 DEF Leaving
  <2> QED
    BY <2>1 DEF Moving
<1>3. CASE PutRunCompleted(w)
  <2>1. ASSUME NEW gaps \in BOOLEAN,
               inv' = [inv EXCEPT ![w] = [@ EXCEPT !.pc = "checkpoint", !.evid = inv[w].evid \/ gaps]]
        PROVE  inv'[w].pc = "checkpoint" /\ inv'[w].my = inv[w].my
    BY <1>0, <2>1 DEF LocalInv, Locals
  <2>2. inv[w].pc = "missing" /\ SameLease
    BY <1>3 DEF PutRunCompleted, At, SameLease, time, hist
  <2> QED
    BY <1>1, <1>3, <2>1, <2>2 DEF PutRunCompleted
<1>4. CASE PutCheckpoint(w)
  <2>1. inv[w].pc = "checkpoint" /\ SameLease
    BY <1>4 DEF PutCheckpoint, At, SameLease, time, hist
  <2>2. CASE inv' = [v \in Invocations |->
                       IF v = w THEN [inv[v] EXCEPT !.pc = "clear"]
                       ELSE IF v \in Alive THEN [inv[v] EXCEPT !.ckptMoved = TRUE]
                       ELSE inv[v]]
    <3>1. inv'[w].pc = "clear" /\ inv'[w].my = inv[w].my
      BY <1>0, <2>2 DEF Locals
    <3> QED
      BY <1>1, <2>1, <3>1
  <2> QED
    BY <1>1, <1>4, <2>1, <2>2 DEF PutCheckpoint
<1>5. CASE ClearContinuation(w)
  <2>1. inv[w].pc = "clear" /\ UNCHANGED <<holders, fence>>
    BY <1>5 DEF ClearContinuation, At, time, hist
  <2>2. CASE Fail(w, "other") /\ UNCHANGED cont
    BY <1>1, <2>1, <2>2 DEF SameLease
  <2>3. CASE Return(w) /\ cont' = NoCont
    BY <1>0, <1>2, <2>1, <2>3, OwnKept
  <2> QED
    BY <1>5, <2>2, <2>3 DEF ClearContinuation
<1>6. CASE PutRunFailed(w)
  <2>1. inv[w].pc = "fail" /\ SameLease
    BY <1>6 DEF PutRunFailed, At, SameLease, time, hist
  <2>2. CASE Goto(w, "failClear") /\ inv[w].why = "quota"
    <3>1. Finishing(w)
      BY <1>0, <2>1, <2>2, OwnKept DEF Finishing, After
    <3> QED
      BY <3>1 DEF Moving
  <2>3. CASE Return(w)
    BY <1>0, <1>2, <2>1, <2>3, OwnKept
  <2> QED
    BY <1>6, <2>2, <2>3 DEF PutRunFailed
<1>7. CASE ClearAfterQuota(w)
  <2>1. inv'[w].pc = "done"
    BY <1>0, <1>7, OwnKept DEF ClearAfterQuota
  <2> QED
    BY <1>2, <1>7, <2>1 DEF ClearAfterQuota, At, SameLease, time, hist
<1> QED
  BY <1>3, <1>4, <1>5, <1>6, <1>7 DEF Finish

LEMMA FaultMoves ==
  ASSUME Typed, LeaseInv, NEW w \in Invocations, Fault(w)
  PROVE  Moving(w)
<1>0. LocalInv /\ SameLease
  BY DEF Typed, Fault, StoreThrows, Crash, SameLease, rows, time, hist
<1>1. CASE StoreThrows(w)
  <2>1. /\ inv[w].pc \in Loop
        /\ inv[w].pc \in {"postCheck", "postRenew", "seal"}
             => inv[w].pc \in Loop \ (Renewing \cup After)
    BY <1>1 DEF StoreThrows, Loop, Renewing, Started, Outside, After, Walked
  <2> QED
    BY <1>0, <1>1, <2>1, ErrorMoves DEF StoreThrows
<1>2. CASE Crash(w)
  <2>1. Leaving(w)
    BY <1>0, <1>2, OwnKept DEF Crash, Leaving
  <2> QED
    BY <2>1 DEF Moving
<1> QED
  BY <1>1, <1>2 DEF Fault

LEMMA StepMoves ==
  ASSUME Typed, LeaseInv, NEW w \in Invocations, Step(w) \/ Fault(w)
  PROVE  Moving(w)
BY RecoverMoves, ElectMoves, FetchMoves, CommitMoves, FinishMoves, FaultMoves DEF Step

\* A run becomes rejected only when its owner fails for its cursor.
LEMMA RejectedByOwner ==
  ASSUME Typed, NEW w \in Invocations, Step(w) \/ Fault(w), NEW r \in Invocations,
         Rejected(r)'
  PROVE  \/ Rejected(r)
         \/ At(w, "fail") /\ inv[w].my = r /\ inv[w].why = "cursor"
<1>0. runs \in [Invocations -> RunRow]
  BY DEF Typed, RowTypes
<1>1. CASE UNCHANGED runs
  BY <1>1 DEF Rejected
<1>2. ASSUME NEW status, NEW evid, NEW cursor, WriteRun(w, status, evid, cursor)
      PROVE  Rejected(r) \/ (inv[w].my = r /\ status = "failed" /\ cursor)
  BY <1>0, <1>2 DEF Rejected, WriteRun
<1>3. CASE LatchRun(w)
  BY <1>0, <1>3 DEF Rejected, LatchRun, RunRow
<1>4. CASE ReadDurableRun(w)
  <2>1. WriteRun(w, Row(w).status, TRUE, Row(w).cursor) => Rejected(r)
    <3> DEFINE row == [status |-> Row(w).status, evid |-> TRUE, cursor |-> Row(w).cursor]
    <3>1. row.status = Row(w).status /\ row.cursor = Row(w).cursor
      OBVIOUS
    <3>2. WriteRun(w, Row(w).status, TRUE, Row(w).cursor)
            => runs' = [runs EXCEPT ![inv[w].my] = row]
      BY DEF WriteRun
    <3> HIDE DEF row
    <3> QED
      BY <1>0, <3>1, <3>2 DEF Rejected, Row
  <2> QED
    BY <1>1, <1>4, <2>1 DEF ReadDurableRun
<1>5. CASE Recover(w) /\ ~ReadDurableRun(w)
  BY <1>1, <1>5 DEF Recover, Begin, RestartTerminalCursor, RestartClear, ReclaimAmbiguity,
     ReclaimClear, FencedByAmbiguity, rows
<1>6. CASE QuotaReserveSkip(w)
  BY <1>0, <1>6 DEF QuotaReserveSkip, Rejected, NoRun
<1>7. CASE PutRunRunning(w)
  BY <1>2, <1>7 DEF PutRunRunning
<1>8. CASE Elect(w) /\ ~QuotaReserveSkip(w) /\ ~PutRunRunning(w)
  BY <1>1, <1>8 DEF Elect, Admitted, TurnedAway, Claim, PutContinuation, rows
<1>9. CASE Fetch(w) \/ Heartbeat(w)
  BY <1>1, <1>9 DEF Fetch, Heartbeat, LeaseCheck, LeaseLost, Renew, GetPage, QuotaRefused,
     Dispatch, ProviderAnswers, ProviderFails, Seal, SettleRequest, RecordAmbiguity, rows
<1>10. CASE Commit(w)
  BY <1>1, <1>3, <1>10 DEF Commit, BeginCommit, LeaseCheck, LeaseLost, MarkEvidenceIntent,
     CommitPage, Advance, rows
<1>11. CASE PutRunCompleted(w)
  BY <1>2, <1>11 DEF PutRunCompleted
<1>12. CASE PutRunFailed(w)
  BY <1>2, <1>12 DEF PutRunFailed
<1>13. CASE Finish(w) /\ ~PutRunCompleted(w) /\ ~PutRunFailed(w)
  BY <1>1, <1>13 DEF Finish, PutCheckpoint, ClearContinuation, ClearAfterQuota
<1>14. CASE Fault(w)
  BY <1>1, <1>14 DEF Fault, StoreThrows, Crash, rows
<1> QED
  BY <1>4, <1>5, <1>6, <1>7, <1>8, <1>9, <1>10, <1>11, <1>12, <1>13, <1>14 DEF Step

-----------------------------------------------------------------------------
(* RestartInv.                                                             *)

\* Whoever looks has read the row as it stands, or the run as it stands.
LEMMA LookingMoves ==
  ASSUME Typed, NEW w \in Invocations, Looking(w)
  PROVE  /\ ~Held(w) /\ ~Held(w)'
         /\ \/ ~Resumes(w)'
            \/ At(w, "readRun")' /\ inv'[w].my = cont.run /\ inv'[w].cont = cont
            \/ /\ Resumes(w) /\ inv'[w].my = inv[w].my /\ inv'[w].cont = inv[w].cont
               /\ inv'[w].restart => Rejected(inv[w].my)
<1>1. inv[w] \in Locals /\ LocalInv
  BY DEF Typed, LocalInv
<1>2. CASE Begin(w)
  <2>1. /\ inv'[w].my = cont.run /\ inv'[w].cont = cont
        /\ inv'[w].pc \in {"due", "readRun"}
    BY <1>1, <1>2 DEF Begin, LocalInv, Locals
  <2>2. inv[w].pc = "idle"
    BY <1>2 DEF Begin, At
  <2> QED
    BY <2>1, <2>2 DEF At, Held, Outside, Resumes
<1>3. CASE ReadDurableRun(w)
  <2>1. /\ inv'[w].pc = "decide" /\ inv'[w].my = inv[w].my /\ inv'[w].cont = inv[w].cont
        /\ inv'[w].restart => Rejected(inv[w].my)
    BY <1>1, <1>3 DEF ReadDurableRun, LocalInv, Locals, Row, Rejected
  <2>2. inv[w].pc = "readRun"
    BY <1>3 DEF ReadDurableRun, At
  <2> QED
    BY <2>1, <2>2 DEF Held, Outside, Resumes
<1> QED
  BY <1>2, <1>3 DEF Looking

\* Under somebody else's lease a step only looks, or returns.
LEMMA Bystands ==
  ASSUME LeaseInv, NEW v \in Invocations, NEW w \in Invocations \ {v}, Held(v), Moving(w)
  PROVE  /\ ~Held(w)
         /\ Looking(w) \/ (Leaving(w) /\ SameLease)
         /\ cont'.owner = cont.owner /\ cont'.live = cont.live /\ cont'.run = cont.run
         /\ cont'.amb = cont.amb /\ holders' = holders
<1>1. ~Held(w) /\ ~Claimable(w)
  BY SoleHolder
<1>2. ~Starting(w) /\ ~Extending(w) /\ ~Going(w) /\ ~Finishing(w) /\ ~Claiming(w)
  BY <1>1 DEF Held, Starting, Extending, Going, Walking, Started, Finishing, Claiming,
     Outside, After, Walked
<1>3. Leaving(w) => SameLease
  BY <1>1 DEF Leaving, Held, Outside
<1> QED
  BY <1>1, <1>2, <1>3 DEF Moving, Looking, SameLease

\* While an ambiguity is on record, a step only looks, returns or claims the row.
LEMMA Stands ==
  ASSUME NEW w \in Invocations, Reported(w), Moving(w), cont.amb = "open"
  PROVE  \/ Looking(w) \/ Claiming(w)
         \/ Leaving(w) /\ SameLease
<1>1. ~Starting(w) /\ ~Extending(w) /\ ~Going(w) /\ ~Finishing(w)
  BY DEF Reported, At, Held, Starting, Extending, Going, Walking, Started, Finishing,
     Outside, After, Walked
<1>2. Leaving(w) => SameLease
  BY DEF Reported, At, Leaving, Held, Outside
<1> QED
  BY <1>1, <1>2 DEF Moving

\* Those who watch the holder go on doing so when another invocation moves.
LEMMA OthersWatched ==
  ASSUME Typed, LeaseInv, RestartInv, NEW w \in Invocations, Step(w) \/ Fault(w),
         NEW v \in Invocations \ {w}
  PROVE  Watched(v)' /\ Reported(v)'
<1>1. Moving(w) /\ Kept(v)
  BY StepMoves, OthersKept DEF Typed
<1>2. Watched(v) /\ Reported(v)
  BY DEF RestartInv
<1>3. CASE ~Held(v)
  <2>1. inv'[v].pc \in Outside
    BY <1>1, <1>3 DEF Kept, Held
  <2> QED
    BY <2>1 DEF Watched, Reported, Walking, Started, Renewing, Held, At
<1>4. CASE Held(v)
  <2>1. /\ ~Held(w)
        /\ Looking(w) \/ (Leaving(w) /\ SameLease)
        /\ cont'.run = cont.run /\ cont'.amb = cont.amb /\ holders' = holders
    BY <1>1, <1>4, Bystands
  <2>2. cont.run \in Invocations
    BY <1>4 DEF LeaseInv, Good, Leased, Held, Outside, Typed, LocalInv, Sound, Runless
  <2>3. Rejected(cont.run)' => Rejected(cont.run)
    <3>1. PICK r \in Invocations : r = cont.run
      BY <2>2
    <3>2. ~At(w, "fail")
      BY <2>1 DEF At, Held, Outside
    <3>3. Rejected(r)' => Rejected(r)
      BY <3>2, RejectedByOwner
    <3> QED
      BY <2>1, <3>1, <3>3 DEF Rejected
  <2>4. ASSUME NEW u \in Invocations \ {v}, Resumes(u)'
        PROVE  /\ Met(u) => Met(u)'
               /\ ~Resumes(u) => LateAndUnaware(u)'
               /\ Resumes(u) /\ Late(u) => Late(u)'
               /\ Resumes(u) /\ LateAndUnaware(u) /\ ~Rejected(cont.run)
                    => LateAndUnaware(u)'
    <3>1. CASE u # w
      <4>1. Kept(u)
        BY <3>1, OthersKept DEF Typed
      <4> QED
        BY <2>1, <2>4, <4>1 DEF Kept, Met, Late, LateAndUnaware, Resumes, At
    <3>2. CASE u = w
      <4>1. Looking(w)
        BY <2>1, <2>4, <3>2 DEF Leaving, Resumes
      <4> QED
        BY <2>1, <2>4, <3>2, <4>1, LookingMoves
           DEF Met, Late, LateAndUnaware, Resumes, At
    <3> QED
      BY <3>1, <3>2
  <2>5. Walking(v)' => Walking(v) /\ ~Rejected(cont.run)'
    BY <1>1, <1>2, <2>3 DEF Watched, Walking, Kept
  <2>6. inv'[v].pc = inv[v].pc /\ inv'[v].why = inv[v].why
    BY <1>1 DEF Kept
  <2>7. ASSUME inv[v].pc \notin After, NEW u \in Invocations \ {v}, Resumes(u)'
        PROVE  Met(u)' \/ Late(u)'
    BY <1>2, <1>4, <2>4, <2>7 DEF Watched, LateAndUnaware
  <2>8. ASSUME inv[v].pc \notin Renewing, NEW u \in Invocations \ {v}, Resumes(u)'
        PROVE  Met(u)' \/ LateAndUnaware(u)'
    <3>1. ~Rejected(cont.run)
      BY <1>2, <2>8 DEF Watched, Walking, Renewing
    <3> QED
      BY <1>2, <2>4, <2>8, <3>1 DEF Watched
  <2>9. Watched(v)'
    BY <2>5, <2>6, <2>7, <2>8 DEF Watched
  <2>10. Reported(v)'
    BY <1>2, <1>4, <2>1, <2>6 DEF Reported, At
  <2> QED
    BY <2>9, <2>10
<1> QED
  BY <1>3, <1>4

LEMMA OwnWatched ==
  ASSUME Typed, LeaseInv, RestartInv, NEW w \in Invocations, Step(w) \/ Fault(w)
  PROVE  Watched(w)' /\ Reported(w)'
<1>0. Moving(w) /\ Watched(w) /\ Reported(w) /\ Leased(w)
  BY StepMoves DEF RestartInv, LeaseInv, Good
<1>1. \A u \in Invocations \ {w} : Kept(u)
  BY OthersKept DEF Typed
\* a run is not rejected under an invocation that walks it
<1>2. ASSUME Walking(w), cont'.run = cont.run PROVE ~Rejected(cont.run)'
  <2>1. cont.run \in Invocations
    BY <1>0, <1>2 DEF Leased, Held, Walking, Started, Outside, After, Typed, LocalInv,
       Sound, Runless
  <2>2. PICK r \in Invocations : r = cont.run
    BY <2>1
  <2>3. Rejected(r)' => Rejected(r)
    BY <1>2, RejectedByOwner DEF At, Walking, After
  <2> QED
    BY <1>0, <1>2, <2>2, <2>3 DEF Rejected, Watched
<1>3. ASSUME holders' = Alive, NEW u \in Invocations \ {w}, Resumes(u)' PROVE Met(u)'
  BY <1>1, <1>3 DEF Kept, Met, Resumes, Alive
<1>4. ASSUME holders' = holders, cont'.run = cont.run, NEW u \in Invocations \ {w}
      PROVE  /\ Resumes(u)' <=> Resumes(u)
             /\ Met(u)' <=> Met(u)
             /\ Late(u)' <=> Late(u)
             /\ LateAndUnaware(u)' <=> LateAndUnaware(u)
  BY <1>1, <1>4 DEF Kept, Met, Late, LateAndUnaware, Resumes, At
<1>5. CASE Leaving(w) \/ Looking(w)
  <2>1. ~Held(w)'
    BY <1>5, LookingMoves DEF Leaving, Held, Outside
  <2> QED
    BY <2>1 DEF Watched, Reported, Walking, Started, Renewing, Held
<1>6. CASE Claiming(w)
  BY <1>3, <1>6 DEF Claiming, Watched, Reported, Walking, Started, Renewing
<1>7. CASE Starting(w)
  <2>1. holders' = holders /\ cont'.run = cont.run /\ cont'.amb = cont.amb
    BY <1>7 DEF Starting, SameLease
  <2>2. Held(w) /\ inv[w].pc \notin After
    BY <1>7 DEF Starting, Held, Outside, After, Walked
  <2>3. ~Rejected(cont.run)'
    <3>1. ~Rejected(inv[w].my)' /\ cont.run = inv[w].my /\ inv'[w].my = inv[w].my
      BY <1>0, <1>7, <2>2 DEF Starting, Leased
    <3> QED
      BY <2>1, <3>1 DEF Rejected
  <2>4. Watched(w)'
    BY <1>0, <1>4, <1>7, <2>1, <2>2, <2>3 DEF Watched, Starting, Renewing
  <2>5. Reported(w)'
    BY <1>0, <1>7, <2>1, <2>2 DEF Reported, Starting, At
  <2> QED
    BY <2>4, <2>5
<1>8. CASE Extending(w)
  <2>1. Walking(w) /\ cont'.run = cont.run /\ holders' = Alive /\ cont'.amb = "none"
    BY <1>8 DEF Extending, Walking, Started, Outside, After, Walked
  <2> QED
    BY <1>2, <1>3, <2>1 DEF Watched, Reported, LateAndUnaware
<1>9. CASE Going(w)
  <2>1. /\ holders' = holders /\ cont'.run = cont.run
        /\ cont'.amb = "open" => cont.amb = "open" \/ Recording(w)
    BY <1>9 DEF Going, Recording, SameLease
  <2>2. Held(w) /\ inv[w].pc \notin After
    BY <1>9 DEF Going, Walking, Held, Started
  <2>3. ~Rejected(cont.run)'
    BY <1>2, <1>9, <2>1 DEF Going
  <2>4. Watched(w)'
    BY <1>0, <1>4, <1>9, <2>1, <2>2, <2>3 DEF Watched, Going
  <2>5. Reported(w)'
    BY <1>0, <2>1, <2>2 DEF Reported, Recording, At, After
  <2> QED
    BY <2>4, <2>5
<1>10. CASE Finishing(w)
  BY <1>0, <1>10
     DEF Finishing, SameLease, Watched, Reported, Walking, Renewing, Held, Outside, After,
         Walked, At
<1> QED
  BY <1>0, <1>5, <1>6, <1>7, <1>8, <1>9, <1>10 DEF Moving

LEMMA SparedKept ==
  ASSUME Typed, LeaseInv, RestartInv, NEW w \in Invocations, Step(w) \/ Fault(w)
  PROVE  Spared'
<1>0. /\ Moving(w) /\ Watched(w) /\ Reported(w) /\ Leased(w) /\ Spared
      /\ \A u \in Invocations \ {w} : Kept(u)
  BY StepMoves, OthersKept DEF RestartInv, LeaseInv, Good, Typed
<1> SUFFICES ASSUME cont'.amb = "open", NEW u \in Invocations, Resumes(u)',
                    inv'[u].cont.amb = "none"
             PROVE  Barred(u)' \/ (LateAndUnaware(u)' /\ ~Rejected(cont.run)')
  BY DEF Spared
\* an ambiguity that was there already
<1>1. CASE cont.amb = "open"
  <2>1. Looking(w) \/ (Leaving(w) /\ SameLease)
    BY <1>0, <1>1, Stands DEF Claiming
  <2>2. /\ cont'.owner = cont.owner /\ cont'.live = cont.live
        /\ cont'.run = cont.run /\ holders' = holders
    BY <2>1 DEF Looking, SameLease
  <2>3. ~Rejected(cont.run) => ~Rejected(cont.run)'
    <3>1. cont.run \in Invocations
      BY <1>1 DEF LeaseInv, Typed, RowTypes, Continuation, MaybeInv
    <3>2. PICK r \in Invocations : r = cont.run
      BY <3>1
    <3>3. ~(At(w, "fail") /\ inv[w].why = "cursor")
      BY <1>0, <1>1 DEF Reported, Held, Outside, At
    <3>4. Rejected(r)' => Rejected(r)
      BY <3>3, RejectedByOwner
    <3> QED
      BY <2>2, <3>2, <3>4 DEF Rejected
  <2>4. /\ Resumes(u) /\ inv[u].cont.amb = "none" /\ inv'[u].my = inv[u].my
        /\ LateAndUnaware(u) /\ ~Rejected(cont.run) => LateAndUnaware(u)'
    <3>1. CASE u # w
      BY <1>0, <2>2, <3>1 DEF Kept, Resumes, LateAndUnaware, Late, At
    <3>2. CASE u = w
      <4>1. Looking(w)
        BY <2>1, <3>2 DEF Leaving, Resumes
      <4>2. /\ Resumes(w) /\ inv'[w].my = inv[w].my /\ inv'[w].cont = inv[w].cont
            /\ inv'[w].restart => Rejected(inv[w].my)
        BY <1>1, <3>2, <4>1, LookingMoves
      <4> QED
        BY <2>2, <3>2, <4>2 DEF LateAndUnaware, Late, At
    <3> QED
      BY <3>1, <3>2
  <2>5. Barred(u) \/ (LateAndUnaware(u) /\ ~Rejected(cont.run))
    BY <1>0, <1>1, <2>4 DEF Spared
  <2>6. Barred(u) => Barred(u)'
    BY <2>2 DEF Barred, Met
  <2> QED
    BY <2>3, <2>4, <2>5, <2>6
\* one that is recorded by this step
<1>2. CASE cont.amb # "open"
  <2>1. Recording(w) /\ Walking(w)
    <3>1. ~Leaving(w) /\ ~Looking(w) /\ ~Claiming(w)
      BY <1>2 DEF Leaving, SameLease, NoCont, Looking, Claiming
    <3>2. ~Starting(w) /\ ~Extending(w) /\ ~Finishing(w)
      BY <1>2 DEF Starting, Extending, Finishing, SameLease
    <3> QED
      BY <1>0, <1>2, <3>1, <3>2 DEF Moving, Going, SameLease
  <2>2. /\ inv[w].pc = "recordAmb" /\ inv'[w].pc = "fail" /\ cont'.run = cont.run
        /\ cont'.owner = cont.owner /\ cont'.live = cont.live /\ holders' = holders
    BY <2>1 DEF Recording
  <2>3. u # w
    BY <2>2 DEF Resumes
  <2>4. Kept(u) /\ Resumes(u)
    BY <1>0, <2>3 DEF Kept, Resumes
  <2>5. Met(u) \/ LateAndUnaware(u)
    BY <1>0, <2>2, <2>3, <2>4 DEF Watched, Held, Renewing, Started, Outside, After, Walked
  <2>6. cont.owner = w /\ cont.live /\ cont.run \in Invocations
    BY <1>0, <2>2 DEF Leased, Held, Outside, Typed, LocalInv, Sound, Runless
  <2>7. Met(u) => Barred(u)'
    BY <2>2, <2>3, <2>6, NoInvAssumption DEF Met, Barred
  <2>8. LateAndUnaware(u) => LateAndUnaware(u)'
    BY <2>2, <2>4 DEF LateAndUnaware, Late, Kept, At
  <2>9. ~Rejected(cont.run)'
    <3>1. PICK r \in Invocations : r = cont.run
      BY <2>6
    <3>2. Rejected(r)' => Rejected(r)
      BY <2>2, RejectedByOwner DEF At
    <3> QED
      BY <1>0, <2>1, <2>2, <3>1, <3>2 DEF Rejected, Watched
  <2> QED
    BY <2>5, <2>7, <2>8, <2>9
<1> QED
  BY <1>1, <1>2

\* Time passes for the row only when those who were barred from it have ended.
LEMMA TimeKeepsRestart ==
  ASSUME Typed, LeaseInv, RestartInv, ~StallPastLease, Time
  PROVE  RestartInv'
<1>0. cont \in Continuation
  BY DEF Typed, RowTypes
<1>1. /\ UNCHANGED <<inv, runs, holders>>
      /\ cont'.run = cont.run /\ cont'.owner = cont.owner
      /\ cont'.amb = "open" => cont.amb = "open"
  BY <1>0 DEF Time, LeaseRunsOut, AmbiguityLapses, RunAges, rows, time, hist, Continuation
<1>2. ASSUME NEW v \in Invocations PROVE Watched(v)' /\ Reported(v)'
  <2>1. Watched(v) /\ Reported(v)
    BY DEF RestartInv
  <2>2. Watched(v)'
    BY <1>1, <2>1
       DEF Watched, Walking, Held, Rejected, Met, Late, LateAndUnaware, Resumes, At
  <2>3. Reported(v)'
    BY <1>1, <2>1 DEF Reported, Held, At
  <2> QED
    BY <2>2, <2>3
<1>3. ASSUME NEW u \in Invocations, Resumes(u), Barred(u) PROVE cont'.live
  <2>1. ~Ended(u) /\ u \in holders /\ cont.live
    BY <1>3 DEF Ended, Resumes, Barred, Met
  <2>2. ~LeaseRunsOut
    BY <2>1 DEF LeaseRunsOut
  <2> QED
    BY <1>0, <2>1, <2>2 DEF Time, AmbiguityLapses, RunAges, rows, Continuation
<1>4. Spared'
  BY <1>1, <1>3
     DEF RestartInv, Spared, Barred, Met, LateAndUnaware, Late, Rejected, Resumes, At
<1> QED
  BY <1>2, <1>4 DEF RestartInv

LEMMA RestartInitially == Init => RestartInv
BY DEF Init, Fresh, NoCont, RestartInv, Spared, Watched, Reported, Walking, Held, Started,
   Renewing, Outside, Resumes, At

LEMMA RestartPreserved ==
  ASSUME ~StallPastLease, Typed, LeaseInv, RestartInv, [Next]_vars
  PROVE  RestartInv'
<1>1. ASSUME UNCHANGED vars PROVE RestartInv'
  BY <1>1
     DEF vars, RestartInv, Spared, Barred, Watched, Reported, Walking, Held, Rejected, Met,
         Late, LateAndUnaware, Resumes, At
<1>2. ASSUME NEW w \in Invocations, Step(w) \/ Fault(w) PROVE RestartInv'
  BY <1>2, OthersWatched, OwnWatched, SparedKept DEF RestartInv
<1> QED
  BY <1>1, <1>2, TimeKeepsRestart DEF Next, AllEnded

LEMMA RestartInvariance ==
  ASSUME ~StallPastLease
  PROVE  Spec => [](Typed /\ LeaseInv /\ RestartInv)
<1>1. Spec => [](Typed /\ LeaseInv)
  BY LeaseInvariance
<1>2. Init => RestartInv
  BY RestartInitially
<1>3. Typed /\ LeaseInv /\ RestartInv /\ [Next]_vars => RestartInv'
  BY RestartPreserved
<1> QED
  BY <1>1, <1>2, <1>3, PTL DEF Spec

\* Until its ceiling passes, a recorded ambiguity leaves the row only when an invocation
\* that read the row earlier claims it with what it read: no restart of a rejected
\* cursor, no reclaim, no deletion and no renewal ever erases it.
THEOREM AmbiguityErasedByStaleClaim ==
  ASSUME ~StallPastLease
  PROVE  Spec => OnlyStaleClaimErasesFence
<1> DEFINE Erased == cont.amb = "open" /\ fence.open /\ cont'.amb = "none"
           Stale == \E w \in fence.readers : At(w, "claim") /\ cont'.owner = w
<1>1. ASSUME Typed, LeaseInv, RestartInv, [Next]_vars, Erased PROVE Stale
  <2>1. PICK w \in Invocations : Step(w) \/ Fault(w)
    <3>1. cont' # cont
      BY <1>1
    <3>2. ~Time
      BY <1>1 DEF Time, LeaseRunsOut, AmbiguityLapses, RunAges, rows, Typed, RowTypes,
         Continuation
    <3> QED
      BY <1>1, <3>1, <3>2 DEF Next, AllEnded, vars
  <2>2. Moving(w) /\ Reported(w) /\ Spared /\ HasRead(w)
    BY <1>1, <2>1, StepMoves DEF RestartInv, LeaseInv, Good
  <2>3. Claiming(w)
    BY <1>1, <2>2, Stands DEF Looking, SameLease
  <2>4. At(w, "claim")
    <3>1. ASSUME At(w, "decide"), inv[w].restart, inv[w].cont.amb = "none" PROVE FALSE
      <4>1. Resumes(w)
        BY <3>1 DEF At, Resumes
      <4>2. Barred(w)
        BY <1>1, <2>2, <3>1, <4>1 DEF Spared, LateAndUnaware
      <4> QED
        BY <2>3, <4>2 DEF Claiming, Claimable, Barred
    <3> QED
      BY <1>1, <2>3, <3>1 DEF Claiming
  <2>5. w \in fence.readers
    BY <1>1, <2>2, <2>4 DEF HasRead, Alive, Resumes, At
  <2> QED
    BY <2>3, <2>4, <2>5 DEF Claiming
<1>2. Typed /\ LeaseInv /\ RestartInv /\ [Next]_vars => [Erased => Stale]_vars
  BY <1>1
<1>3. Spec => [](Typed /\ LeaseInv /\ RestartInv)
  BY RestartInvariance
<1> QED
  BY <1>2, <1>3, PTL DEF Spec, OnlyStaleClaimErasesFence
=============================================================================
