--------------------------- MODULE EventWalkProofs ---------------------------
(***************************************************************************)
(* What EventWalk promises of any number of workers, cursors and events,   *)
(* any feed and any number of faults.  Pages are taken by commits only,    *)
(* and a commit compares the checkpoint with the copy its worker holds; so *)
(* what a worker has seen of the rows since that copy was made still       *)
(* stands when it commits, however late it is: fingerprints and fences are *)
(* written once, and no row becomes pending while the checkpoint stays.    *)
(* After it, what the store behind it (EventStore) promises of any number  *)
(* of calls, events and identities, beside the walk (MCEvents).            *)
(***************************************************************************)
EXTENDS MCEvents, SequenceTheorems, FiniteSetTheorems, TLAPS

Stop   == [pos : Positions \cup {Terminal}, epoch : Nat, rev : Nat]
Intents == [state : {"intent", "claimed", "delivered"}, claimant : Nat,
            leased : BOOLEAN, version : Nat, cursor : Cursors, budget : 1 .. MaxPages]
PCs    == {"idle", "read", "drain", "blocked", "publish", "mark", "end", "fetch", "fences",
           "fingerprint", "ingest", "claim"}
Local  == [pc : PCs, msg : Nat, active : Nat, budget : Nat, cp : Stop \cup {None},
           page : Page \cup {None}, todo : SUBSET Events, conflict : BOOLEAN,
           claimed : Nat, version : Nat, final : BOOLEAN]

Rev(cp) == IF cp = None THEN 0 ELSE cp.rev

\* The position of epoch n, and the number of pages the checkpoint has left behind.
Stand(n) == IF n = 0 THEN Start ELSE outbox[n].cursor
Behind   == IF At(checkpoint) = Terminal THEN Len(outbox) + 1 ELSE Len(outbox)

TypeInv ==
    /\ checkpoint \in Stop \cup {None}
    /\ outbox \in Seq(Intents)
    /\ fingerprint \in [Positions -> Page \cup {None}]
    /\ fence \in [Events -> Positions \cup {None}]
    /\ queue \subseteq 0 .. Len(outbox) /\ sent \subseteq 1 .. Len(outbox)
    /\ faults \in 0 .. MaxFaults
    /\ work \in [Workers -> Local]

\* The checkpoint stands at the last epoch, or past it; no cursor is followed twice.
ChainInv ==
    /\ Epoch(checkpoint) = Len(outbox)
    /\ At(checkpoint) \in {Terminal, Stand(Len(outbox))}
    /\ \A n, k \in 1 .. Len(outbox) : outbox[n].cursor = outbox[k].cursor => n = k
    /\ \A n \in 1 .. Len(outbox) : outbox[n].claimant <= Len(outbox)

\* Every page left behind has its answer, which leads to the next and whose events it holds.
CoverInv ==
    \A n \in 0 .. Behind - 1 :
        /\ fingerprint[Stand(n)] # None
        /\ fingerprint[Stand(n)].next = IF n < Len(outbox) THEN Stand(n + 1) ELSE Terminal
        /\ \A e \in fingerprint[Stand(n)].events : fence[e] = Stand(n)

\* What is delivered was sent or passed; what is not is the epoch the walk stands at.
SentInv ==
    \A n \in 1 .. Len(outbox) :
        IF outbox[n].state = "delivered" THEN n \in sent \/ n < Behind
        ELSE n = Len(outbox) /\ At(checkpoint) # Terminal

\* From its fetch to its commit a worker holds the only pending row there is for the
\* checkpoint it has read, or there is none.
Fetching == {"fetch", "fences", "fingerprint", "ingest"}

Current(l) ==
    checkpoint = l.cp => IF l.claimed = 0 THEN Pending = {} ELSE l.claimed = Len(outbox)

WorkerOK(l) ==
    /\ l.msg <= Len(outbox) /\ l.active <= Len(outbox) /\ l.claimed <= Len(outbox)
    /\ Epoch(l.cp) <= Len(outbox) /\ Rev(l.cp) <= Rev(checkpoint)
    /\ l.pc \notin {"idle", "read"} => l.budget \in 1 .. MaxPages
    /\ l.pc \in {"idle", "read", "drain", "blocked"} => l.claimed = 0
    /\ l.pc \in {"publish", "mark"} => l.claimed # 0
    /\ l.pc = "mark" => l.claimed \in sent
    /\ l.pc = "claim" => l.cp # None /\ At(l.cp) # Terminal
    /\ l.pc \in Fetching => At(l.cp) # Terminal /\ Current(l)
    /\ l.pc \in Fetching \ {"fetch"} => l.page \in Page
    /\ l.pc = "ingest" =>
           /\ fingerprint[At(l.cp)] = l.page /\ l.todo \subseteq l.page.events
           /\ ~l.conflict => \A e \in l.page.events \ l.todo : fence[e] = At(l.cp)

WalkInv ==
    /\ TypeInv /\ ChainInv /\ CoverInv /\ SentInv
    /\ \A w \in Workers : WorkerOK(work[w])

-----------------------------------------------------------------------------
(* What the parts of the invariant say of rows and of workers.             *)

LEMMA Names ==
    /\ Start \in Positions /\ None \notin Positions /\ None \notin Page /\ None \notin Stop
    /\ Terminal \notin Positions /\ Terminal \notin Cursors /\ Start \notin Cursors
    /\ Cursors \subseteq Positions
BY WalkAssumption DEF Positions, Stop

LEMMA Rows ==
    ASSUME TypeInv
    PROVE  /\ Len(outbox) \in Nat /\ DOMAIN outbox = 1 .. Len(outbox)
           /\ \A n \in 1 .. Len(outbox) : outbox[n] \in Intents
           /\ \A n \in 0 .. Len(outbox) : Stand(n) \in Positions
<1>1. /\ Len(outbox) \in Nat /\ DOMAIN outbox = 1 .. Len(outbox)
      /\ \A n \in 1 .. Len(outbox) : outbox[n] \in Intents
  BY LenProperties, ElementOfSeq DEF TypeInv
<1>2. ASSUME NEW n \in 0 .. Len(outbox) PROVE Stand(n) \in Positions
  <2>1. CASE n = 0
    BY <2>1, Names DEF Stand
  <2>2. CASE n # 0
    <3>1. outbox[n] \in Intents
      BY <1>1, <2>2
    <3> QED
      BY <3>1, <2>2, Names DEF Stand, Intents
  <2> QED
    BY <2>1, <2>2
<1> QED
  BY <1>1, <1>2

LEMMA Reading ==
    ASSUME NEW cp \in Stop \cup {None}
    PROVE  /\ Epoch(cp) \in Nat /\ Rev(cp) \in Nat
           /\ At(cp) # Terminal => At(cp) \in Positions
           /\ At(cp) \in Positions \cup {Terminal}
           /\ cp # None => cp \in Stop
BY Names DEF Stop, Epoch, Rev, At

\* Nothing but the epoch the checkpoint stands at is pending.
LEMMA PendingIs ==
    ASSUME TypeInv, SentInv
    PROVE  /\ Pending \subseteq {Len(outbox)}
           /\ Pending # {} => /\ Oldest = Len(outbox) /\ Len(outbox) \in 1 .. Len(outbox)
                              /\ At(checkpoint) # Terminal
                              /\ outbox[Len(outbox)].state # "delivered"
<1>1. Pending \subseteq {Len(outbox)}
  BY Rows DEF SentInv, Pending
<1>2. ASSUME Pending # {}
      PROVE  /\ Oldest = Len(outbox) /\ Len(outbox) \in 1 .. Len(outbox)
             /\ At(checkpoint) # Terminal /\ outbox[Len(outbox)].state # "delivered"
  <2>1. Pending = {Len(outbox)}
    BY <1>1, <1>2
  <2>2. Len(outbox) \in 1 .. Len(outbox) /\ outbox[Len(outbox)].state # "delivered"
    BY <2>1, Rows DEF Pending
  <2>3. \A k \in Pending : Len(outbox) <= k
    BY <2>1, Rows
  <2>4. Oldest \in Pending
    BY <2>1, <2>3 DEF Oldest
  <2> QED
    BY <2>1, <2>2, <2>4 DEF SentInv
<1> QED
  BY <1>1, <1>2

LEMMA IdleIs == Idle \in Local
BY Names DEF Idle, Local, PCs

LEMMA IdleOK ==
    ASSUME TypeInv
    PROVE  WorkerOK(Idle)
<1>1. /\ Idle.pc = "idle" /\ Idle.msg = 0 /\ Idle.active = 0 /\ Idle.claimed = 0 /\ Idle.cp = None
  BY DEF Idle
<1>2. Epoch(None) = 0 /\ Rev(None) = 0
  BY DEF Epoch, Rev
<1>3. Len(outbox) \in Nat /\ Rev(checkpoint) \in Nat
  BY Rows, Reading DEF TypeInv
<1> QED
  BY <1>1, <1>2, <1>3 DEF WorkerOK, Fetching

-----------------------------------------------------------------------------
(* How the rows move on: what one worker has seen another does not undo.   *)
Onward ==
    /\ Len(outbox) <= Len(outbox')
    /\ sent \subseteq sent'
    /\ \A p \in Positions : fingerprint[p] # None => fingerprint'[p] = fingerprint[p]
    /\ \A e \in Events : fence[e] # None => fence'[e] = fence[e]
    /\ \/ checkpoint' = checkpoint /\ Len(outbox') = Len(outbox) /\ Pending' \subseteq Pending
       \/ Rev(checkpoint) < Rev(checkpoint')

LEMMA SeenStands ==
    ASSUME TypeInv, TypeInv', Onward, NEW l \in Local, WorkerOK(l)
    PROVE  WorkerOK(l)'
<1>1. /\ Len(outbox) \in Nat /\ Len(outbox') \in Nat /\ Rev(checkpoint) \in Nat
      /\ Rev(checkpoint') \in Nat
  BY LenProperties, Reading DEF TypeInv
<1>2. /\ l.msg \in Nat /\ l.active \in Nat /\ l.claimed \in Nat /\ l.budget \in Nat
      /\ l.cp \in Stop \cup {None} /\ l.todo \subseteq Events /\ l.page \in Page \cup {None}
  BY DEF Local
<1>3. Epoch(l.cp) \in Nat /\ Rev(l.cp) \in Nat
  BY <1>2, Reading
<1>4. Rev(checkpoint) <= Rev(checkpoint')
  BY <1>1 DEF Onward
<1>5. /\ l.msg <= Len(outbox') /\ l.active <= Len(outbox') /\ l.claimed <= Len(outbox')
      /\ Epoch(l.cp) <= Len(outbox') /\ Rev(l.cp) <= Rev(checkpoint')
  BY <1>1, <1>2, <1>3, <1>4 DEF WorkerOK, Onward
<1>6. Current(l) => Current(l)'
  <2>1. SUFFICES ASSUME Current(l), checkpoint' = l.cp
                 PROVE  IF l.claimed = 0 THEN Pending' = {} ELSE l.claimed = Len(outbox')
    BY DEF Current
  <2>2. ~(Rev(checkpoint) < Rev(checkpoint'))
    BY <2>1, <1>1, <1>3 DEF WorkerOK
  <2>3. checkpoint = l.cp /\ Len(outbox') = Len(outbox) /\ Pending' \subseteq Pending
    BY <2>1, <2>2 DEF Onward
  <2> QED
    BY <2>1, <2>3 DEF Current
<1>7. ASSUME l.pc = "ingest"
      PROVE  /\ fingerprint'[At(l.cp)] = l.page /\ l.todo \subseteq l.page.events
             /\ ~l.conflict => \A e \in l.page.events \ l.todo : fence'[e] = At(l.cp)
  <2>1. /\ At(l.cp) \in Positions /\ l.page \in Page /\ l.page # None /\ At(l.cp) # None
        /\ fingerprint[At(l.cp)] = l.page /\ l.todo \subseteq l.page.events
    BY <1>2, <1>7, Reading, Names DEF WorkerOK, Fetching
  <2>2. fingerprint'[At(l.cp)] = l.page
    BY <2>1 DEF Onward
  <2>3. l.page.events \subseteq Events
    BY <2>1 DEF Page
  <2>4. ~l.conflict => \A e \in l.page.events \ l.todo : fence[e] = At(l.cp)
    BY <1>7 DEF WorkerOK
  <2>5. ~l.conflict => \A e \in l.page.events \ l.todo : fence'[e] = At(l.cp)
    BY <2>1, <2>3, <2>4 DEF Onward
  <2> QED
    BY <2>1, <2>2, <2>5
<1> QED
  BY <1>5, <1>6, <1>7 DEF WorkerOK, Onward

\* One worker steps, the others stand where they stood.
LEMMA WorkerSteps ==
    ASSUME WalkInv, TypeInv', Onward, NEW w \in Workers, NEW l \in Local,
           work' = [work EXCEPT ![w] = l], WorkerOK(l)'
    PROVE  \A v \in Workers : WorkerOK(work[v])'
<1>1. work \in [Workers -> Local] /\ work'[w] = l
  BY DEF WalkInv, TypeInv
<1>2. ASSUME NEW v \in Workers, v # w PROVE WorkerOK(work[v])'
  <2>1. PICK k \in Local : k = work[v]
    BY <1>1
  <2>2. WorkerOK(k)
    BY <2>1 DEF WalkInv
  <2>3. WorkerOK(k)'
    BY <2>2, SeenStands DEF WalkInv
  <2>4. work'[v] = k
    BY <1>1, <1>2, <2>1
  <2> QED
    BY <2>3, <2>4 DEF WorkerOK, Current
<1>3. WorkerOK(work[w])'
  BY <1>1 DEF WorkerOK, Current
<1> QED
  BY <1>2, <1>3

-----------------------------------------------------------------------------
(* Steps that write no row.                                                *)

LEMMA QuietStep ==
    ASSUME WalkInv, UNCHANGED <<rows, sent>>, queue' \subseteq 0 .. Len(outbox),
           faults' \in 0 .. MaxFaults,
           NEW w \in Workers, NEW l \in Local, work' = [work EXCEPT ![w] = l], WorkerOK(l)
    PROVE  WalkInv'
<1>1. UNCHANGED <<checkpoint, outbox, fingerprint, fence, sent>>
  BY DEF rows
<1>2. TypeInv'
  BY <1>1 DEF WalkInv, TypeInv
<1>3. Onward
  BY <1>1, Rows DEF Onward, Pending, WalkInv
<1>4. WorkerOK(l)'
  BY <1>2, <1>3, SeenStands DEF WalkInv
<1>5. ChainInv' /\ CoverInv' /\ SentInv'
  BY <1>1 DEF WalkInv, ChainInv, CoverInv, SentInv, Behind, Stand, At, Epoch
<1> QED
  BY <1>2, <1>3, <1>4, <1>5, WorkerSteps DEF WalkInv

\* An execution ends, whichever way.
LEMMA ReturnStep ==
    ASSUME WalkInv, UNCHANGED <<rows, sent>>, faults' \in 0 .. MaxFaults,
           NEW w \in Workers, Throw(w) \/ Acknowledge(w)
    PROVE  WalkInv'
<1>1. work' = [work EXCEPT ![w] = Idle] /\ queue' \subseteq queue
  BY DEF Throw, Acknowledge
<1>2. WorkerOK(Idle) /\ Idle \in Local /\ queue' \subseteq 0 .. Len(outbox)
  BY <1>1, IdleOK, IdleIs DEF WalkInv, TypeInv
<1> QED
  BY <1>1, <1>2, QuietStep

LEMMA ReceiveKeeps ==
    ASSUME WalkInv, NEW w \in Workers, NEW m \in queue, Receive(w, m)
    PROVE  WalkInv'
<1>1. PICK l \in Local : l = [Idle EXCEPT !.pc = "read", !.msg = m]
  <2>1. m \in Nat
    BY Rows DEF WalkInv, TypeInv
  <2> QED
    BY <2>1, IdleIs DEF Local, PCs
<1>2. l.pc = "read" /\ l.msg = m /\ l.active = 0 /\ l.claimed = 0 /\ l.cp = None
  <2>1. /\ l.pc = "read" /\ l.msg = m /\ l.active = Idle.active /\ l.claimed = Idle.claimed
        /\ l.cp = Idle.cp
    BY <1>1, IdleIs DEF Local
  <2> QED
    BY <2>1 DEF Idle
<1>3. m <= Len(outbox)
  BY Rows DEF WalkInv, TypeInv
<1>4. WorkerOK(l)
  <2>1. Epoch(None) = 0 /\ Rev(None) = 0
    BY DEF Epoch, Rev
  <2>2. Len(outbox) \in Nat /\ Rev(checkpoint) \in Nat
    BY Rows, Reading DEF WalkInv, TypeInv
  <2> QED
    BY <1>2, <1>3, <2>1, <2>2 DEF WorkerOK, Fetching
<1>5. work' = [work EXCEPT ![w] = l]
  BY <1>1 DEF Receive
<1>6. UNCHANGED <<rows, sent>> /\ queue' \subseteq 0 .. Len(outbox) /\ faults' \in 0 .. MaxFaults
  BY DEF Receive, WalkInv, TypeInv
<1> QED
  BY <1>4, <1>5, <1>6, QuietStep

LEMMA ReadKeeps ==
    ASSUME WalkInv, NEW w \in Workers, ReadCheckpoint(w)
    PROVE  WalkInv'
<1>0. UNCHANGED <<rows, sent, faults>> /\ faults' \in 0 .. MaxFaults /\ work[w] \in Local
  BY DEF ReadCheckpoint, WalkInv, TypeInv
<1>1. CASE Throw(w) \/ Acknowledge(w)
  BY <1>0, <1>1, ReturnStep
<1>2. ASSUME NEW m, m = work[w].msg, ~StaleContinuation(m), ~MidWalk(m), UNCHANGED queue,
             work' = [work EXCEPT ![w] = [@ EXCEPT
                          !.pc = "drain", !.cp = checkpoint, !.active = m,
                          !.budget = IF m = 0 THEN MaxPages ELSE outbox[m].budget]]
      PROVE  WalkInv'
  <2>1. m \in Nat /\ m <= Len(outbox)
    BY <1>0, <1>2 DEF WalkInv, WorkerOK, Local
  <2>2. MaxPages \in 1 .. MaxPages
    BY WalkAssumption
  <2>3. ASSUME m # 0 PROVE outbox[m].budget \in 1 .. MaxPages
    <3>1. outbox[m] \in Intents
      BY <2>1, <2>3, Rows DEF WalkInv
    <3> QED
      BY <3>1 DEF Intents
  <2>4. PICK b \in 1 .. MaxPages : b = IF m = 0 THEN MaxPages ELSE outbox[m].budget
    BY <2>2, <2>3
  <2>5. checkpoint \in Stop \cup {None}
    BY DEF WalkInv, TypeInv
  <2>6. PICK l \in Local : l = [work[w] EXCEPT !.pc = "drain", !.cp = checkpoint, !.active = m,
                                               !.budget = b]
    <3>1. b \in Nat
      BY <2>4, WalkAssumption
    <3> QED
      BY <1>0, <2>1, <2>5, <3>1 DEF Local, PCs
  <2>7. /\ l.pc = "drain" /\ l.cp = checkpoint /\ l.active = m /\ l.budget = b
        /\ l.msg = work[w].msg /\ l.claimed = work[w].claimed
    BY <1>0, <2>6 DEF Local
  <2>8. work' = [work EXCEPT ![w] = l]
    BY <1>2, <2>4, <2>6
  <2>9. l.claimed = 0
    BY <2>7 DEF WalkInv, WorkerOK, ReadCheckpoint
  <2>10. /\ l.msg <= Len(outbox) /\ l.active <= Len(outbox) /\ l.claimed <= Len(outbox)
         /\ Epoch(l.cp) <= Len(outbox) /\ Rev(l.cp) <= Rev(checkpoint)
    BY <2>1, <2>5, <2>7, <2>9, Rows, Reading DEF WalkInv, WorkerOK, ChainInv
  <2>11. WorkerOK(l)
    BY <2>7, <2>9, <2>10 DEF WorkerOK, Fetching
  <2>12. queue' \subseteq 0 .. Len(outbox)
    BY <1>2 DEF WalkInv, TypeInv
  <2> QED
    BY <1>0, <2>8, <2>11, <2>12, QuietStep
<1> QED
  BY <1>1, <1>2 DEF ReadCheckpoint

LEMMA ReturnKeeps ==
    ASSUME WalkInv, NEW w \in Workers, Return(w)
    PROVE  WalkInv'
BY ReturnStep DEF Return, WalkInv, TypeInv

LEMMA CrashKeeps ==
    ASSUME WalkInv, NEW w \in Workers, Crash(w)
    PROVE  WalkInv'
<1>1. faults' \in 0 .. MaxFaults
  BY WalkAssumption DEF Crash, WalkInv, TypeInv
<1> QED
  BY <1>1, ReturnStep DEF Crash

\* A worker goes on to the page it reads next, with no continuation pending.
LEMMA DrainedStep ==
    ASSUME WalkInv, NEW w \in Workers, work[w].pc \in {"drain", "blocked"}, Pending = {},
           Drained(w), UNCHANGED <<rows, sent, faults>>
    PROVE  WalkInv'
<1>0. /\ faults' \in 0 .. MaxFaults /\ queue \subseteq 0 .. Len(outbox) /\ work[w] \in Local
      /\ WorkerOK(work[w])
  BY DEF WalkInv, TypeInv
<1>1. CASE Acknowledge(w)
  BY <1>0, <1>1, ReturnStep
<1>2. ASSUME At(work[w].cp) # Terminal, Goto(w, "fetch"), UNCHANGED queue
      PROVE  WalkInv'
  <2>1. PICK l \in Local : l = [work[w] EXCEPT !.pc = "fetch"]
    BY <1>0 DEF Local, PCs
  <2>2. /\ l.pc = "fetch" /\ l.msg = work[w].msg /\ l.active = work[w].active
        /\ l.budget = work[w].budget /\ l.cp = work[w].cp /\ l.claimed = work[w].claimed
    BY <1>0, <2>1 DEF Local
  <2>3. work' = [work EXCEPT ![w] = l]
    BY <1>2, <2>1 DEF Goto, WalkInv, TypeInv
  <2>4. WorkerOK(l)
    BY <1>0, <1>2, <2>2 DEF WorkerOK, Fetching, Current
  <2> QED
    BY <1>0, <1>2, <2>3, <2>4, QuietStep
<1> QED
  BY <1>1, <1>2 DEF Drained

LEMMA BlockedKeeps ==
    ASSUME WalkInv, NEW w \in Workers, Blocked(w)
    PROVE  WalkInv'
<1>1. faults' \in 0 .. MaxFaults /\ UNCHANGED <<rows, sent>>
  BY DEF Blocked, WalkInv, TypeInv
<1>2. CASE Throw(w)
  BY <1>1, <1>2, ReturnStep
<1>3. CASE Pending = {} /\ Drained(w)
  BY <1>3, DrainedStep DEF Blocked
<1> QED
  BY <1>2, <1>3 DEF Blocked

LEMMA FetchKeeps ==
    ASSUME WalkInv, NEW w \in Workers, NEW page \in Page, Fetch(w, page)
    PROVE  WalkInv'
<1>0. /\ faults' \in 0 .. MaxFaults /\ UNCHANGED <<rows, sent>> /\ queue \subseteq 0 .. Len(outbox)
      /\ work[w] \in Local /\ WorkerOK(work[w])
  BY WalkAssumption DEF Fetch, WalkInv, TypeInv
<1>1. CASE Throw(w)
  BY <1>0, <1>1, ReturnStep
<1>2. ASSUME work' = [work EXCEPT ![w] = [@ EXCEPT !.pc = "fences", !.page = page]],
             UNCHANGED queue
      PROVE  WalkInv'
  <2>1. PICK l \in Local : l = [work[w] EXCEPT !.pc = "fences", !.page = page]
    BY <1>0 DEF Local, PCs
  <2>2. /\ l.pc = "fences" /\ l.msg = work[w].msg /\ l.active = work[w].active
        /\ l.budget = work[w].budget /\ l.cp = work[w].cp /\ l.claimed = work[w].claimed
        /\ l.page = page
    BY <1>0, <2>1 DEF Local
  <2>3. work' = [work EXCEPT ![w] = l]
    BY <1>2, <2>1
  <2>4. WorkerOK(l)
    BY <1>0, <2>2 DEF WorkerOK, Fetching, Current, Fetch
  <2> QED
    BY <1>0, <1>2, <2>3, <2>4, QuietStep
<1> QED
  BY <1>1, <1>2 DEF Fetch

LEMMA ReadFencesKeeps ==
    ASSUME WalkInv, NEW w \in Workers, ReadFences(w)
    PROVE  WalkInv'
<1>0. /\ faults' \in 0 .. MaxFaults /\ UNCHANGED <<rows, sent>> /\ queue \subseteq 0 .. Len(outbox)
      /\ work[w] \in Local /\ WorkerOK(work[w])
  BY DEF ReadFences, WalkInv, TypeInv
<1>1. CASE Throw(w)
  BY <1>0, <1>1, ReturnStep
<1>2. ASSUME Goto(w, "fingerprint"), UNCHANGED queue
      PROVE  WalkInv'
  <2>1. PICK l \in Local : l = [work[w] EXCEPT !.pc = "fingerprint"]
    BY <1>0 DEF Local, PCs
  <2>2. /\ l.pc = "fingerprint" /\ l.msg = work[w].msg /\ l.active = work[w].active
        /\ l.budget = work[w].budget /\ l.cp = work[w].cp /\ l.claimed = work[w].claimed
        /\ l.page = work[w].page
    BY <1>0, <2>1 DEF Local
  <2>3. work' = [work EXCEPT ![w] = l]
    BY <1>2, <2>1 DEF Goto, WalkInv, TypeInv
  <2>4. WorkerOK(l)
    BY <1>0, <2>2 DEF WorkerOK, Fetching, Current, ReadFences
  <2> QED
    BY <1>0, <1>2, <2>3, <2>4, QuietStep
<1> QED
  BY <1>1, <1>2 DEF ReadFences

\* The message of a claimed continuation is sent.
LEMMA PublishKeeps ==
    ASSUME WalkInv, NEW w \in Workers, Publish(w)
    PROVE  WalkInv'
<1>0. /\ UNCHANGED <<checkpoint, outbox, fingerprint, fence, faults>>
      /\ work \in [Workers -> Local] /\ work[w] \in Local /\ WorkerOK(work[w])
  BY DEF Publish, WalkInv, TypeInv, rows
<1>1. work[w].claimed \in 1 .. Len(outbox)
  BY <1>0, Rows DEF Publish, WorkerOK, Local, WalkInv
<1>2. sent \subseteq sent' /\ work[w].claimed \in sent'
  BY DEF Publish
<1>3. PICK l \in Local : l = [work[w] EXCEPT !.pc = "mark"]
  BY <1>0 DEF Local, PCs
<1>4. /\ l.pc = "mark" /\ l.msg = work[w].msg /\ l.active = work[w].active
      /\ l.budget = work[w].budget /\ l.cp = work[w].cp /\ l.claimed = work[w].claimed
  BY <1>0, <1>3 DEF Local
<1>5. work' = [work EXCEPT ![w] = l]
  BY <1>0, <1>3 DEF Publish, Goto
<1>6. TypeInv'
  <2>1. queue' \subseteq 0 .. Len(outbox) /\ sent' \subseteq 1 .. Len(outbox)
    <3>1. queue' = queue \cup {work[w].claimed} /\ sent' = sent \cup {work[w].claimed}
      BY DEF Publish
    <3>2. queue \subseteq 0 .. Len(outbox) /\ sent \subseteq 1 .. Len(outbox)
      BY DEF WalkInv, TypeInv
    <3>3. work[w].claimed \in 0 .. Len(outbox)
      BY <1>1
    <3> QED
      BY <1>1, <3>1, <3>2, <3>3
  <2> QED
    BY <1>0, <1>5, <2>1 DEF WalkInv, TypeInv
<1>7. Onward
  BY <1>0, <1>2, Rows DEF Onward, Pending, WalkInv
<1>8. WorkerOK(l)'
  BY <1>0, <1>2, <1>4 DEF WorkerOK, Fetching, Publish
<1>9. ChainInv' /\ CoverInv' /\ SentInv'
  BY <1>0, <1>2 DEF WalkInv, ChainInv, CoverInv, SentInv, Behind, Stand, At, Epoch
<1> QED
  BY <1>5, <1>6, <1>7, <1>8, <1>9, WorkerSteps DEF WalkInv

-----------------------------------------------------------------------------
(* Steps that write one row of the outbox and leave its cursor alone.      *)

LEMMA RowStep ==
    ASSUME WalkInv, UNCHANGED <<checkpoint, fingerprint, fence, sent>>,
           NEW n \in 1 .. Len(outbox), NEW r \in Intents,
           outbox' = [outbox EXCEPT ![n] = r],
           r.cursor = outbox[n].cursor, r.claimant <= Len(outbox),
           r.state = "delivered" => n \in sent \/ outbox[n].state = "delivered",
           outbox[n].state = "delivered" => r.state = "delivered"
    PROVE  /\ outbox' \in Seq(Intents) /\ Len(outbox') = Len(outbox)
           /\ Onward /\ ChainInv' /\ CoverInv' /\ SentInv'
<1>0. Len(outbox) \in Nat /\ \A k \in 1 .. Len(outbox) : outbox[k] \in Intents
  BY Rows DEF WalkInv
<1>1. /\ outbox' \in Seq(Intents) /\ Len(outbox') = Len(outbox)
      /\ \A k \in 1 .. Len(outbox) : outbox'[k] = IF k = n THEN r ELSE outbox[k]
  BY ExceptSeq DEF WalkInv, TypeInv
<1>2. DOMAIN outbox' = 1 .. Len(outbox) /\ DOMAIN outbox = 1 .. Len(outbox)
  BY <1>1, Rows, LenProperties DEF WalkInv
<1>3. \A k \in 1 .. Len(outbox) :
          /\ outbox'[k].cursor = outbox[k].cursor
          /\ outbox'[k].claimant <= Len(outbox)
          /\ outbox'[k].state = "delivered" => k \in sent \/ outbox[k].state = "delivered"
          /\ outbox[k].state = "delivered" => outbox'[k].state = "delivered"
  BY <1>1 DEF WalkInv, ChainInv
<1>4. \A k \in 0 .. Len(outbox) : Stand(k)' = Stand(k)
  BY <1>0, <1>3 DEF Stand
<1>5. At(checkpoint)' = At(checkpoint) /\ Epoch(checkpoint)' = Epoch(checkpoint) /\ Behind' = Behind
  BY <1>1 DEF At, Epoch, Behind
<1>6. Onward
  BY <1>0, <1>1, <1>2, <1>3 DEF Onward, Pending
<1>7. ChainInv'
  BY <1>0, <1>1, <1>3, <1>4, <1>5 DEF WalkInv, ChainInv
<1>8. CoverInv'
  <2>1. \A k \in 0 .. Behind - 1 : k \in 0 .. Len(outbox)
    BY <1>0 DEF Behind
  <2>2. \A k \in 0 .. Behind - 1 : k < Len(outbox) => k + 1 \in 0 .. Len(outbox)
    BY <1>0, <2>1
  <2> QED
    BY <1>1, <1>4, <1>5, <2>1, <2>2 DEF WalkInv, CoverInv
<1>9. SentInv'
  BY <1>0, <1>1, <1>3, <1>5 DEF WalkInv, SentInv
<1> QED
  BY <1>1, <1>6, <1>7, <1>8, <1>9

\* A claim, or the archiving of a row, together with the step of the worker that made it.
LEMMA RowWorkStep ==
    ASSUME WalkInv, UNCHANGED <<checkpoint, fingerprint, fence, queue, sent, faults>>,
           NEW n \in 1 .. Len(outbox), NEW r \in Intents,
           outbox' = [outbox EXCEPT ![n] = r],
           r.cursor = outbox[n].cursor, r.claimant <= Len(outbox),
           r.state = "delivered" => n \in sent \/ outbox[n].state = "delivered",
           outbox[n].state = "delivered" => r.state = "delivered",
           NEW w \in Workers, NEW l \in Local, work' = [work EXCEPT ![w] = l],
           WorkerOK(l)
    PROVE  WalkInv'
<1>1. /\ outbox' \in Seq(Intents) /\ Len(outbox') = Len(outbox)
      /\ Onward /\ ChainInv' /\ CoverInv' /\ SentInv'
  BY RowStep
<1>2. TypeInv'
  BY <1>1 DEF WalkInv, TypeInv
<1>3. WorkerOK(l)'
  BY <1>1, <1>2, SeenStands DEF WalkInv
<1> QED
  BY <1>1, <1>2, <1>3, WorkerSteps DEF WalkInv

LEMMA DrainKeeps ==
    ASSUME WalkInv, NEW w \in Workers, Drain(w)
    PROVE  WalkInv'
<1>0. /\ UNCHANGED <<checkpoint, fingerprint, fence, sent, faults>> /\ faults \in 0 .. MaxFaults
      /\ work \in [Workers -> Local] /\ work[w] \in Local /\ WorkerOK(work[w])
      /\ queue \subseteq 0 .. Len(outbox) /\ work[w].pc = "drain"
  BY DEF Drain, WalkInv, TypeInv
<1>1. ASSUME Pending # {}, outbox' = Claimed(Oldest, work[w].active), UNCHANGED queue,
             work' = [work EXCEPT ![w] = [@ EXCEPT !.pc = "publish", !.claimed = Oldest]]
      PROVE  WalkInv'
  <2>1. PICK n \in 1 .. Len(outbox) : n = Oldest /\ outbox[n].state # "delivered" /\ n # 0
    BY <1>1, PendingIs, Rows DEF WalkInv
  <2>2. n \in Nat /\ n # 0 /\ n <= Len(outbox) /\ outbox[n] \in Intents
    BY <2>1, Rows DEF WalkInv
  <2>3. PICK c \in Nat : c = work[w].active /\ c <= Len(outbox)
    BY <1>0 DEF Local, WorkerOK
  <2>4. PICK r \in Intents : r = [outbox[n] EXCEPT !.state = "claimed", !.leased = TRUE,
                                     !.claimant = c, !.version = outbox[n].version + 1]
    <3>1. PICK v \in Nat : v = outbox[n].version + 1
      BY <2>2 DEF Intents
    <3> QED
      BY <2>2, <2>3, <3>1 DEF Intents
  <2>5. r.state = "claimed" /\ r.claimant = c /\ r.cursor = outbox[n].cursor
    BY <2>2, <2>4 DEF Intents
  <2>6. outbox' = [outbox EXCEPT ![n] = r]
    BY <1>1, <2>1, <2>3, <2>4 DEF Claimed
  <2>7. PICK l \in Local : l = [work[w] EXCEPT !.pc = "publish", !.claimed = n]
    BY <1>0, <2>2 DEF Local, PCs
  <2>8. /\ l.pc = "publish" /\ l.msg = work[w].msg /\ l.active = work[w].active
        /\ l.budget = work[w].budget /\ l.cp = work[w].cp /\ l.claimed = n
    BY <1>0, <2>7 DEF Local
  <2>9. work' = [work EXCEPT ![w] = l]
    BY <1>1, <2>1, <2>7
  <2>10. WorkerOK(l)
    BY <1>0, <2>2, <2>8 DEF WorkerOK, Fetching
  <2>11. r.claimant <= Len(outbox) /\ r.state # "delivered"
    BY <2>3, <2>5
  <2> QED
    BY <1>0, <1>1, <2>1, <2>5, <2>6, <2>9, <2>10, <2>11, RowWorkStep
<1>2. ASSUME Goto(w, "blocked"), UNCHANGED <<outbox, queue>>
      PROVE  WalkInv'
  <2>1. PICK l \in Local : l = [work[w] EXCEPT !.pc = "blocked"]
    BY <1>0 DEF Local, PCs
  <2>2. /\ l.pc = "blocked" /\ l.msg = work[w].msg /\ l.active = work[w].active
        /\ l.budget = work[w].budget /\ l.cp = work[w].cp /\ l.claimed = work[w].claimed
    BY <1>0, <2>1 DEF Local
  <2>3. work' = [work EXCEPT ![w] = l]
    BY <1>0, <1>2, <2>1 DEF Goto
  <2>4. WorkerOK(l)
    BY <1>0, <2>2 DEF WorkerOK, Fetching
  <2> QED
    BY <1>0, <1>2, <2>3, <2>4, QuietStep DEF rows
<1>3. CASE Pending = {} /\ Drained(w) /\ UNCHANGED outbox
  BY <1>0, <1>3, DrainedStep DEF rows
<1> QED
  BY <1>1, <1>2, <1>3 DEF Drain

LEMMA MarkKeeps ==
    ASSUME WalkInv, NEW w \in Workers, Mark(w)
    PROVE  WalkInv'
<1>0. /\ UNCHANGED <<checkpoint, fingerprint, fence, sent, faults>> /\ faults \in 0 .. MaxFaults
      /\ work \in [Workers -> Local] /\ work[w] \in Local /\ WorkerOK(work[w])
      /\ work[w].pc = "mark"
  BY DEF Mark, WalkInv, TypeInv
<1>1. CASE Throw(w) /\ UNCHANGED outbox
  BY <1>0, <1>1, ReturnStep DEF rows
<1>2. ASSUME UNCHANGED queue,
             outbox' = [outbox EXCEPT ![work[w].claimed] =
                            [@ EXCEPT !.state = "delivered", !.leased = FALSE]],
             work' = [work EXCEPT ![w] = [@ EXCEPT
                            !.pc = IF work[w].final THEN "end" ELSE "drain", !.claimed = 0]]
      PROVE  WalkInv'
  <2>1. PICK n \in 1 .. Len(outbox) : n = work[w].claimed /\ n \in sent
    BY <1>0, Rows DEF WorkerOK, Local, WalkInv
  <2>2. outbox[n] \in Intents /\ outbox[n].claimant <= Len(outbox)
    BY Rows DEF WalkInv, ChainInv
  <2>3. PICK r \in Intents : r = [outbox[n] EXCEPT !.state = "delivered", !.leased = FALSE]
    BY <2>2 DEF Intents
  <2>4. r.state = "delivered" /\ r.claimant = outbox[n].claimant /\ r.cursor = outbox[n].cursor
    BY <2>2, <2>3 DEF Intents
  <2>5. outbox' = [outbox EXCEPT ![n] = r]
    BY <1>2, <2>1, <2>3
  <2>6. PICK pc \in {"end", "drain"} : pc = IF work[w].final THEN "end" ELSE "drain"
    OBVIOUS
  <2>7. PICK l \in Local : l = [work[w] EXCEPT !.pc = pc, !.claimed = 0]
    BY <1>0 DEF Local, PCs
  <2>8. /\ l.pc = pc /\ l.msg = work[w].msg /\ l.active = work[w].active
        /\ l.budget = work[w].budget /\ l.cp = work[w].cp /\ l.claimed = 0
    BY <1>0, <2>7 DEF Local
  <2>9. work' = [work EXCEPT ![w] = l]
    BY <1>2, <2>6, <2>7
  <2>10. Len(outbox) \in Nat
    BY Rows DEF WalkInv
  <2>11. WorkerOK(l)
    BY <1>0, <2>6, <2>8, <2>10 DEF WorkerOK, Fetching
  <2> QED
    BY <1>0, <1>2, <2>1, <2>2, <2>4, <2>5, <2>9, <2>11, RowWorkStep
<1> QED
  BY <1>1, <1>2 DEF Mark

\* The worker goes on under the continuation of the epoch it has committed.
LEMMA ClaimLocallyKeeps ==
    ASSUME WalkInv, NEW w \in Workers, ClaimLocally(w)
    PROVE  WalkInv'
<1>0. /\ UNCHANGED <<checkpoint, fingerprint, fence, sent, faults>> /\ faults \in 0 .. MaxFaults
      /\ work \in [Workers -> Local] /\ work[w] \in Local /\ WorkerOK(work[w])
      /\ work[w].pc = "claim"
  BY DEF ClaimLocally, WalkInv, TypeInv
<1>1. CASE Throw(w) /\ UNCHANGED outbox
  BY <1>0, <1>1, ReturnStep DEF rows
<1>2. ASSUME NEW n, n = work[w].cp.epoch, Pending # {}, Oldest = n, UNCHANGED queue,
             outbox' = Claimed(n, work[w].active),
             work' = [work EXCEPT ![w] = [@ EXCEPT
                            !.pc = "fetch", !.active = n, !.claimed = n,
                            !.version = outbox[n].version + 1, !.budget = outbox[n].budget]]
      PROVE  WalkInv'
  <2>1. n = Len(outbox) /\ n \in 1 .. Len(outbox) /\ outbox[n].state # "delivered"
    BY <1>2, PendingIs DEF WalkInv
  <2>2. n \in Nat /\ n # 0 /\ n <= Len(outbox) /\ outbox[n] \in Intents
    BY <2>1, Rows DEF WalkInv
  <2>3. PICK c \in Nat : c = work[w].active /\ c <= Len(outbox)
    BY <1>0 DEF Local, WorkerOK
  <2>4. PICK r \in Intents : r = [outbox[n] EXCEPT !.state = "claimed", !.leased = TRUE,
                                     !.claimant = c, !.version = outbox[n].version + 1]
    <3>1. PICK v \in Nat : v = outbox[n].version + 1
      BY <2>2 DEF Intents
    <3> QED
      BY <2>2, <2>3, <3>1 DEF Intents
  <2>5. r.state = "claimed" /\ r.claimant = c /\ r.cursor = outbox[n].cursor
    BY <2>2, <2>4 DEF Intents
  <2>6. outbox' = [outbox EXCEPT ![n] = r]
    BY <1>2, <2>3, <2>4 DEF Claimed
  <2>7. PICK v \in Nat, b \in 1 .. MaxPages : v = outbox[n].version + 1 /\ b = outbox[n].budget
    BY <2>2 DEF Intents
  <2>8. b \in Nat
    BY WalkAssumption
  <2>9. PICK l \in Local : l = [work[w] EXCEPT !.pc = "fetch", !.active = n, !.claimed = n,
                                               !.version = v, !.budget = b]
    BY <1>0, <2>2, <2>8 DEF Local, PCs
  <2>10. /\ l.pc = "fetch" /\ l.msg = work[w].msg /\ l.active = n
         /\ l.budget = b /\ l.cp = work[w].cp /\ l.claimed = n
    BY <1>0, <2>9 DEF Local
  <2>11. work' = [work EXCEPT ![w] = l]
    BY <1>2, <2>7, <2>9
  <2>12. WorkerOK(l)
    BY <1>0, <2>1, <2>2, <2>10 DEF WorkerOK, Fetching, Current
  <2>13. r.claimant <= Len(outbox) /\ r.state # "delivered"
    BY <2>3, <2>5
  <2> QED
    BY <1>0, <1>2, <2>1, <2>5, <2>6, <2>11, <2>12, <2>13, RowWorkStep
<1>3. ASSUME Pending # {}, outbox' = Claimed(Oldest, work[w].active), Throw(w)
      PROVE  WalkInv'
  <2>1. PICK n \in 1 .. Len(outbox) : n = Oldest /\ outbox[n].state # "delivered"
    BY <1>3, PendingIs, Rows DEF WalkInv
  <2>2. outbox[n] \in Intents
    BY <2>1, Rows DEF WalkInv
  <2>3. PICK c \in Nat : c = work[w].active /\ c <= Len(outbox)
    BY <1>0 DEF Local, WorkerOK
  <2>4. PICK r \in Intents : r = [outbox[n] EXCEPT !.state = "claimed", !.leased = TRUE,
                                     !.claimant = c, !.version = outbox[n].version + 1]
    <3>1. PICK v \in Nat : v = outbox[n].version + 1
      BY <2>2 DEF Intents
    <3> QED
      BY <2>2, <2>3, <3>1 DEF Intents
  <2>5. r.state = "claimed" /\ r.claimant = c /\ r.cursor = outbox[n].cursor
    BY <2>2, <2>4 DEF Intents
  <2>6. outbox' = [outbox EXCEPT ![n] = r]
    BY <1>3, <2>1, <2>3, <2>4 DEF Claimed
  <2>7. work' = [work EXCEPT ![w] = Idle] /\ UNCHANGED queue
    BY <1>3 DEF Throw
  <2>8. WorkerOK(Idle) /\ Idle \in Local
    BY IdleOK, IdleIs DEF WalkInv
  <2>9. r.claimant <= Len(outbox) /\ r.state # "delivered"
    BY <2>3, <2>5
  <2> QED
    BY <1>0, <2>1, <2>5, <2>6, <2>7, <2>8, <2>9, RowWorkStep
<1> QED
  BY <1>1, <1>2, <1>3 DEF ClaimLocally

LEMMA LeaseKeeps ==
    ASSUME WalkInv, NEW n \in DOMAIN outbox, LeaseRunsOut(n)
    PROVE  WalkInv'
<1>0. n \in 1 .. Len(outbox) /\ outbox[n] \in Intents /\ outbox[n].claimant <= Len(outbox)
  BY Rows DEF WalkInv, ChainInv
<1>1. PICK r \in Intents : r = [outbox[n] EXCEPT !.leased = FALSE]
  BY <1>0 DEF Intents
<1>2. /\ r.state = outbox[n].state /\ r.claimant = outbox[n].claimant
      /\ r.cursor = outbox[n].cursor
  BY <1>0, <1>1 DEF Intents
<1>3. outbox' = [outbox EXCEPT ![n] = r] /\ UNCHANGED <<checkpoint, fingerprint, fence, sent>>
  BY <1>1 DEF LeaseRunsOut
<1>4. /\ outbox' \in Seq(Intents) /\ Len(outbox') = Len(outbox)
      /\ Onward /\ ChainInv' /\ CoverInv' /\ SentInv'
  BY <1>0, <1>2, <1>3, RowStep
<1>5. TypeInv'
  BY <1>4 DEF WalkInv, TypeInv, LeaseRunsOut
<1>6. ASSUME NEW v \in Workers PROVE WorkerOK(work[v])'
  <2>1. PICK k \in Local : k = work[v]
    BY DEF WalkInv, TypeInv
  <2>2. WorkerOK(k)'
    BY <2>1, <1>4, <1>5, SeenStands DEF WalkInv
  <2>3. work'[v] = k
    BY <2>1 DEF LeaseRunsOut
  <2> QED
    BY <2>2, <2>3 DEF WorkerOK, Current
<1> QED
  BY <1>4, <1>5, <1>6 DEF WalkInv

-----------------------------------------------------------------------------
(* Steps that write a fingerprint or a fence: once each.                   *)

\* The rows of the walk stay; an answer or a fence that is there is not overwritten.
LEMMA AnswerStep ==
    ASSUME WalkInv, UNCHANGED <<checkpoint, outbox, queue, sent, faults>>,
           fingerprint' \in [Positions -> Page \cup {None}],
           fence' \in [Events -> Positions \cup {None}],
           \A p \in Positions : fingerprint[p] # None => fingerprint'[p] = fingerprint[p],
           \A e \in Events : fence[e] # None => fence'[e] = fence[e],
           NEW w \in Workers, NEW l \in Local, work' = [work EXCEPT ![w] = l], WorkerOK(l)'
    PROVE  WalkInv'
<1>1. TypeInv'
  BY DEF WalkInv, TypeInv
<1>2. Onward
  BY Rows DEF Onward, Pending, WalkInv
<1>3. ChainInv' /\ SentInv'
  BY DEF WalkInv, ChainInv, SentInv, Behind, Stand, At, Epoch
<1>4. CoverInv'
  <2>1. Behind' = Behind /\ \A k \in 0 .. Len(outbox) : Stand(k)' = Stand(k)
    BY DEF Behind, Stand, At
  <2>2. ASSUME NEW n \in 0 .. Behind - 1
        PROVE  /\ n \in 0 .. Len(outbox) /\ Stand(n) \in Positions /\ fingerprint[Stand(n)] # None
               /\ fingerprint[Stand(n)].next
                      = IF n < Len(outbox) THEN Stand(n + 1) ELSE Terminal
               /\ \A e \in fingerprint[Stand(n)].events : e \in Events /\ fence[e] = Stand(n)
    <3>1. n \in 0 .. Len(outbox)
      BY Rows DEF Behind, WalkInv
    <3>2. Stand(n) \in Positions
      BY <3>1, Rows DEF WalkInv
    <3>3. fingerprint[Stand(n)] # None => fingerprint[Stand(n)].events \subseteq Events
      BY <3>2 DEF WalkInv, TypeInv, Page
    <3> QED
      BY <3>1, <3>2, <3>3 DEF WalkInv, CoverInv
  <2>3. \A n \in 0 .. Behind - 1 : n < Len(outbox) => n + 1 \in 0 .. Len(outbox)
    BY <2>2, Rows DEF WalkInv
  <2>4. ASSUME NEW n \in 0 .. Behind - 1
        PROVE  /\ fingerprint'[Stand(n)] = fingerprint[Stand(n)]
               /\ \A e \in fingerprint[Stand(n)].events : fence'[e] = Stand(n)
    BY <2>2, Names
  <2> QED
    BY <2>1, <2>2, <2>3, <2>4 DEF CoverInv
<1> QED
  BY <1>1, <1>2, <1>3, <1>4, WorkerSteps DEF WalkInv

LEMMA PutFingerprintKeeps ==
    ASSUME WalkInv, NEW w \in Workers, PutFingerprint(w)
    PROVE  WalkInv'
<1>0. /\ UNCHANGED <<checkpoint, outbox, fence, queue, sent, faults>> /\ faults \in 0 .. MaxFaults
      /\ work \in [Workers -> Local] /\ work[w] \in Local /\ WorkerOK(work[w])
      /\ work[w].pc = "fingerprint"
  BY DEF PutFingerprint, WalkInv, TypeInv
<1>1. CASE Throw(w) /\ UNCHANGED fingerprint
  BY <1>0, <1>1, ReturnStep DEF rows
<1>2. ASSUME Matches(w),
             fingerprint' = [fingerprint EXCEPT ![At(work[w].cp)] = work[w].page],
             work' = [work EXCEPT ![w] = [@ EXCEPT
                            !.pc = "ingest", !.todo = work[w].page.events, !.conflict = FALSE]]
      PROVE  WalkInv'
  <2>1. PICK page \in Page : page = work[w].page
    BY <1>0 DEF WorkerOK, Fetching
  <2>2. page.events \subseteq Events /\ page # None
    BY Names DEF Page
  <2>3. PICK p \in Positions : p = At(work[w].cp)
    BY <1>0, Reading DEF WorkerOK, Fetching, Local
  <2>4. PICK l \in Local : l = [work[w] EXCEPT !.pc = "ingest", !.todo = page.events,
                                               !.conflict = FALSE]
    BY <1>0, <2>2 DEF Local, PCs
  <2>5. /\ l.pc = "ingest" /\ l.msg = work[w].msg /\ l.active = work[w].active
        /\ l.budget = work[w].budget /\ l.cp = work[w].cp /\ l.claimed = work[w].claimed
        /\ l.page = page /\ l.todo = page.events
    BY <1>0, <2>1, <2>4 DEF Local
  <2>6. work' = [work EXCEPT ![w] = l]
    BY <1>2, <2>1, <2>4
  <2>7. /\ fingerprint' \in [Positions -> Page \cup {None}] /\ fingerprint'[p] = page
        /\ \A q \in Positions : fingerprint[q] # None => fingerprint'[q] = fingerprint[q]
    BY <1>2, <2>1, <2>2, <2>3 DEF WalkInv, TypeInv, Matches
  <2>8. WorkerOK(l)'
    <3>1. /\ l.msg <= Len(outbox) /\ l.active <= Len(outbox) /\ l.claimed <= Len(outbox)
          /\ Epoch(l.cp) <= Len(outbox) /\ Rev(l.cp) <= Rev(checkpoint)
          /\ l.budget \in 1 .. MaxPages /\ At(l.cp) # Terminal /\ Current(l)
      BY <1>0, <2>5 DEF WorkerOK, Fetching, Current
    <3>2. fingerprint'[At(l.cp)] = l.page
      BY <2>3, <2>5, <2>7
    <3> QED
      BY <1>0, <2>5, <3>1, <3>2 DEF WorkerOK, Fetching, Current, Pending
  <2> QED
    BY <1>0, <2>6, <2>7, <2>8, AnswerStep DEF WalkInv, TypeInv
<1> QED
  BY <1>1, <1>2 DEF PutFingerprint

LEMMA IngestKeeps ==
    ASSUME WalkInv, NEW w \in Workers, NEW e \in Events, Ingest(w, e)
    PROVE  WalkInv'
<1>0. /\ UNCHANGED <<checkpoint, outbox, fingerprint, queue, sent, faults>>
      /\ work \in [Workers -> Local] /\ work[w] \in Local /\ WorkerOK(work[w])
      /\ work[w].pc = "ingest" /\ fence \in [Events -> Positions \cup {None}]
  BY DEF Ingest, WalkInv, TypeInv
<1>1. PICK p \in Positions : p = At(work[w].cp)
  BY <1>0, Reading DEF WorkerOK, Fetching, Local
<1>2. /\ fence' \in [Events -> Positions \cup {None}]
      /\ \A f \in Events : fence[f] # None => fence'[f] = fence[f]
      /\ \A f \in Events \ {e} : fence'[f] = fence[f]
      /\ MayHold(e, p) => fence'[e] = p
  BY <1>0, <1>1 DEF Ingest, MayHold
<1>3. PICK todo \in SUBSET Events, c \in BOOLEAN :
          todo = work[w].todo \ {e} /\ c = (work[w].conflict \/ ~MayHold(e, p))
  BY <1>0 DEF Local
<1>4. PICK l \in Local : l = [work[w] EXCEPT !.todo = todo, !.conflict = c]
  BY <1>0 DEF Local
<1>5. /\ l.pc = "ingest" /\ l.msg = work[w].msg /\ l.active = work[w].active
      /\ l.budget = work[w].budget /\ l.cp = work[w].cp /\ l.claimed = work[w].claimed
      /\ l.page = work[w].page /\ l.todo = todo /\ l.conflict = c
  BY <1>0, <1>4 DEF Local
<1>6. work' = [work EXCEPT ![w] = l]
  BY <1>1, <1>3, <1>4 DEF Ingest
<1>7. /\ l.page \in Page /\ l.page.events \subseteq Events
      /\ fingerprint[At(l.cp)] = l.page /\ l.todo \subseteq l.page.events
  BY <1>0, <1>3, <1>5 DEF WorkerOK, Fetching, Page
<1>8. ASSUME ~l.conflict, NEW f \in l.page.events \ l.todo PROVE fence'[f] = At(l.cp)
  <2>1. MayHold(e, p) /\ ~work[w].conflict
    BY <1>3, <1>5, <1>8
  <2>2. CASE f = e
    BY <1>1, <1>2, <1>5, <2>1, <2>2
  <2>3. CASE f # e
    <3>1. f \in work[w].page.events \ work[w].todo /\ f \in Events
      BY <1>3, <1>5, <1>7, <1>8, <2>3
    <3>2. fence[f] = p
      BY <1>0, <1>1, <2>1, <3>1 DEF WorkerOK
    <3> QED
      BY <1>1, <1>2, <1>5, <2>3, <3>1, <3>2
  <2> QED
    BY <2>2, <2>3
<1>9. WorkerOK(l)'
  <2>1. /\ l.msg <= Len(outbox) /\ l.active <= Len(outbox) /\ l.claimed <= Len(outbox)
        /\ Epoch(l.cp) <= Len(outbox) /\ Rev(l.cp) <= Rev(checkpoint)
        /\ l.budget \in 1 .. MaxPages /\ At(l.cp) # Terminal /\ Current(l)
    BY <1>0, <1>5 DEF WorkerOK, Fetching, Current
  <2> QED
    BY <1>0, <1>5, <1>7, <1>8, <2>1 DEF WorkerOK, Fetching, Current, Pending
<1> QED
  BY <1>0, <1>2, <1>6, <1>9, AnswerStep DEF WalkInv, TypeInv

-----------------------------------------------------------------------------
(* Steps that write the checkpoint.                                        *)

\* The bootstrap writes it where it stands.
LEMMA BootstrapKeeps ==
    ASSUME WalkInv, NEW w \in Workers, Bootstrap(w)
    PROVE  WalkInv'
<1>0. /\ UNCHANGED <<outbox, fingerprint, fence, queue, sent, faults>> /\ faults \in 0 .. MaxFaults
      /\ work \in [Workers -> Local] /\ work[w] \in Local /\ WorkerOK(work[w])
      /\ work[w].pc = "ingest" /\ checkpoint \in Stop \cup {None}
  BY DEF Bootstrap, WalkInv, TypeInv
<1>1. CASE Throw(w) /\ UNCHANGED checkpoint
  BY <1>0, <1>1, ReturnStep DEF rows
<1>2. ASSUME NEW next, checkpoint = work[w].cp, checkpoint' = next,
             next = [pos |-> At(checkpoint), epoch |-> Epoch(checkpoint),
                     rev |-> IF checkpoint = None THEN 1 ELSE checkpoint.rev + 1],
             work' = [work EXCEPT ![w].cp = next]
      PROVE  WalkInv'
  <2>1. PICK p \in Positions, n \in Nat, v \in Nat :
            /\ p = At(checkpoint) /\ n = Epoch(checkpoint)
            /\ v = Rev(checkpoint) + 1
    BY <1>0, <1>2, Reading DEF WorkerOK, Fetching
  <2>2. next = [pos |-> p, epoch |-> n, rev |-> v]
    BY <1>2, <2>1 DEF Rev
  <2>3. next \in Stop /\ next.pos = p /\ next.epoch = n /\ next.rev = v /\ next # None
    BY <2>2, Names DEF Stop
  <2>4. At(next) = p /\ Epoch(next) = n /\ Rev(next) = v
    BY <2>3 DEF At, Epoch, Rev
  <2>5. At(checkpoint)' = At(checkpoint) /\ Epoch(checkpoint)' = Epoch(checkpoint)
    BY <1>2, <2>1, <2>4 DEF At, Epoch
  <2>6. Onward
    BY <1>0, <1>2, <2>1, <2>4, Rows, Reading DEF Onward, WalkInv
  <2>7. PICK l \in Local : l = [work[w] EXCEPT !.cp = next]
    BY <1>0, <2>3 DEF Local
  <2>8. /\ l.pc = "ingest" /\ l.msg = work[w].msg /\ l.active = work[w].active
        /\ l.budget = work[w].budget /\ l.cp = next /\ l.claimed = work[w].claimed
        /\ l.page = work[w].page /\ l.todo = work[w].todo /\ l.conflict = work[w].conflict
    BY <1>0, <2>7 DEF Local
  <2>9. work' = [work EXCEPT ![w] = l]
    BY <1>0, <1>2, <2>7
  <2>10. TypeInv'
    BY <1>0, <1>2, <2>3, <2>9 DEF WalkInv, TypeInv
  <2>11. At(l.cp) = At(work[w].cp) /\ Epoch(l.cp) = Epoch(work[w].cp) /\ Rev(l.cp) = Rev(checkpoint')
    BY <1>2, <2>1, <2>4, <2>8
  <2>12. WorkerOK(l)'
    <3>1. Rev(l.cp) <= Rev(checkpoint)'
      BY <1>2, <2>1, <2>4, <2>8 DEF Rev
    <3>2. IF l.claimed = 0 THEN Pending' = {} ELSE l.claimed = Len(outbox)
      BY <1>0, <1>2, <2>8 DEF WorkerOK, Fetching, Current, Pending
    <3> QED
      BY <1>0, <2>8, <2>11, <3>1, <3>2 DEF WorkerOK, Fetching, Current
  <2>13. ChainInv' /\ CoverInv' /\ SentInv'
    BY <1>0, <2>5 DEF WalkInv, ChainInv, CoverInv, SentInv, Behind, Stand
  <2> QED
    BY <2>6, <2>9, <2>10, <2>12, <2>13, WorkerSteps DEF WalkInv
<1> QED
  BY <1>1, <1>2 DEF Bootstrap

\* The commit that is not refused.
Takes(w) == Commit(w) /\ ~work[w].conflict /\ Committable(w)

\* The continuation it consumes is archived, and no other row changes.
LEMMA ConsumedIs ==
    ASSUME WalkInv, NEW w \in Workers, Takes(w)
    PROVE  /\ Consumed(w) \in Seq(Intents) /\ Len(Consumed(w)) = Len(outbox)
           /\ \A k \in 1 .. Len(outbox) :
                  /\ Consumed(w)[k].cursor = outbox[k].cursor
                  /\ Consumed(w)[k].claimant = outbox[k].claimant
                  /\ Consumed(w)[k].state = "delivered"
<1>0. /\ work[w] \in Local /\ WorkerOK(work[w]) /\ work[w].pc = "ingest" /\ checkpoint = work[w].cp
  BY DEF Takes, Commit, Committable, WalkInv, TypeInv
<1>1. IF work[w].claimed = 0 THEN Pending = {} ELSE work[w].claimed = Len(outbox)
  BY <1>0 DEF WorkerOK, Fetching, Current
<1>2. Len(outbox) \in Nat /\ \A k \in 1 .. Len(outbox) : outbox[k] \in Intents
  BY Rows DEF WalkInv
<1>3. CASE work[w].claimed = 0
  BY <1>1, <1>2, <1>3, Rows DEF Consumed, Pending, WalkInv, TypeInv
<1>4. CASE work[w].claimed # 0
  <2>1. PICK n \in 1 .. Len(outbox) : n = work[w].claimed /\ n = Len(outbox)
    BY <1>0, <1>1, <1>2, <1>4 DEF Local
  <2>2. outbox[n] \in Intents
    BY <1>2
  <2>3. PICK r \in Intents : r = [outbox[n] EXCEPT !.state = "delivered", !.leased = FALSE]
    BY <2>2 DEF Intents
  <2>4. r.state = "delivered" /\ r.claimant = outbox[n].claimant /\ r.cursor = outbox[n].cursor
    BY <2>2, <2>3 DEF Intents
  <2>5. Consumed(w) = [outbox EXCEPT ![n] = r]
    BY <1>4, <2>1, <2>3 DEF Consumed
  <2>6. /\ Consumed(w) \in Seq(Intents) /\ Len(Consumed(w)) = Len(outbox)
        /\ \A k \in 1 .. Len(outbox) : Consumed(w)[k] = IF k = n THEN r ELSE outbox[k]
    BY <2>5, ExceptSeq DEF WalkInv, TypeInv
  <2>7. \A k \in 1 .. Len(outbox) : k # n => outbox[k].state = "delivered"
    BY <1>2, <2>1 DEF WalkInv, SentInv
  <2> QED
    BY <2>4, <2>6, <2>7
<1> QED
  BY <1>3, <1>4

\* The page it takes, and where the checkpoint and the outbox stand then.
LEMMA PageTaken ==
    ASSUME WalkInv, NEW w \in Workers, Takes(w)
    PROVE  /\ work[w].page \in Page /\ work[w].page.next \in Cursors \cup {Terminal}
           /\ At(checkpoint) = Stand(Len(outbox)) /\ At(checkpoint) # Terminal
           /\ fingerprint[Stand(Len(outbox))] = work[w].page
           /\ \A e \in work[w].page.events : fence[e] = Stand(Len(outbox))
           /\ \A k \in 1 .. Len(outbox) : outbox[k].cursor # work[w].page.next
           /\ checkpoint' \in Stop /\ At(checkpoint)' = work[w].page.next
           /\ Rev(checkpoint') = Rev(checkpoint) + 1
           /\ Epoch(checkpoint)' = Len(outbox')
<1>0. /\ work[w] \in Local /\ WorkerOK(work[w]) /\ work[w].pc = "ingest" /\ checkpoint = work[w].cp
      /\ work[w].todo = {} /\ ~work[w].conflict /\ work[w].page.next \notin Markers
      /\ checkpoint \in Stop \cup {None} /\ checkpoint' = Committed(w)
  BY DEF Takes, Commit, Committable, WalkInv, TypeInv
<1>1. /\ work[w].page \in Page /\ At(checkpoint) # Terminal
      /\ fingerprint[At(checkpoint)] = work[w].page
      /\ \A e \in work[w].page.events : fence[e] = At(checkpoint)
  BY <1>0 DEF WorkerOK, Fetching
<1>2. At(checkpoint) = Stand(Len(outbox)) /\ Epoch(checkpoint) = Len(outbox)
  BY <1>1 DEF WalkInv, ChainInv
<1>3. PICK next \in Cursors \cup {Terminal} : next = work[w].page.next
  BY <1>1 DEF Page
<1>4. Len(outbox) \in Nat /\ Epoch(checkpoint) \in Nat /\ Rev(checkpoint) \in Nat
  BY <1>0, Rows, Reading DEF WalkInv
<1>5. Len(outbox') = Len(outbox) + (IF next = Terminal THEN 0 ELSE 1)
  <2>1. Consumed(w) \in Seq(Intents) /\ Len(Consumed(w)) = Len(outbox)
    BY ConsumedIs
  <2>2. Len(Append(Consumed(w), Intent(w))) = Len(outbox) + 1
    <3>1. Consumed(w) \in Seq(Intents \cup {Intent(w)})
      BY <2>1, SeqMonotonic
    <3> QED
      BY <2>1, <3>1, AppendProperties
  <2>3. outbox' = IF next = Terminal THEN Consumed(w) ELSE Append(Consumed(w), Intent(w))
    BY <1>3 DEF Takes, Commit
  <2> QED
    BY <1>4, <2>1, <2>2, <2>3
<1>6. PICK n \in Nat, v \in Nat : /\ n = Epoch(checkpoint) + (IF next = Terminal THEN 0 ELSE 1)
                                 /\ v = Rev(checkpoint) + 1
  BY <1>4
<1>7. checkpoint' = [pos |-> next, epoch |-> n, rev |-> v]
  BY <1>0, <1>3, <1>6 DEF Committed, Rev
<1>8. checkpoint' \in Stop /\ checkpoint'.pos = next /\ checkpoint'.epoch = n /\ checkpoint'.rev = v
  BY <1>7 DEF Stop, Positions
<1>9. checkpoint' # None
  BY <1>8, Names
<1>10. At(checkpoint)' = next /\ Rev(checkpoint') = v /\ Epoch(checkpoint)' = n
  BY <1>8, <1>9 DEF At, Rev, Epoch
<1>11. \A k \in 1 .. Len(outbox) : outbox[k].cursor # next
  BY <1>0, <1>3, Rows DEF Markers, WalkInv
<1> QED
  BY <1>1, <1>2, <1>3, <1>5, <1>6, <1>8, <1>10, <1>11

LEMMA OutboxGrows ==
    ASSUME WalkInv, NEW w \in Workers, Takes(w)
    PROVE  /\ outbox' \in Seq(Intents)
           /\ Len(outbox') = IF work[w].page.next = Terminal THEN Len(outbox) ELSE Len(outbox) + 1
           /\ \A k \in 1 .. Len(outbox) : /\ outbox'[k].cursor = outbox[k].cursor
                                         /\ outbox'[k].claimant <= Len(outbox)
                                         /\ outbox'[k].state = "delivered"
           /\ work[w].page.next # Terminal =>
                  /\ outbox'[Len(outbox) + 1].cursor = work[w].page.next
                  /\ outbox'[Len(outbox) + 1].claimant = 0
                  /\ outbox'[Len(outbox) + 1].state = "intent"
<1>0. Len(outbox) \in Nat
  BY Rows DEF WalkInv
<1>1. /\ Consumed(w) \in Seq(Intents) /\ Len(Consumed(w)) = Len(outbox)
      /\ \A k \in 1 .. Len(outbox) :
                  /\ Consumed(w)[k].cursor = outbox[k].cursor
                  /\ Consumed(w)[k].claimant <= Len(outbox)
                  /\ Consumed(w)[k].state = "delivered"
  BY ConsumedIs DEF WalkInv, ChainInv
<1>2. CASE work[w].page.next = Terminal
  BY <1>1, <1>2 DEF Takes, Commit
<1>3. CASE work[w].page.next # Terminal
  <2>1. outbox' = Append(Consumed(w), Intent(w))
    BY <1>3 DEF Takes, Commit
  <2>2. PICK next \in Cursors : next = work[w].page.next
    BY <1>3, PageTaken
  <2>3. PICK b \in 1 .. MaxPages : b = IF work[w].budget > 1 THEN work[w].budget - 1 ELSE 1
    BY WalkAssumption DEF Takes, Commit, WalkInv, WorkerOK
  <2>4. Intent(w) = [state |-> "intent", claimant |-> 0, leased |-> FALSE, version |-> 1,
                     cursor |-> next, budget |-> b]
    BY <2>2, <2>3 DEF Intent
  <2>5. Intent(w) \in Intents /\ Intent(w).cursor = next /\ Intent(w).claimant = 0
        /\ Intent(w).state = "intent"
    BY <2>4 DEF Intents
  <2>6. /\ outbox' \in Seq(Intents) /\ Len(outbox') = Len(outbox) + 1
        /\ \A k \in 1 .. Len(outbox) : outbox'[k] = Consumed(w)[k]
        /\ outbox'[Len(outbox) + 1] = Intent(w)
    BY <1>1, <2>1, <2>5, AppendProperties
  <2> QED
    BY <1>1, <1>3, <2>2, <2>5, <2>6
<1> QED
  BY <1>2, <1>3

\* How far the walk is then.
LEMMA WalkGrows ==
    ASSUME WalkInv, NEW w \in Workers, Takes(w)
    PROVE  /\ Behind = Len(outbox) /\ Behind' = Len(outbox) + 1
           /\ \A k \in 0 .. Len(outbox) : Stand(k)' = Stand(k)
           /\ \A k : k = Len(outbox) + 1 /\ work[w].page.next # Terminal
                     => Stand(k)' = work[w].page.next
<1>1. Len(outbox) \in Nat
  BY Rows DEF WalkInv
<1>2. Behind = Len(outbox)
  BY PageTaken DEF Behind
<1>3. Behind' = Len(outbox) + 1
  BY <1>1, PageTaken, OutboxGrows DEF Behind
<1>4. \A k \in 0 .. Len(outbox) : Stand(k)' = Stand(k)
  BY <1>1, OutboxGrows DEF Stand
<1>5. \A k : k = Len(outbox) + 1 /\ work[w].page.next # Terminal
                 => Stand(k)' = work[w].page.next
  BY <1>1, OutboxGrows DEF Stand
<1> QED
  BY <1>2, <1>3, <1>4, <1>5

LEMMA TakesKeeps ==
    ASSUME WalkInv, NEW w \in Workers, Takes(w)
    PROVE  WalkInv'
<1>0. /\ UNCHANGED <<fingerprint, fence, queue, sent, faults>>
      /\ work \in [Workers -> Local] /\ work[w] \in Local /\ WorkerOK(work[w])
      /\ work[w].pc = "ingest" /\ Len(outbox) \in Nat
  BY Rows DEF Takes, Commit, WalkInv, TypeInv
<1>1. PICK n \in Nat : n = Len(outbox)
  BY <1>0
<1>2. Len(outbox') \in Nat /\ n <= Len(outbox')
  BY <1>1, OutboxGrows
<1>3. /\ checkpoint \in Stop \cup {None} /\ checkpoint' \in Stop /\ Rev(checkpoint) \in Nat
      /\ Rev(checkpoint') = Rev(checkpoint) + 1 /\ Epoch(checkpoint)' = Len(outbox')
  BY Reading, PageTaken DEF WalkInv, TypeInv
<1>4. Onward
  BY <1>0, <1>1, <1>2, <1>3 DEF Onward
<1>5. PICK pc \in {"end", "claim", "drain"}, f \in BOOLEAN :
          /\ work' = [work EXCEPT ![w] = [@ EXCEPT !.cp = checkpoint', !.claimed = 0,
                                                   !.final = f, !.pc = pc]]
          /\ pc = "claim" => work[w].page.next # Terminal
  <2>1. /\ work' = [work EXCEPT ![w] = [@ EXCEPT
                    !.cp = Committed(w), !.claimed = 0, !.final = work[w].budget = 1,
                    !.pc = IF work[w].page.next = Terminal THEN "end"
                           ELSE IF work[w].budget > 1 THEN "claim" ELSE "drain"]]
        /\ checkpoint' = Committed(w)
    BY DEF Takes, Commit
  <2>2. PICK f \in BOOLEAN : f = (work[w].budget = 1)
    OBVIOUS
  <2>3. PICK pc \in {"end", "claim", "drain"} :
            /\ pc = IF work[w].page.next = Terminal THEN "end"
                    ELSE IF work[w].budget > 1 THEN "claim" ELSE "drain"
            /\ pc = "claim" => work[w].page.next # Terminal
    OBVIOUS
  <2> QED
    BY <2>1, <2>2, <2>3
<1>6. PICK cp \in Stop : cp = checkpoint'
  BY <1>3
<1>7. PICK l \in Local : l = [work[w] EXCEPT !.cp = cp, !.claimed = 0, !.final = f, !.pc = pc]
  BY <1>0 DEF Local, PCs
<1>8. /\ l.pc = pc /\ l.msg = work[w].msg /\ l.active = work[w].active
      /\ l.budget = work[w].budget /\ l.cp = cp /\ l.claimed = 0
  BY <1>0, <1>7 DEF Local
<1>9. work' = [work EXCEPT ![w] = l]
  BY <1>5, <1>6, <1>7
<1>10. TypeInv'
  <2>1. queue' \subseteq 0 .. Len(outbox') /\ sent' \subseteq 1 .. Len(outbox')
    BY <1>0, <1>1, <1>2 DEF WalkInv, TypeInv
  <2> QED
    BY <1>0, <1>3, <1>9, <2>1, OutboxGrows DEF WalkInv, TypeInv
<1>11. WorkerOK(l)'
  <2>1. Epoch(cp) = Len(outbox') /\ Rev(cp) = Rev(checkpoint') /\ At(cp) = work[w].page.next
        /\ cp # None
    BY <1>3, <1>6, PageTaken, Names DEF Epoch, Rev, At
  <2>2. /\ l.msg \in Nat /\ l.active \in Nat /\ l.msg <= n /\ l.active <= n
    BY <1>0, <1>1, <1>8 DEF WorkerOK, Local
  <2>3. /\ l.msg <= Len(outbox') /\ l.active <= Len(outbox') /\ l.claimed <= Len(outbox')
        /\ Epoch(l.cp) <= Len(outbox') /\ Rev(l.cp) <= Rev(checkpoint')
    BY <1>2, <1>3, <1>8, <2>1, <2>2
  <2>4. l.budget \in 1 .. MaxPages
    BY <1>0, <1>8 DEF WorkerOK
  <2>5. l.pc = "claim" => At(l.cp) # Terminal /\ l.cp # None
    BY <1>5, <1>8, <2>1
  <2> QED
    BY <1>8, <2>3, <2>4, <2>5 DEF WorkerOK, Fetching, Rev
<1>12. ChainInv'
  <2>1. At(checkpoint)' \in {Terminal, Stand(Len(outbox))'}
    <3>1. CASE work[w].page.next = Terminal
      BY <3>1, PageTaken
    <3>2. CASE work[w].page.next # Terminal
      <4>1. Len(outbox') = n + 1
        BY <1>1, <3>2, OutboxGrows
      <4>2. Stand(Len(outbox))' = outbox'[n + 1].cursor
        BY <1>1, <4>1 DEF Stand
      <4> QED
        BY <1>1, <3>2, <4>2, PageTaken, OutboxGrows
    <3> QED
      BY <3>1, <3>2
  <2>2. \A i, k \in 1 .. Len(outbox') : outbox'[i].cursor = outbox'[k].cursor => i = k
    BY <1>0, <1>1, OutboxGrows, PageTaken DEF WalkInv, ChainInv
  <2>3. \A k \in 1 .. Len(outbox') : outbox'[k].claimant <= Len(outbox')
    <3>1. \A k \in 1 .. n : outbox'[k].claimant <= n
      BY <1>1, OutboxGrows
    <3>2. \A k \in 1 .. n : outbox'[k].claimant \in Nat
      <4>1. \A k \in 1 .. Len(outbox') : outbox'[k] \in Intents
        BY OutboxGrows, ElementOfSeq
      <4> QED
        BY <1>2, <4>1 DEF Intents
    <3>3. CASE work[w].page.next = Terminal
      BY <1>1, <3>1, <3>3, OutboxGrows
    <3>4. CASE work[w].page.next # Terminal
      <4>1. Len(outbox') = n + 1 /\ outbox'[n + 1].claimant = 0
        BY <1>1, <3>4, OutboxGrows
      <4> QED
        BY <1>1, <3>1, <3>2, <4>1
    <3> QED
      BY <3>3, <3>4
  <2> QED
    BY <1>3, <2>1, <2>2, <2>3 DEF ChainInv
<1>13. CoverInv'
  <2>1. ASSUME NEW k \in 0 .. Behind' - 1, k # n
        PROVE  /\ k \in 0 .. Behind - 1 /\ k < n /\ k + 1 \in 0 .. n
               /\ Stand(k)' = Stand(k) /\ Stand(k + 1)' = Stand(k + 1)
    BY <1>1, <2>1, WalkGrows
  <2>2. \A k \in 0 .. Behind' - 1 : k # n =>
            /\ fingerprint'[Stand(k)'] # None
            /\ fingerprint'[Stand(k)'].next = IF k < Len(outbox') THEN Stand(k + 1)' ELSE Terminal
            /\ \A e \in fingerprint'[Stand(k)'].events : fence'[e] = Stand(k)'
    BY <1>0, <1>1, <1>2, <2>1 DEF WalkInv, CoverInv
  <2>3. /\ fingerprint'[Stand(n)'] = work[w].page /\ work[w].page # None
        /\ \A e \in fingerprint'[Stand(n)'].events : fence'[e] = Stand(n)'
    BY <1>0, <1>1, WalkGrows, PageTaken, Names
  <2>4. work[w].page.next = IF n < Len(outbox') THEN Stand(n + 1)' ELSE Terminal
    <3>1. n < Len(outbox') <=> work[w].page.next # Terminal
      BY <1>1, OutboxGrows
    <3>2. work[w].page.next # Terminal => Stand(n + 1)' = work[w].page.next
      BY <1>1, WalkGrows
    <3> QED
      BY <3>1, <3>2
  <2> QED
    BY <2>2, <2>3, <2>4 DEF CoverInv
<1>14. SentInv'
  <2>1. ASSUME NEW k \in 1 .. Len(outbox'), k <= n
        PROVE  outbox'[k].state = "delivered" /\ k < Behind'
    BY <1>1, <2>1, WalkGrows, OutboxGrows
  <2>2. ASSUME NEW k \in 1 .. Len(outbox'), k > n
        PROVE  k = Len(outbox') /\ At(checkpoint)' # Terminal /\ k < Behind' + 1
    BY <1>1, <1>2, <2>2, WalkGrows, OutboxGrows, PageTaken
  <2>3. work[w].page.next # Terminal => outbox'[n + 1].state # "delivered"
    BY <1>1, OutboxGrows
  <2>4. ASSUME NEW k \in 1 .. Len(outbox'), k > n
        PROVE  outbox'[k].state # "delivered"
    <3>1. k = n + 1 /\ work[w].page.next # Terminal
      BY <1>1, <1>2, <2>4, OutboxGrows
    <3> QED
      BY <2>3, <3>1
  <2>5. \A k \in 1 .. Len(outbox') : k <= n \/ k > n
    BY <1>1, <1>2
  <2> QED
    BY <2>1, <2>2, <2>4, <2>5 DEF SentInv
<1> QED
  BY <1>4, <1>9, <1>10, <1>11, <1>12, <1>13, <1>14, WorkerSteps DEF WalkInv

LEMMA CommitKeeps ==
    ASSUME WalkInv, NEW w \in Workers, Commit(w)
    PROVE  WalkInv'
<1>1. CASE Takes(w)
  BY <1>1, TakesKeeps
<1>2. CASE Throw(w) /\ UNCHANGED <<rows, sent, faults>>
  BY <1>2, ReturnStep DEF WalkInv, TypeInv
<1> QED
  BY <1>1, <1>2 DEF Commit, Takes, rows

-----------------------------------------------------------------------------
(* The invariant.                                                          *)

LEMMA InitEstablishes == Init => WalkInv
<1> SUFFICES ASSUME Init PROVE WalkInv
  OBVIOUS
<1>1. Len(outbox) = 0 /\ outbox \in Seq(Intents) /\ checkpoint = None
  BY DEF Init
<1>2. TypeInv
  <2>1. 0 \in 0 .. MaxFaults /\ queue \subseteq 0 .. Len(outbox) /\ sent \subseteq 1 .. Len(outbox)
    BY <1>1, WalkAssumption DEF Init
  <2> QED
    BY <1>1, <2>1, IdleIs DEF Init, TypeInv
<1>3. At(checkpoint) = Start /\ Epoch(checkpoint) = 0 /\ Start # Terminal
  BY <1>1, Names DEF At, Epoch
<1>4. ChainInv /\ CoverInv /\ SentInv
  BY <1>1, <1>3 DEF ChainInv, CoverInv, SentInv, Behind, Stand
<1>5. \A w \in Workers : WorkerOK(work[w])
  BY <1>2, IdleOK DEF Init
<1> QED
  BY <1>2, <1>4, <1>5 DEF WalkInv

LEMMA NextKeeps == WalkInv /\ [Next]_vars => WalkInv'
<1> SUFFICES ASSUME WalkInv, [Next]_vars PROVE WalkInv'
  OBVIOUS
<1>1. ASSUME NEW w \in Workers, Step(w) PROVE WalkInv'
  <2>1. CASE ReadCheckpoint(w)
    BY <2>1, ReadKeeps
  <2>2. CASE Drain(w)
    BY <2>2, DrainKeeps
  <2>3. CASE Blocked(w)
    BY <2>3, BlockedKeeps
  <2>4. CASE Publish(w)
    BY <2>4, PublishKeeps
  <2>5. CASE Mark(w)
    BY <2>5, MarkKeeps
  <2>6. CASE \E page \in Page : Fetch(w, page)
    BY <2>6, FetchKeeps
  <2>7. CASE ReadFences(w)
    BY <2>7, ReadFencesKeeps
  <2>8. CASE PutFingerprint(w)
    BY <2>8, PutFingerprintKeeps
  <2>9. CASE \E e \in Events : Ingest(w, e)
    BY <2>9, IngestKeeps
  <2>10. CASE Commit(w)
    BY <2>10, CommitKeeps
  <2>11. CASE ClaimLocally(w)
    BY <2>11, ClaimLocallyKeeps
  <2>12. CASE Return(w)
    BY <2>12, ReturnKeeps
  <2> QED
    BY <1>1, <2>1, <2>2, <2>3, <2>4, <2>5, <2>6, <2>7, <2>8, <2>9, <2>10, <2>11, <2>12 DEF Step
<1>2. ASSUME NEW w \in Workers, Bootstrap(w) \/ Crash(w) PROVE WalkInv'
  BY <1>2, BootstrapKeeps, CrashKeeps
<1>3. ASSUME NEW w \in Workers, NEW m \in queue, Receive(w, m) PROVE WalkInv'
  BY <1>3, ReceiveKeeps
<1>4. ASSUME NEW n \in DOMAIN outbox, LeaseRunsOut(n) PROVE WalkInv'
  BY <1>4, LeaseKeeps
<1>5. CASE UNCHANGED vars
  <2>1. UNCHANGED <<checkpoint, outbox, queue, sent, work, fingerprint, fence, faults>>
    BY <1>5 DEF vars, rows
  <2>2. TypeInv'
    BY <2>1 DEF WalkInv, TypeInv
  <2>3. ChainInv' /\ CoverInv' /\ SentInv'
    BY <2>1 DEF WalkInv, ChainInv, CoverInv, SentInv, Behind, Stand
  <2>4. ASSUME NEW w \in Workers PROVE WorkerOK(work[w])'
    <3>1. WorkerOK(work[w]) /\ work'[w] = work[w]
      BY <2>1 DEF WalkInv
    <3>2. PICK l : l = work[w]
      OBVIOUS
    <3>3. WorkerOK(l) /\ work[w]' = l
      BY <3>1, <3>2
    <3>4. Current(l)' = Current(l)
      BY <2>1 DEF Current, Pending
    <3> QED
      BY <2>1, <3>3, <3>4 DEF WorkerOK
  <2> QED
    BY <2>1, <2>2, <2>3, <2>4 DEF WalkInv
<1> QED
  BY <1>1, <1>2, <1>3, <1>4, <1>5 DEF Next

LEMMA InvariantHolds == Spec => []WalkInv
<1> QED
  BY InitEstablishes, NextKeeps, PTL DEF Spec

-----------------------------------------------------------------------------
(* Types: a cursor is followed once, so there are no more epochs than      *)
(* cursors.                                                                *)

LEMMA EpochsBounded ==
    ASSUME TypeInv, ChainInv
    PROVE  Cardinality(Cursors) \in Nat /\ Len(outbox) <= Cardinality(Cursors)
<1>1. PICK n \in Nat : n = Len(outbox)
  BY Rows
<1>2. PICK f : f = [k \in 1 .. n |-> outbox[k].cursor]
  OBVIOUS
<1>3. f \in [1 .. n -> Cursors]
  <2>1. \A k \in 1 .. n : outbox[k] \in Intents
    BY <1>1, Rows
  <2> QED
    BY <1>2, <2>1 DEF Intents
<1>4. \A i, k \in 1 .. n : f[i] = f[k] => i = k
  BY <1>1, <1>2 DEF ChainInv
<1>5. f \in Injection(1 .. n, Cursors)
  BY <1>3, <1>4 DEF Injection, IsInjective
<1>6. Cardinality(1 .. n) <= Cardinality(Cursors)
  BY <1>5, WalkAssumption, FS_Injection
<1>7. Cardinality(1 .. n) = n
  <2>1. PICK a \in Int, b \in Int : a = 1 /\ b = n
    BY <1>1
  <2>2. Cardinality(a .. b) = IF a > b THEN 0 ELSE b - a + 1
    BY FS_Interval
  <2> QED
    BY <1>1, <2>1, <2>2
<1> QED
  BY <1>1, <1>6, <1>7, WalkAssumption, FS_CardinalityType

LEMMA InvariantTypes == WalkInv => TypeOK
<1> SUFFICES ASSUME WalkInv PROVE TypeOK
  OBVIOUS
<1>1. TypeInv /\ ChainInv /\ Len(outbox) \in Nat
  BY Rows DEF WalkInv
<1>2. PICK c \in Nat : c = Cardinality(Cursors) /\ Len(outbox) <= c /\ Epochs = 0 .. c
  BY <1>1, EpochsBounded DEF Epochs
<1>3. checkpoint \in {None} \cup [pos : Positions \cup {Terminal}, epoch : Epochs, rev : Nat]
  BY <1>1, <1>2 DEF TypeInv, ChainInv, Stop, Epoch
<1>4. outbox \in Seq(Row)
  <2>1. ASSUME NEW n \in 1 .. Len(outbox) PROVE outbox[n] \in Row
    <3>1. outbox[n] \in Intents /\ outbox[n].claimant <= Len(outbox)
      BY <1>1, Rows DEF ChainInv
    <3>2. outbox[n].claimant \in Epochs
      BY <1>1, <1>2, <3>1 DEF Intents
    <3> QED
      BY <3>1, <3>2 DEF Intents, Row
  <2>2. outbox \in [1 .. Len(outbox) -> Intents]
    BY <1>1, LenProperties DEF TypeInv
  <2> QED
    BY <1>1, <2>1, <2>2
<1>5. queue \subseteq Epochs /\ sent \subseteq DOMAIN outbox
  BY <1>1, <1>2, Rows DEF TypeInv
<1>6. ASSUME NEW w \in Workers PROVE work[w].cp = None \/ work[w].cp.epoch \in Epochs
  <2>1. work[w].cp \in Stop \cup {None} /\ Epoch(work[w].cp) <= Len(outbox)
    BY <1>1 DEF TypeInv, Local, WalkInv, WorkerOK
  <2> QED
    BY <1>1, <1>2, <2>1 DEF Stop, Epoch
<1> QED
  BY <1>1, <1>2, <1>3, <1>4, <1>5, <1>6 DEF TypeOK, TypeInv

\* Rows, messages and bounds stay within their types; an epoch is one of as many as there are
\* cursors (dynamodb-event-ingestion.ts, commitCheckpoint and the cursor marker it puts).
THEOREM TypeCorrect == Spec => []TypeOK
<1> QED
  BY InvariantHolds, InvariantTypes, PTL

-----------------------------------------------------------------------------
(* The positions left behind.                                              *)

LEMMA TrailIs ==
    ASSUME TypeInv
    PROVE  /\ Trail \in Seq(Positions) /\ Len(Trail) = Len(outbox) + 1
           /\ \A i \in 1 .. Len(outbox) + 1 : Trail[i] = Stand(i - 1)
<1>0. PICK n \in Nat : n = Len(outbox)
  BY Rows
<1>1. PICK s : s = [k \in DOMAIN outbox |-> outbox[k].cursor]
  OBVIOUS
<1>2. s \in [1 .. n -> Positions]
  <2>1. \A k \in 1 .. n : outbox[k].cursor \in Positions
    BY <1>0, Rows, Names DEF Intents
  <2>2. DOMAIN outbox = 1 .. n
    BY <1>0, Rows
  <2> QED
    BY <1>1, <2>1, <2>2
<1>3. s \in Seq(Positions) /\ Len(s) = n /\ \A k \in 1 .. n : s[k] = Stand(k)
  <2>1. s \in Seq(Positions) /\ Len(s) = n
    BY <1>0, <1>2
  <2>2. \A k \in 1 .. n : s[k] = Stand(k)
    BY <1>0, <1>1, Rows DEF Stand
  <2> QED
    BY <2>1, <2>2
<1>4. <<Start>> \in Seq(Positions) /\ Len(<<Start>>) = 1 /\ <<Start>>[1] = Start
  BY Names
<1>5. /\ Trail \in Seq(Positions) /\ Len(Trail) = 1 + n
      /\ \A i \in 1 .. 1 + n : Trail[i] = IF i <= 1 THEN <<Start>>[i] ELSE s[i - 1]
  BY <1>1, <1>3, <1>4, ConcatProperties DEF Trail
<1>6. ASSUME NEW i \in 1 .. n + 1 PROVE Trail[i] = Stand(i - 1)
  <2>1. CASE i = 1
    BY <1>0, <1>4, <1>5, <2>1 DEF Stand
  <2>2. CASE i # 1
    <3>1. i - 1 \in 1 .. n /\ ~(i <= 1) /\ i \in 1 .. 1 + n
      BY <1>0, <2>2
    <3> QED
      BY <1>3, <1>5, <3>1
  <2> QED
    BY <2>1, <2>2
<1> QED
  BY <1>0, <1>5, <1>6

LEMMA LeftIs ==
    ASSUME WalkInv
    PROVE  /\ Behind \in Nat /\ DOMAIN Left = 1 .. Behind
           /\ \A i \in 1 .. Behind : i - 1 \in 0 .. Behind - 1 /\ Left[i] = Stand(i - 1)
<1>0. PICK n \in Nat : n = Len(outbox)
  BY Rows DEF WalkInv
<1>1. /\ Trail \in Seq(Positions) /\ Len(Trail) = n + 1
      /\ \A i \in 1 .. n + 1 : Trail[i] = Stand(i - 1)
  BY <1>0, TrailIs DEF WalkInv
<1>2. CASE At(checkpoint) = Terminal
  <2>1. Behind = n + 1 /\ Left = Trail
    BY <1>0, <1>2 DEF Behind, Left
  <2>2. DOMAIN Trail = 1 .. n + 1
    BY <1>1, LenProperties
  <2> QED
    BY <1>0, <1>1, <2>1, <2>2
<1>3. CASE At(checkpoint) # Terminal
  <2>1. Behind = n /\ Left = SubSeq(Trail, 1, n)
    BY <1>0, <1>3 DEF Behind, Left, WalkInv, ChainInv
  <2>2. \A i \in 1 .. n : Trail[i] \in Positions
    BY <1>1, ElementOfSeq
  <2>3. /\ SubSeq(Trail, 1, n) \in Seq(Positions)
        /\ Len(SubSeq(Trail, 1, n)) = n
        /\ \A i \in 1 .. n : SubSeq(Trail, 1, n)[i] = Trail[i]
    BY <1>0, <1>1
  <2>4. DOMAIN SubSeq(Trail, 1, n) = 1 .. n
    BY <2>3, LenProperties
  <2>5. \A i \in 1 .. n : i \in 1 .. n + 1 /\ i - 1 \in 0 .. n - 1
    BY <1>0
  <2> QED
    BY <1>0, <1>1, <2>1, <2>3, <2>4, <2>5
<1> QED
  BY <1>2, <1>3

LEMMA InvariantCovers == WalkInv => CheckpointIsCovered
<1> SUFFICES ASSUME WalkInv PROVE CheckpointIsCovered
  OBVIOUS
<1>0. /\ Len(outbox) \in Nat /\ DOMAIN outbox = 1 .. Len(outbox)
      /\ checkpoint \in Stop \cup {None} /\ Epoch(checkpoint) = Len(outbox)
  BY Rows DEF WalkInv, TypeInv, ChainInv
<1>1. CheckpointCoversPages
  <2>1. SUFFICES ASSUME NEW i \in 1 .. Behind
                 PROVE  /\ fingerprint[Stand(i - 1)] # None
                        /\ fingerprint[Stand(i - 1)].next
                               = IF i < Len(Trail) THEN Trail[i + 1] ELSE Terminal
                        /\ \A e \in fingerprint[Stand(i - 1)].events : fence[e] = Stand(i - 1)
    BY LeftIs DEF CheckpointCoversPages
  <2>2. PICK k \in 0 .. Behind - 1 : k = i - 1
    BY LeftIs
  <2>3. i \in Nat /\ i = k + 1 /\ k \in Nat
    BY <2>2, LeftIs
  <2>4. Len(Trail) = Len(outbox) + 1
    BY TrailIs DEF WalkInv
  <2>5. i < Len(Trail) <=> k < Len(outbox)
    BY <1>0, <2>3, <2>4
  <2>6. k < Len(outbox) => Trail[i + 1] = Stand(k + 1)
    <3>1. k < Len(outbox) => i + 1 \in 1 .. Len(outbox) + 1 /\ (i + 1) - 1 = k + 1
      BY <1>0, <2>3
    <3> QED
      BY <3>1, TrailIs DEF WalkInv
  <2>7. /\ fingerprint[Stand(k)] # None
        /\ fingerprint[Stand(k)].next = IF k < Len(outbox) THEN Stand(k + 1) ELSE Terminal
        /\ \A e \in fingerprint[Stand(k)].events : fence[e] = Stand(k)
    BY DEF WalkInv, CoverInv
  <2> QED
    BY <2>2, <2>5, <2>6, <2>7
<1>2. DeliveredWasSent
  <2>1. SUFFICES ASSUME NEW n \in 1 .. Len(outbox), n < Behind PROVE Past(n)
    BY <1>0 DEF DeliveredWasSent, WalkInv, SentInv
  <2>2. CASE At(checkpoint) = Terminal
    BY <2>2, Names DEF Past, At
  <2>3. CASE At(checkpoint) # Terminal
    <3>1. n < Epoch(checkpoint)
      BY <1>0, <2>1, <2>3 DEF Behind
    <3>2. checkpoint # None /\ checkpoint \in Stop
      BY <1>0, <3>1 DEF Epoch
    <3> QED
      BY <3>1, <3>2 DEF Past, Epoch, Stop
  <2> QED
    BY <2>2, <2>3
<1>3. PendingIsCurrent
  <2>1. SUFFICES ASSUME Pending # {}
                 PROVE  /\ Pending = {Epoch(checkpoint)}
                        /\ At(checkpoint) = outbox[Epoch(checkpoint)].cursor
    BY DEF PendingIsCurrent
  <2>2. Pending = {Len(outbox)} /\ Len(outbox) # 0 /\ At(checkpoint) # Terminal
    BY <1>0, <2>1, PendingIs DEF WalkInv
  <2> QED
    BY <1>0, <2>2 DEF WalkInv, ChainInv, Stand
<1> QED
  BY <1>1, <1>2, <1>3 DEF CheckpointIsCovered

\* Whoever walked which page and however often it was begun: every page the checkpoint has
\* left behind is answered, leads to the next and has its events stored; no continuation is
\* archived that the queue has not had or the walk gone past; none but the current one is
\* pending (upcoming-event-orchestrator.ts, dynamodb-event-ingestion.ts commitCheckpoint).
THEOREM CheckpointCorrect == Spec => []CheckpointIsCovered
<1> QED
  BY InvariantHolds, InvariantCovers, PTL

-----------------------------------------------------------------------------
(* The committed walk is a cursor walk (CursorWalk).                       *)

Walked ==
    /\ WalkedPages \in Seq(Page) /\ Len(WalkedPages) = Behind /\ DOMAIN WalkedPages = 1 .. Behind
    /\ \A i \in 1 .. Behind : WalkedPages[i] = fingerprint[Stand(i - 1)]

LEMMA WalkedIs == WalkInv => Walked
<1> SUFFICES ASSUME WalkInv PROVE Walked
  OBVIOUS
<1>0. PICK n \in Nat : n = Behind /\ n <= Len(outbox) + 1 /\ Len(outbox) \in Nat
  <2>1. Len(outbox) \in Nat
    BY Rows DEF WalkInv
  <2>2. Behind \in Nat /\ Behind <= Len(outbox) + 1
    BY <2>1 DEF Behind
  <2> QED
    BY <2>1, <2>2
<1>1. /\ DOMAIN Left = 1 .. n
      /\ \A i \in 1 .. n : i - 1 \in 0 .. n - 1 /\ Left[i] = Stand(i - 1)
  BY <1>0, LeftIs
<1>2. WalkedPages = [i \in 1 .. n |-> fingerprint[Stand(i - 1)]]
  BY <1>1 DEF WalkedPages
<1>3. ASSUME NEW i \in 1 .. n PROVE fingerprint[Stand(i - 1)] \in Page
  <2>1. PICK k \in 0 .. n - 1 : k = i - 1 /\ k \in 0 .. Len(outbox)
    BY <1>0, <1>1
  <2>2. Stand(k) \in Positions /\ fingerprint[Stand(k)] # None
    BY <1>0, <2>1, Rows DEF WalkInv, CoverInv
  <2> QED
    BY <2>1, <2>2 DEF WalkInv, TypeInv
<1>4. WalkedPages \in [1 .. n -> Page]
  BY <1>2, <1>3
<1>5. WalkedPages \in Seq(Page) /\ Len(WalkedPages) = n /\ DOMAIN WalkedPages = 1 .. n
  BY <1>4
<1> QED
  BY <1>0, <1>2, <1>5 DEF Walked

LEMMA WalkedNext == WalkInv' => Walked'
<1> QED
  BY WalkedIs, PTL

\* The positions of the walk and their answers stay.
Stays ==
    /\ At(checkpoint)' = At(checkpoint) /\ Len(outbox') = Len(outbox)
    /\ \A k \in 0 .. Len(outbox) : Stand(k)' = Stand(k)
    /\ \A p \in Positions : fingerprint[p] # None => fingerprint'[p] = fingerprint[p]

LEMMA StaysStutters ==
    ASSUME WalkInv, WalkInv', Stays
    PROVE  UNCHANGED <<WalkedPages, At(checkpoint)>>
<1>0. PICK n \in Nat : n = Behind /\ n = Behind'
  BY LeftIs DEF Stays, Behind
<1>1. /\ WalkedPages \in Seq(Page) /\ Len(WalkedPages) = n
      /\ \A i \in 1 .. n : WalkedPages[i] = fingerprint[Stand(i - 1)]
  BY <1>0, WalkedIs DEF Walked
<1>2. /\ WalkedPages' \in Seq(Page) /\ Len(WalkedPages') = n
      /\ \A i \in 1 .. n : WalkedPages'[i] = fingerprint'[Stand(i - 1)']
  BY <1>0, WalkedNext DEF Walked
<1>3. ASSUME NEW i \in 1 .. n PROVE WalkedPages'[i] = WalkedPages[i]
  <2>0. Len(outbox) \in Nat /\ n <= Len(outbox) + 1
    <3>1. Len(outbox) \in Nat
      BY Rows DEF WalkInv
    <3> QED
      BY <1>0, <3>1 DEF Behind
  <2>1. PICK k \in 0 .. n - 1 : k = i - 1 /\ k \in 0 .. Len(outbox)
    BY ONLY <2>0, n \in Nat, i \in 1 .. n
  <2>2. Stand(k)' = Stand(k)
    BY <2>1 DEF Stays
  <2>3. Stand(k) \in Positions /\ fingerprint[Stand(k)] # None
    BY <1>0, <2>1, Rows DEF WalkInv, CoverInv
  <2> QED
    BY <1>1, <1>2, <2>1, <2>2, <2>3 DEF Stays
<1>4. WalkedPages' = WalkedPages
  BY <1>1, <1>2, <1>3, SeqEqual
<1> QED
  BY <1>4 DEF Stays

LEMMA TakesRefines ==
    ASSUME WalkInv, WalkInv', NEW w \in Workers, Takes(w)
    PROVE  Abstract!Next
<1>0. PICK n \in Nat, page \in Page :
          /\ n = Len(outbox) /\ n = Behind /\ n + 1 = Behind' /\ page = work[w].page
  BY Rows, WalkGrows, PageTaken DEF WalkInv
<1>1. /\ At(checkpoint) = Stand(n) /\ At(checkpoint) # Terminal
      /\ fingerprint[Stand(n)] = page /\ At(checkpoint)' = page.next
      /\ \A e \in page.events : fence[e] = Stand(n)
      /\ \A k \in 1 .. n : outbox[k].cursor # page.next
      /\ page.next \in Cursors \cup {Terminal}
  BY <1>0, PageTaken
<1>2. UNCHANGED <<fingerprint, fence>> /\ \A k \in 0 .. n : Stand(k)' = Stand(k)
  BY <1>0, WalkGrows DEF Takes, Commit
<1>3. /\ WalkedPages \in Seq(Page) /\ Len(WalkedPages) = n /\ DOMAIN WalkedPages = 1 .. n
      /\ \A i \in 1 .. n : WalkedPages[i] = fingerprint[Stand(i - 1)]
  BY <1>0, WalkedIs DEF Walked
<1>4. /\ WalkedPages' \in Seq(Page) /\ Len(WalkedPages') = n + 1
      /\ \A i \in 1 .. n + 1 : WalkedPages'[i] = fingerprint'[Stand(i - 1)']
  BY <1>0, WalkedNext DEF Walked
<1>5. ASSUME NEW i \in 1 .. n
      PROVE  /\ i - 1 \in 0 .. n - 1 /\ i \in 0 .. n /\ WalkedPages[i].next = Stand(i)
             /\ \A e \in WalkedPages[i].events : fence[e] = Stand(i - 1)
  <2>1. PICK k \in 0 .. n - 1 : k = i - 1 /\ k < n /\ k + 1 = i
    OBVIOUS
  <2>2. /\ fingerprint[Stand(k)].next = Stand(k + 1)
        /\ \A e \in fingerprint[Stand(k)].events : fence[e] = Stand(k)
    BY <1>0, <2>1 DEF WalkInv, CoverInv
  <2> QED
    BY <1>3, <2>1, <2>2
<1>6. \A i \in 0 .. n : Stand(i) # page.next
  BY <1>1, Names DEF Stand
<1>7. page.next \notin Abstract!Followed
  <2>1. Start # page.next
    BY <1>1, Names
  <2>2. \A i \in DOMAIN WalkedPages : WalkedPages[i].next # page.next
    BY <1>3, <1>5, <1>6
  <2> QED
    BY <2>1, <2>2 DEF Abstract!Followed
<1>8. ASSUME NEW i \in DOMAIN WalkedPages PROVE WalkedPages[i].events \cap page.events = {}
  <2>1. PICK k \in 0 .. n - 1 : k = i - 1 /\ i \in 1 .. n
    BY <1>3, <1>5
  <2>2. Stand(k) # Stand(n)
    <3>1. n \in 1 .. Len(outbox) /\ outbox[n].cursor \in Cursors
      BY <1>0, <2>1, Rows DEF Intents, WalkInv
    <3>2. CASE k = 0
      BY <2>1, <3>1, <3>2, Names DEF Stand
    <3>3. CASE k # 0
      BY <1>0, <2>1, <3>1, <3>3 DEF Stand, WalkInv, ChainInv
    <3> QED
      BY <3>2, <3>3
  <2> QED
    BY <1>1, <1>5, <2>1, <2>2
<1>9. WalkedPages' = Append(WalkedPages, page)
  <2>1. /\ Append(WalkedPages, page) \in Seq(Page)
        /\ Len(Append(WalkedPages, page)) = n + 1
        /\ \A i \in 1 .. n : Append(WalkedPages, page)[i] = WalkedPages[i]
        /\ Append(WalkedPages, page)[n + 1] = page
    BY <1>0, <1>3, AppendProperties
  <2>2. ASSUME NEW i \in 1 .. n + 1 PROVE WalkedPages'[i] = Append(WalkedPages, page)[i]
    <3>1. PICK k \in 0 .. n : k = i - 1
      OBVIOUS
    <3>2. WalkedPages'[i] = fingerprint[Stand(k)]
      BY <1>2, <1>4, <3>1
    <3>3. CASE i = n + 1
      BY <1>1, <2>1, <3>1, <3>2, <3>3
    <3>4. CASE i # n + 1
      BY <1>3, <2>1, <3>1, <3>2, <3>4
    <3> QED
      BY <3>3, <3>4
  <2> QED
    BY <1>4, <2>1, <2>2, SeqEqual
<1>10. Abstract!TakePage(page)
  BY <1>1, <1>7, <1>8, <1>9 DEF Abstract!TakePage
<1>11. At(checkpoint)' # At(checkpoint) /\ page \in Abstract!Page
  BY <1>0, <1>1, <1>6 DEF Abstract!Page, Page
<1> QED
  BY <1>1, <1>10, <1>11 DEF Abstract!Next

\* A row of the outbox is written, and keeps its cursor.
LEMMA RowStays ==
    ASSUME WalkInv, UNCHANGED <<checkpoint, fingerprint>>, NEW n \in 1 .. Len(outbox),
           NEW r \in Intents, outbox' = [outbox EXCEPT ![n] = r], r.cursor = outbox[n].cursor
    PROVE  Stays
<1>1. /\ Len(outbox') = Len(outbox)
      /\ \A k \in 1 .. Len(outbox) : outbox'[k] = IF k = n THEN r ELSE outbox[k]
  BY ExceptSeq DEF WalkInv, TypeInv
<1>2. \A k \in 0 .. Len(outbox) : Stand(k)' = Stand(k)
  BY <1>1, Rows DEF Stand, WalkInv
<1> QED
  BY <1>1, <1>2 DEF Stays, At

LEMMA ClaimStays ==
    ASSUME WalkInv, UNCHANGED <<checkpoint, fingerprint>>, Pending # {},
           NEW w \in Workers, outbox' = Claimed(Oldest, work[w].active)
    PROVE  Stays
<1>1. PICK n \in 1 .. Len(outbox) : n = Oldest
  BY PendingIs DEF WalkInv
<1>2. outbox[n] \in Intents
  BY Rows DEF WalkInv
<1>3. PICK c \in Nat, v \in Nat : c = work[w].active /\ v = outbox[n].version + 1
  <2>1. work[w] \in Local
    BY DEF WalkInv, TypeInv
  <2>2. work[w].active \in Nat
    BY <2>1 DEF Local
  <2>3. outbox[n].version + 1 \in Nat
    BY <1>2 DEF Intents
  <2> QED
    BY <2>2, <2>3
<1>4. PICK r \in Intents : r = [outbox[n] EXCEPT !.state = "claimed", !.leased = TRUE,
                                     !.claimant = c, !.version = v]
  BY <1>2 DEF Intents
<1>5. r.cursor = outbox[n].cursor
  BY <1>2, <1>4 DEF Intents
<1>6. outbox' = [outbox EXCEPT ![n] = r]
  BY <1>1, <1>3, <1>4 DEF Claimed
<1> QED
  BY <1>5, <1>6, RowStays

LEMMA RowsStay ==
    ASSUME WalkInv, UNCHANGED <<checkpoint, outbox, fingerprint>>
    PROVE  Stays
BY DEF Stays, Stand, At

LEMMA OutboxStays ==
    ASSUME WalkInv, NEW w \in Workers, Drain(w) \/ Mark(w) \/ ClaimLocally(w)
    PROVE  Stays
<1>0. UNCHANGED <<checkpoint, fingerprint>>
  BY DEF Drain, Mark, ClaimLocally
<1>1. CASE UNCHANGED outbox
  BY <1>0, <1>1, RowsStay
<1>2. CASE Pending # {} /\ outbox' = Claimed(Oldest, work[w].active)
  BY <1>0, <1>2, ClaimStays
<1>3. CASE /\ work[w].pc = "mark"
           /\ outbox' = [outbox EXCEPT ![work[w].claimed] =
                             [@ EXCEPT !.state = "delivered", !.leased = FALSE]]
  <2>1. PICK n \in 1 .. Len(outbox) : n = work[w].claimed
    BY <1>3, Rows DEF WalkInv, TypeInv, WorkerOK, Local
  <2>2. outbox[n] \in Intents
    BY Rows DEF WalkInv
  <2>3. PICK r \in Intents : r = [outbox[n] EXCEPT !.state = "delivered", !.leased = FALSE]
    BY <2>2 DEF Intents
  <2>4. r.cursor = outbox[n].cursor
    BY <2>2, <2>3 DEF Intents
  <2>5. outbox' = [outbox EXCEPT ![n] = r]
    BY <1>3, <2>1, <2>3
  <2> QED
    BY <1>0, <2>4, <2>5, RowStays
<1> QED
  BY <1>1, <1>2, <1>3 DEF Drain, Mark, ClaimLocally

LEMMA LeaseStays ==
    ASSUME WalkInv, NEW n \in DOMAIN outbox, LeaseRunsOut(n)
    PROVE  Stays
<1>1. n \in 1 .. Len(outbox) /\ outbox[n] \in Intents
  BY Rows DEF WalkInv
<1>2. PICK r \in Intents : r = [outbox[n] EXCEPT !.leased = FALSE]
  BY <1>1 DEF Intents
<1>3. r.cursor = outbox[n].cursor
  BY <1>1, <1>2 DEF Intents
<1>4. outbox' = [outbox EXCEPT ![n] = r] /\ UNCHANGED <<checkpoint, fingerprint>>
  BY <1>2 DEF LeaseRunsOut
<1> QED
  BY <1>1, <1>3, <1>4, RowStays

LEMMA FingerprintStays ==
    ASSUME WalkInv, NEW w \in Workers, PutFingerprint(w)
    PROVE  Stays
<1>1. UNCHANGED <<checkpoint, outbox>> /\ fingerprint \in [Positions -> Page \cup {None}]
  BY DEF PutFingerprint, WalkInv, TypeInv
<1>2. CASE UNCHANGED fingerprint
  BY <1>1, <1>2, RowsStay
<1>3. ASSUME Matches(w), fingerprint' = [fingerprint EXCEPT ![At(work[w].cp)] = work[w].page]
      PROVE  Stays
  <2>1. \A p \in Positions : fingerprint[p] # None => fingerprint'[p] = fingerprint[p]
    BY <1>1, <1>3 DEF Matches
  <2> QED
    BY <1>1, <2>1 DEF Stays, Stand, At
<1> QED
  BY <1>2, <1>3 DEF PutFingerprint

LEMMA BootstrapStays ==
    ASSUME WalkInv, NEW w \in Workers, Bootstrap(w)
    PROVE  Stays
<1>1. UNCHANGED <<outbox, fingerprint>> /\ checkpoint \in Stop \cup {None}
  BY DEF Bootstrap, WalkInv, TypeInv
<1>2. CASE UNCHANGED checkpoint
  BY <1>1, <1>2, RowsStay
<1>3. ASSUME NEW v \in Nat,
             checkpoint' = [pos |-> At(checkpoint), epoch |-> Epoch(checkpoint), rev |-> v],
             checkpoint = work[w].cp, work[w].pc = "ingest"
      PROVE  Stays
  <2>1. At(checkpoint) \in Positions
    BY <1>1, <1>3, Reading DEF WalkInv, WorkerOK, Fetching
  <2>2. PICK p \in Positions, n \in Nat : p = At(checkpoint) /\ n = Epoch(checkpoint)
    BY <1>1, <2>1, Reading
  <2>3. checkpoint' = [pos |-> p, epoch |-> n, rev |-> v]
    BY <1>3, <2>2
  <2>4. checkpoint' \in Stop /\ checkpoint'.pos = p
    BY <2>3 DEF Stop
  <2>5. At(checkpoint)' = p
    BY <2>4, Names DEF At
  <2> QED
    BY <1>1, <2>2, <2>5 DEF Stays, Stand
<1>4. PICK v \in Nat : v = IF checkpoint = None THEN 1 ELSE checkpoint.rev + 1
  BY <1>1 DEF Stop
<1> QED
  BY <1>2, <1>3, <1>4 DEF Bootstrap

LEMMA StepRefines ==
    ASSUME WalkInv, WalkInv', [Next]_vars
    PROVE  Abstract!Next \/ UNCHANGED <<WalkedPages, At(checkpoint)>>
<1>1. ASSUME NEW w \in Workers, Takes(w) PROVE Abstract!Next
  BY <1>1, TakesRefines
<1>2. ASSUME NEW w \in Workers, Step(w), ~Takes(w) PROVE Stays
  <2>1. CASE Drain(w) \/ Mark(w) \/ ClaimLocally(w)
    BY <2>1, OutboxStays
  <2>2. CASE PutFingerprint(w)
    BY <2>2, FingerprintStays
  <2>3. CASE UNCHANGED <<checkpoint, outbox, fingerprint>>
    BY <2>3, RowsStay
  <2>4. CASE ReadCheckpoint(w) \/ Blocked(w) \/ Publish(w) \/ ReadFences(w) \/ Return(w)
    BY <2>3, <2>4 DEF ReadCheckpoint, Blocked, Publish, ReadFences, Return, rows
  <2>5. ASSUME NEW page \in Page, Fetch(w, page) PROVE Stays
    BY <2>3, <2>5 DEF Fetch, rows
  <2>6. ASSUME NEW e \in Events, Ingest(w, e) PROVE Stays
    BY <2>3, <2>6 DEF Ingest
  <2>7. CASE Commit(w)
    BY <1>2, <2>3, <2>7 DEF Commit, Takes
  <2> QED
    BY <1>2, <2>1, <2>2, <2>4, <2>5, <2>6, <2>7 DEF Step
<1>3. ASSUME NEW w \in Workers, Bootstrap(w) PROVE Stays
  BY <1>3, BootstrapStays
<1>4. ASSUME NEW w \in Workers, Crash(w) PROVE Stays
  BY <1>4, RowsStay DEF Crash, rows
<1>5. ASSUME NEW w \in Workers, NEW m \in queue, Receive(w, m) PROVE Stays
  BY <1>5, RowsStay DEF Receive, rows
<1>6. ASSUME NEW n \in DOMAIN outbox, LeaseRunsOut(n) PROVE Stays
  BY <1>6, LeaseStays
<1>7. ASSUME UNCHANGED vars PROVE Stays
  <2>1. UNCHANGED <<checkpoint, outbox, fingerprint>>
    BY <1>7 DEF vars, rows
  <2> QED
    BY <2>1, RowsStay
<1> QED
  BY <1>1, <1>2, <1>3, <1>4, <1>5, <1>6, <1>7, StaysStutters DEF Next

LEMMA InitRefines == Init => Abstract!Init
<1> SUFFICES ASSUME Init PROVE Abstract!Init
  OBVIOUS
<1>1. At(checkpoint) = Start
  BY DEF Init, At
<1>2. WalkInv
  BY InitEstablishes
<1>3. Behind = 0
  BY <1>1, Names DEF Behind, Init
<1>4. WalkedPages \in Seq(Page) /\ Len(WalkedPages) = 0
  BY <1>2, <1>3, WalkedIs DEF Walked
<1>5. WalkedPages = <<>>
  BY <1>4, EmptySeq
<1> QED
  BY <1>1, <1>5 DEF Abstract!Init

\* However its workers interleave, crash and begin again, the committed walk takes pages in
\* order, each once, no cursor twice and no event from two pages (commitCheckpoint, the cursor
\* marker and the fences of dynamodb-event-ingestion.ts).
THEOREM Refines == Spec => IsCursorWalk
<1>1. WalkInv /\ WalkInv' /\ [Next]_vars
          => [Abstract!Next]_<<WalkedPages, At(checkpoint)>>
  BY StepRefines
<1> QED
  BY <1>1, InitRefines, InvariantHolds, PTL DEF Spec, IsCursorWalk, Abstract!Spec

-----------------------------------------------------------------------------
(***************************************************************************)
(* The canonical event store: what its calls promise each other.  Every    *)
(* write raises the version of its row, so a copy whose version still      *)
(* stands is the row; and a transaction whose conditions all hold was      *)
(* prepared from the rows it meets.                                        *)
(***************************************************************************)
Identity(content) == IdentityOf[content]

\* An event stands under the highest revision it knows, which is the bootstrap's or the
\* latest of its provider.
Weighed(event) ==
    /\ event.auth = event.boot \/ event.auth.n = event.revs[event.auth.prov]
    /\ \A r \in S!Known(event) : ~S!Above(r, event.auth)
Event == {event \in S!EventRow : Weighed(event)}

\* Each key has rows of its own kind.
Fits(k, row) ==
    /\ \A id \in Ids : k = S!EventKey(id) => row \in Event
    /\ \A id \in Ids : k = S!PointerKey(id) => row \in S!PointerRow
    /\ \A i \in Identities : k = S!ClaimKey(i) => row \in S!ClaimRow
    /\ \A e \in ProviderEvents : k = S!MappingKey(e) => row \in S!MappingRow
    /\ \A id \in Ids, p \in Providers : k = S!RevisionKey(id, p) => row \in S!RevisionRow

Fit == \A k \in S!Keys : stored[k] # None => Fits(k, stored[k])

CandidatesOf(i) == S!Candidates(stored[S!ClaimKey(i)])

\* The identity index: at most one candidate, an existing event, and the event's own.
Indexed ==
    /\ \A i \in Identities : \A id \in CandidatesOf(i) : S!Exists(id)
    /\ \A i \in Identities : \A id, jd \in CandidatesOf(i) : id = jd
    /\ \A id \in Ids, i \in Identities : S!Exists(id) =>
          (id \in CandidatesOf(i) <=> i = Identity(S!EventOf(id).content))

Bound == \A e \in ProviderEvents, id \in Ids :
    stored[S!MappingKey(e)] # None /\ stored[S!MappingKey(e)].event = id => S!Exists(id)

Pointed ==
    /\ \A id \in Ids : stored[S!PointerKey(id)] # None => S!Exists(id)
    /\ S!PointerFollows

\* Rows are raised by the calls that have ended only.
Active == {c \in Callers : call[c].pc # "idle"}
Counted ==
    /\ IsFiniteSet(Active) /\ calls \in 0 .. MaxCalls /\ repaired \subseteq Ids
    /\ \A k \in S!Keys : S!Version(k) + Cardinality(Active) <= calls + 1

Reads == {"event", "revision", "prepare"}
Bootstraps == {"insert", "existing", "owner", "previous"}
AnyRow  == Event \cup S!PointerRow \cup S!ClaimRow \cup S!MappingRow \cup S!RevisionRow
Writing == [key : S!Keys, expect : Nat, row : AnyRow \cup {None}]
Plans   == SUBSET Writing
Locals == [pc : {"idle", "identity", "transact"} \cup Reads \cup Bootstraps,
           op : {"none", "ingest", "bootstrap"}, in : S!Report \cup S!Bootstrap \cup {None},
           mapped : S!MappingRow \cup {None}, claim : S!ClaimRow \cup {None},
           event : Event \cup {None}, plan : Plans]
Typed == call \in [Callers -> Locals]

\* A copy of a row: behind it, or the row itself.
Copied(k, row) ==
    /\ S!Expected(row) <= S!Version(k)
    /\ S!Expected(row) = S!Version(k) => stored[k] = row

\* A condition, and the row that raises it.
Expects(w) ==
    /\ w.key \in S!Keys /\ w.expect \in Nat /\ w.expect <= S!Version(w.key)
    /\ w.row # None => Fits(w.key, w.row) /\ w.row.version = w.expect + 1
Plan(plan) ==
    /\ \A w \in plan : Expects(w)
    /\ \A v, w \in plan : v.key = w.key => v = w
Writes(plan, k) == \E w \in plan : w.key = k /\ w.row # None

NewContent(w) == IF w.row = None THEN stored[w.key].content ELSE w.row.content
Rewritten(id, w) == Identity(stored[S!EventKey(id)].content) # Identity(w.row.content)

\* What a plan does to an event, its pointer, the claims, a mapping and a revision row, all
\* said of the rows the plan itself expects.
EventsJust(l, plan) ==
    \A w \in plan, id \in Ids : w.key = S!EventKey(id) /\ w.row # None =>
        /\ S!Exists(id)
        /\ w.row.content # S!EventOf(id).content => S!Above(w.row.auth, S!EventOf(id).auth)
        /\ \/ l.op = "bootstrap" /\ id = l.in.id
           \/ \E v \in plan : v.key = S!PointerKey(id) /\ v.row # None
        /\ Rewritten(id, w) =>
              /\ \E v \in plan : /\ v.key = S!ClaimKey(Identity(w.row.content))
                                 /\ v.row # None /\ v.row.ids = {id}
              /\ Writes(plan, S!ClaimKey(Identity(S!EventOf(id).content)))
PointersJust(plan) ==
    \A w \in plan, id \in Ids : w.key = S!PointerKey(id) /\ w.row # None =>
        \E v \in plan : /\ v.key = S!EventKey(id) /\ v.row # None
                        /\ v.row.version = w.row.version
ClaimsJust(plan) ==
    \A w \in plan, i \in Identities : w.key = S!ClaimKey(i) /\ w.row # None =>
        \E v \in plan, id \in Ids :
            /\ v.key = S!EventKey(id) /\ S!Exists(id)
            /\ CandidatesOf(i) \subseteq {id}
            /\ w.row.ids = IF i = Identity(NewContent(v)) THEN {id} ELSE {}
MappingsJust(l, plan) ==
    \A w \in plan, e \in ProviderEvents : w.key = S!MappingKey(e) /\ w.row # None =>
        LET k == S!ClaimKey(Identity(l.in.content)) IN
        /\ l.op = "ingest" /\ l.in.event = e /\ stored[w.key] = None
        /\ \E v \in plan : v.key = k
        /\ S!Exists(w.row.event) /\ S!Candidates(stored[k]) = {w.row.event}
RevisionsJust(plan) ==
    \A w \in plan, id \in Ids, p \in Providers :
        w.key = S!RevisionKey(id, p) /\ w.row # None /\ stored[w.key] # None =>
            stored[w.key].n <= w.row.n
Justified(l, plan) ==
    /\ EventsJust(l, plan) /\ PointersJust(plan) /\ ClaimsJust(plan)
    /\ MappingsJust(l, plan) /\ RevisionsJust(plan)

\* The event an ingest call is about.
TargetOf(l) == IF l.mapped # None THEN l.mapped.event ELSE CHOOSE id \in l.claim.ids : TRUE

\* An ingest call: what it reports, the event it is about and the copies it holds.
TargetIs(l) ==
    IF l.mapped # None
    THEN l.mapped \in S!MappingRow /\ S!Exists(l.mapped.event)
    ELSE /\ l.claim \in S!ClaimRow
         /\ \E id \in Ids : l.claim.ids = {id} /\ S!Exists(id)
         /\ Copied(S!ClaimKey(Identity(l.in.content)), l.claim)

\* The revision row an accepted report puts: the revision is news to the copies.
News(l) ==
    LET p == ProviderOf[l.in.event]
        k == S!RevisionKey(TargetOf(l), p)
    IN \E w \in l.plan :
          /\ l.plan = {w} /\ Expects(w) /\ w.key = k /\ w.row # None
          /\ w.expect = S!Version(k) /\ stored[k] # None => stored[k].n < l.in.n
          /\ w.row.n = l.in.n

Revised(l) ==
    LET p == ProviderOf[l.in.event] IN
    /\ l.event.revs[p] < l.in.n
    /\ l.event.boot.prov = p => l.event.boot.n < l.in.n
    /\ ~S!Above(l.event.auth, [prov |-> p, n |-> l.in.n])

Ingesting(l) ==
    /\ l.pc \in {"identity"} \cup Reads =>
          l.op = "ingest" /\ l.in \in S!Report
    /\ l.pc = "identity" => l.mapped = None
    /\ l.pc \in Reads => TargetIs(l)
    /\ l.pc \in Reads \ {"event"} =>
          l.event \in Event /\ Copied(S!EventKey(TargetOf(l)), l.event)
    /\ l.pc = "prepare" => News(l) /\ Revised(l)

Bootstrapping(l) ==
    /\ l.pc \in Bootstraps =>
          /\ l.op = "bootstrap" /\ l.in \in S!Bootstrap
          /\ l.claim \in S!ClaimRow \cup {None}
          /\ S!Candidates(l.claim) \subseteq {l.in.id}
          /\ Copied(S!ClaimKey(Identity(l.in.content)), l.claim)
    /\ l.pc \in {"owner", "previous"} =>
          /\ l.event \in Event /\ Copied(S!EventKey(l.in.id), l.event)
          /\ ~S!Above(l.event.auth, l.in.revision)
          /\ l.in.revision = l.event.auth =>
                l.event.content = l.in.content
    /\ l.pc = "previous" =>
          Identity(l.event.content) # Identity(l.in.content)

Transacting(l) ==
    l.pc = "transact" =>
        /\ \/ l.op = "ingest" /\ l.in \in S!Report
           \/ l.op = "bootstrap" /\ l.in \in S!Bootstrap
        /\ Plan(l.plan)
        /\ S!Holds(l.plan) => Justified(l, l.plan)

CallInv(l) == Ingesting(l) /\ Bootstrapping(l) /\ Transacting(l)

TableInv == Fit /\ Indexed /\ Bound /\ Pointed /\ Counted
StoreInv == TableInv /\ Typed /\ \A c \in Callers : CallInv(call[c])
-----------------------------------------------------------------------------
LEMMA StoreConstants == S!StoreAssumption
BY EventsAssumption

\* Keys name their kind and what they are of.
LEMMA KeysApart ==
    /\ \A a, b : S!EventKey(a) = S!EventKey(b) => a = b
    /\ \A a, b : S!PointerKey(a) = S!PointerKey(b) => a = b
    /\ \A a, b : S!ClaimKey(a) = S!ClaimKey(b) => a = b
    /\ \A a, b : S!MappingKey(a) = S!MappingKey(b) => a = b
    /\ \A a, b, p, q : S!RevisionKey(a, p) = S!RevisionKey(b, q) => a = b /\ p = q
    /\ \A a, b : /\ S!EventKey(a) # S!PointerKey(b) /\ S!EventKey(a) # S!ClaimKey(b)
                 /\ S!EventKey(a) # S!MappingKey(b) /\ S!PointerKey(a) # S!ClaimKey(b)
                 /\ S!PointerKey(a) # S!MappingKey(b) /\ S!ClaimKey(a) # S!MappingKey(b)
    /\ \A a, b, p : /\ S!RevisionKey(a, p) # S!EventKey(b) /\ S!RevisionKey(a, p) # S!PointerKey(b)
                    /\ S!RevisionKey(a, p) # S!ClaimKey(b) /\ S!RevisionKey(a, p) # S!MappingKey(b)
BY DEF S!EventKey, S!PointerKey, S!ClaimKey, S!MappingKey, S!RevisionKey

LEMMA KeysOf ==
    /\ \A id \in Ids : S!EventKey(id) \in S!Keys /\ S!PointerKey(id) \in S!Keys
    /\ \A i \in Identities : S!ClaimKey(i) \in S!Keys
    /\ \A e \in ProviderEvents : S!MappingKey(e) \in S!Keys
    /\ \A id \in Ids, p \in Providers : S!RevisionKey(id, p) \in S!Keys
BY DEF S!Keys

LEMMA IdentityIs == \A content \in Contents : Identity(content) \in Identities
BY StoreConstants DEF S!StoreAssumption, Identity

LEMMA StoreSets == \A T : S!Cardinality(T) = Cardinality(T)
BY DEF S!Cardinality, Cardinality

\* What a row of each kind has, and that no row is one.
LEMMA Kinds ==
    /\ None \notin S!EventRow /\ None \notin Event /\ None \notin S!PointerRow
    /\ None \notin S!ClaimRow /\ None \notin S!MappingRow /\ None \notin S!RevisionRow
BY StoreConstants DEF S!StoreAssumption, Event

LEMMA RevisionIs ==
  \A r \in S!Revision : r.prov \in Nat /\ r.n \in Nat /\ Rank[r.prov] \in Nat
<1> TAKE r \in S!Revision
<1>1. r.prov \in Providers /\ r.n \in 1 .. MaxRevision
  BY DEF S!Revision
<1>2. MaxRevision \in Nat /\ Providers \subseteq Nat /\ Rank \in [Providers -> Nat]
  BY StoreConstants DEF S!StoreAssumption
<1>3. r.n \in Nat
  BY <1>1, <1>2
<1> QED
  BY <1>1, <1>2, <1>3

\* Authority is a strict order of all revisions.
LEMMA AuthorityOrders ==
    /\ \A a, b \in S!Revision : a = b \/ S!Above(a, b) \/ S!Above(b, a)
    /\ \A a, b \in S!Revision : S!Above(a, b) => ~S!Above(b, a)
    /\ \A a, b, c \in S!Revision : S!Above(a, b) /\ S!Above(b, c) => S!Above(a, c)
<1> DEFINE Lower(a, b) == \/ Rank[a.prov] < Rank[b.prov]
                          \/ /\ Rank[a.prov] = Rank[b.prov]
                             /\ a.n < b.n \/ (a.n = b.n /\ a.prov < b.prov)
<1>1. \A a \in S!Revision : a.prov \in Nat /\ a.n \in Nat /\ Rank[a.prov] \in Nat
  BY RevisionIs
<1>0. \A a \in S!Revision : a = [prov |-> a.prov, n |-> a.n]
  BY DEF S!Revision
<1>2. \A a, b \in S!Revision : S!Above(a, b) <=> Lower(b, a)
  BY <1>1 DEF S!Above
<1>3. \A a, b \in S!Revision : a = b \/ Lower(b, a) \/ Lower(a, b)
  BY <1>0, <1>1
<1>4. \A a, b \in S!Revision : Lower(b, a) => ~Lower(a, b)
  BY <1>1
<1>5. \A a, b, c \in S!Revision : Lower(b, a) /\ Lower(c, b) => Lower(c, a)
  BY <1>1
<1> HIDE DEF Lower
<1> QED
  BY <1>2, <1>3, <1>4, <1>5

\* The highest of some revisions, if one is.
LEMMA HighestIs ==
  ASSUME NEW T \in SUBSET S!Revision, NEW r \in T, \A q \in T : ~S!Above(q, r)
  PROVE  S!MaxAuthority(T) = r
<1>1. S!MaxAuthority(T) \in T /\ \A q \in T : ~S!Above(q, S!MaxAuthority(T))
  BY DEF S!MaxAuthority
<1> QED
  BY <1>1, AuthorityOrders

LEMMA EventIs ==
  ASSUME NEW event \in Event
  PROVE  /\ event \in S!EventRow /\ S!Known(event) \in SUBSET S!Revision
         /\ event.auth \in S!Known(event) /\ S!Winner(event) = event.auth
         /\ \A r \in S!Known(event) : ~S!Above(r, event.auth)
<1>1. event \in S!EventRow /\ Weighed(event)
  BY DEF Event
<1>2. S!Known(event) \in SUBSET S!Revision
  <2>1. \A p \in Providers : event.revs[p] \in 0 .. MaxRevision
    BY <1>1 DEF S!EventRow
  <2>2. \A p \in Providers : event.revs[p] > 0 => [prov |-> p, n |-> event.revs[p]] \in S!Revision
    BY <2>1, StoreConstants DEF S!StoreAssumption, S!Revision
  <2>3. event.auth \in S!Revision /\ event.boot \in S!Revision
    BY <1>1 DEF S!EventRow
  <2> QED
    BY <2>2, <2>3 DEF S!Known
<1>3. event.auth \in S!Known(event)
  BY DEF S!Known
<1> QED
  BY <1>1, <1>2, <1>3, HighestIs DEF Weighed, S!Winner

-----------------------------------------------------------------------------
\* The table, row by row.
LEMMA TableRows ==
  ASSUME Fit
  PROVE  /\ \A id \in Ids : stored[S!EventKey(id)] \in Event \cup {None}
         /\ \A id \in Ids : stored[S!PointerKey(id)] \in S!PointerRow \cup {None}
         /\ \A i \in Identities : stored[S!ClaimKey(i)] \in S!ClaimRow \cup {None}
         /\ \A e \in ProviderEvents : stored[S!MappingKey(e)] \in S!MappingRow \cup {None}
         /\ \A id \in Ids, p \in Providers :
               stored[S!RevisionKey(id, p)] \in S!RevisionRow \cup {None}
BY KeysOf DEF Fit, Fits

\* A row of the right kind has a version and is a row.
LEMMA FitsIs ==
  ASSUME NEW k \in S!Keys, NEW row, Fits(k, row)
  PROVE  row # None /\ row.version \in Nat \ {0} /\ row \in AnyRow
<1>1. \/ \E id \in Ids : k = S!EventKey(id)
      \/ \E id \in Ids : k = S!PointerKey(id)
      \/ \E i \in Identities : k = S!ClaimKey(i)
      \/ \E e \in ProviderEvents : k = S!MappingKey(e)
      \/ \E id \in Ids, p \in Providers : k = S!RevisionKey(id, p)
  BY DEF S!Keys
<1>2. row \in AnyRow
  BY <1>1 DEF Fits, AnyRow
<1>3. row.version \in Nat \ {0}
  BY <1>2 DEF AnyRow, Event, S!EventRow, S!PointerRow, S!ClaimRow, S!MappingRow,
              S!RevisionRow, S!Versions
<1> QED
  BY <1>2, <1>3, Kinds DEF AnyRow

LEMMA VersionIs ==
  ASSUME Fit, NEW k \in S!Keys
  PROVE  /\ S!Version(k) \in Nat /\ S!Version(k) = S!Expected(stored[k])
         /\ stored[k] = None <=> S!Version(k) = 0
         /\ stored[k] # None => S!Version(k) = stored[k].version
<1>1. CASE stored[k] = None
  BY <1>1 DEF S!Version, S!Expected
<1>2. CASE stored[k] # None
  <2>1. Fits(k, stored[k])
    BY <1>2 DEF Fit
  <2>2. stored[k].version \in Nat \ {0}
    BY <2>1, FitsIs
  <2> QED
    BY <1>2, <2>2 DEF S!Version, S!Expected
<1> QED
  BY <1>1, <1>2

\* What one transaction does to the table: a row stays, or rises by one.
Raised ==
    \A k \in S!Keys : \/ stored'[k] = stored[k]
                      \/ /\ Fits(k, stored'[k])
                         /\ stored'[k].version = S!Version(k) + 1

LEMMA RaisedRow ==
  ASSUME Fit, Raised, NEW k \in S!Keys
  PROVE  /\ S!Version(k)' \in Nat /\ S!Version(k) <= S!Version(k)'
         /\ S!Version(k)' <= S!Version(k) + 1
         /\ S!Version(k)' = S!Version(k) => stored'[k] = stored[k]
         /\ stored[k] # None => stored'[k] # None
<1>1. S!Version(k) \in Nat /\ (stored[k] = None <=> S!Version(k) = 0)
  BY VersionIs
<1>2. CASE stored'[k] = stored[k]
  BY <1>1, <1>2 DEF S!Version
<1>3. CASE Fits(k, stored'[k]) /\ stored'[k].version = S!Version(k) + 1
  <2>1. stored'[k] # None
    BY <1>3, FitsIs
  <2>2. S!Version(k)' = S!Version(k) + 1
    BY <1>3, <2>1 DEF S!Version
  <2> QED
    BY <1>1, <2>1, <2>2
<1> QED
  BY <1>2, <1>3 DEF Raised

LEMMA RaisedFits ==
  ASSUME Fit, Raised
  PROVE  Fit'
<1> SUFFICES ASSUME NEW k \in S!Keys, stored'[k] # None PROVE Fits(k, stored'[k])
  BY DEF Fit, Fits
<1> QED
  BY DEF Raised, Fit

LEMMA RaisedExists ==
  ASSUME Fit, Raised, NEW id \in Ids, S!Exists(id)
  PROVE  S!Exists(id)'
BY KeysOf, RaisedRow DEF S!Exists, S!EventOf

\* A copy that is current after a step was current before it.
LEMMA RaisedCopy ==
  ASSUME Fit, Raised, NEW k \in S!Keys, NEW row, S!Expected(row) \in Nat, Copied(k, row)
  PROVE  Copied(k, row)'
<1>1. S!Version(k) \in Nat /\ S!Version(k)' \in Nat /\ S!Version(k) <= S!Version(k)'
      /\ (S!Version(k)' = S!Version(k) => stored'[k] = stored[k])
  BY RaisedRow, VersionIs
<1>2. S!Expected(row) <= S!Version(k) /\ (S!Expected(row) = S!Version(k) => stored[k] = row)
  BY DEF Copied
<1>3. S!Expected(row) <= S!Version(k)'
      /\ (S!Expected(row) = S!Version(k)' => stored'[k] = row)
  BY <1>1, <1>2
<1>4. S!Expected(row)' = S!Expected(row)
  BY DEF S!Expected
<1> QED
  BY <1>3, <1>4 DEF Copied

LEMMA RaisedExpects ==
  ASSUME Fit, Raised, NEW w, Expects(w)
  PROVE  Expects(w)'
<1>1. w.key \in S!Keys /\ w.expect \in Nat /\ w.expect <= S!Version(w.key)
      /\ (w.row # None => Fits(w.key, w.row) /\ w.row.version = w.expect + 1)
  BY DEF Expects
<1>2. S!Version(w.key) \in Nat /\ S!Version(w.key)' \in Nat
         /\ S!Version(w.key) <= S!Version(w.key)'
  BY <1>1, RaisedRow, VersionIs
<1>3. w.expect <= S!Version(w.key)'
  BY <1>1, <1>2
<1>4. Fits(w.key, w.row)' <=> Fits(w.key, w.row)
  BY DEF Fits
<1> QED
  BY <1>1, <1>3, <1>4 DEF Expects

\* A plan that holds after a step held before it, and the rows it expects are the same.
LEMMA RaisedPlan ==
  ASSUME Fit, Raised, NEW plan, Plan(plan)
  PROVE  /\ Plan(plan)'
         /\ S!Holds(plan)' => /\ S!Holds(plan)
                              /\ \A w \in plan : stored'[w.key] = stored[w.key]
<1>1. Plan(plan)'
  BY RaisedExpects DEF Plan
<1>2. ASSUME S!Holds(plan)'
      PROVE  S!Holds(plan) /\ \A w \in plan : stored'[w.key] = stored[w.key]
  <2> SUFFICES ASSUME NEW w \in plan
               PROVE  w.expect = S!Version(w.key) /\ stored'[w.key] = stored[w.key]
    BY DEF S!Holds
  <2>1. w.key \in S!Keys /\ w.expect \in Nat /\ w.expect <= S!Version(w.key)
    BY DEF Plan, Expects
  <2>2. S!Version(w.key) \in Nat /\ S!Version(w.key) <= S!Version(w.key)'
        /\ (S!Version(w.key)' = S!Version(w.key) => stored'[w.key] = stored[w.key])
    BY <2>1, RaisedRow, VersionIs
  <2>3. w.expect = S!Version(w.key)'
    BY <1>2 DEF S!Holds
  <2>4. S!Version(w.key)' = S!Version(w.key)
    BY <2>1, <2>2, <2>3
  <2> QED
    BY <2>2, <2>3, <2>4
<1> QED
  BY <1>1, <1>2

\* Of the rows a plan expects, what justifies it.
LEMMA JustifiedStays ==
  ASSUME Fit, Raised, NEW l, NEW plan, Plan(plan), Justified(l, plan),
         l.op = "ingest" => l.in.content \in Contents,
         \A w \in plan : stored'[w.key] = stored[w.key]
  PROVE  Justified(l, plan)'
<1>0. \A id \in Ids : S!Exists(id) => S!Exists(id)'
  BY RaisedExists
<1>1. ASSUME NEW w \in plan, NEW id \in Ids, w.key = S!EventKey(id)
      PROVE  S!EventOf(id)' = S!EventOf(id) /\ S!Exists(id)' = S!Exists(id)
  BY <1>1 DEF S!EventOf, S!Exists
<1>2. EventsJust(l, plan)'
  <2> SUFFICES ASSUME NEW w \in plan, NEW id \in Ids, w.key = S!EventKey(id), w.row # None
               PROVE
        /\ S!Exists(id)'
        /\ w.row.content # S!EventOf(id)'.content => S!Above(w.row.auth, S!EventOf(id)'.auth)
        /\ \/ l.op = "bootstrap" /\ id = l.in.id
           \/ \E v \in plan : v.key = S!PointerKey(id) /\ v.row # None
        /\ Rewritten(id, w)' =>
              /\ \E v \in plan : /\ v.key = S!ClaimKey(Identity(w.row.content))
                                 /\ v.row # None /\ v.row.ids = {id}
              /\ Writes(plan, S!ClaimKey(Identity(S!EventOf(id)'.content)))
    BY DEF EventsJust, S!Above, Writes, S!PointerKey, S!ClaimKey, S!EventKey, Identity
  <2>1. S!EventOf(id)' = S!EventOf(id) /\ (Rewritten(id, w)' <=> Rewritten(id, w))
    BY <1>1 DEF Rewritten, S!EventOf, Identity, S!EventKey
  <2> QED
    BY <1>0, <2>1 DEF Justified, EventsJust
<1>3. PointersJust(plan)'
  BY DEF Justified, PointersJust, S!PointerKey, S!EventKey
<1>4. ClaimsJust(plan)'
  <2> SUFFICES ASSUME NEW w \in plan, NEW i \in Identities, w.key = S!ClaimKey(i), w.row # None
               PROVE  \E v \in plan, id \in Ids :
                        /\ v.key = S!EventKey(id) /\ S!Exists(id)'
                        /\ CandidatesOf(i)' \subseteq {id}
                        /\ w.row.ids = IF i = Identity(NewContent(v))' THEN {id} ELSE {}
    BY DEF ClaimsJust, S!ClaimKey, S!EventKey
  <2>1. PICK v \in plan, id \in Ids :
            /\ v.key = S!EventKey(id) /\ S!Exists(id)
            /\ CandidatesOf(i) \subseteq {id}
            /\ w.row.ids = IF i = Identity(NewContent(v)) THEN {id} ELSE {}
    BY DEF Justified, ClaimsJust
  <2>2. CandidatesOf(i)' = CandidatesOf(i)
    BY DEF CandidatesOf, S!Candidates, S!ClaimKey
  <2>3. Identity(NewContent(v))' = Identity(NewContent(v))
    BY DEF NewContent, Identity
  <2> QED
    BY <1>0, <2>1, <2>2, <2>3
<1>5. MappingsJust(l, plan)'
  <2> DEFINE k == S!ClaimKey(Identity(l.in.content))
  <2> SUFFICES ASSUME NEW w \in plan, NEW e \in ProviderEvents, w.key = S!MappingKey(e),
                      w.row # None
               PROVE  /\ l.op = "ingest" /\ l.in.event = e /\ stored'[w.key] = None
                      /\ \E v \in plan : v.key = k
                      /\ S!Exists(w.row.event)' /\ S!Candidates(stored'[k]) = {w.row.event}
    BY DEF MappingsJust, S!MappingKey, S!ClaimKey, Identity, S!Candidates
  <2>1. /\ l.op = "ingest" /\ l.in.event = e /\ stored[w.key] = None
        /\ \E v \in plan : v.key = k
        /\ S!Exists(w.row.event) /\ S!Candidates(stored[k]) = {w.row.event}
    BY DEF Justified, MappingsJust
  <2>2. stored'[k] = stored[k]
    BY <2>1
  <2>3. w.row.event \in Ids
    <3>1. w.row \in S!MappingRow
      BY DEF Plan, Expects, Fits
    <3> QED
      BY <3>1 DEF S!MappingRow
  <2> QED
    BY <1>0, <2>1, <2>2, <2>3
<1>6. RevisionsJust(plan)'
  BY DEF Justified, RevisionsJust, S!RevisionKey
<1> QED
  BY <1>2, <1>3, <1>4, <1>5, <1>6 DEF Justified

LEMMA TransactingStays ==
  ASSUME Fit, Raised, NEW l, Transacting(l)
  PROVE  Transacting(l)'
<1> SUFFICES ASSUME l.pc = "transact"
             PROVE  /\ Plan(l.plan)'
                    /\ S!Holds(l.plan)' => Justified(l, l.plan)'
  BY DEF Transacting, S!Report, S!Bootstrap, S!Revision
<1>1. /\ (l.op = "ingest" /\ l.in \in S!Report) \/ (l.op = "bootstrap" /\ l.in \in S!Bootstrap)
      /\ Plan(l.plan)
      /\ S!Holds(l.plan) => Justified(l, l.plan)
  BY DEF Transacting
<1>2. l.op = "ingest" => l.in.content \in Contents
  BY <1>1 DEF S!Report
<1>3. /\ Plan(l.plan)'
      /\ S!Holds(l.plan)' => /\ S!Holds(l.plan)
                             /\ \A w \in l.plan : stored'[w.key] = stored[w.key]
  BY <1>1, RaisedPlan
<1> QED
  BY <1>1, <1>2, <1>3, JustifiedStays

LEMMA TargetIds ==
  ASSUME NEW l, TargetIs(l)
  PROVE  TargetOf(l) \in Ids /\ S!Exists(TargetOf(l))
BY DEF TargetIs, TargetOf, S!MappingRow

LEMMA TargetStays ==
  ASSUME Fit, Raised, NEW l, TargetIs(l), l.in \in S!Report
  PROVE  TargetIs(l)' /\ TargetOf(l)' = TargetOf(l) /\ TargetOf(l) \in Ids /\ S!Exists(TargetOf(l))
<1>0. TargetOf(l)' = TargetOf(l)
  BY DEF TargetOf
<1>1. CASE l.mapped # None
  <2>1. l.mapped \in S!MappingRow /\ S!Exists(l.mapped.event)
    BY <1>1 DEF TargetIs
  <2>2. l.mapped.event \in Ids
    BY <2>1 DEF S!MappingRow
  <2>3. S!Exists(l.mapped.event)'
    BY <2>1, <2>2, RaisedExists
  <2> QED
    BY <1>0, <1>1, <2>1, <2>2, <2>3 DEF TargetIs, TargetOf, S!MappingRow, S!Versions
<1>2. CASE l.mapped = None
  <2> DEFINE k == S!ClaimKey(Identity(l.in.content))
  <2>1. PICK id \in Ids : l.claim.ids = {id} /\ S!Exists(id)
    BY <1>2 DEF TargetIs
  <2>2. l.claim \in S!ClaimRow /\ Copied(k, l.claim)
    BY <1>2 DEF TargetIs
  <2>3. k \in S!Keys
    BY KeysOf, IdentityIs DEF S!Report
  <2>4. S!Expected(l.claim) \in Nat
    BY <2>2 DEF S!Expected, S!ClaimRow, S!Versions
  <2>5. Copied(k, l.claim)'
    <3> HIDE DEF k
    <3> QED
      BY <2>2, <2>3, <2>4, RaisedCopy
  <2>6. S!Exists(id)'
    BY <2>1, RaisedExists
  <2>7. S!Exists(TargetOf(l)) /\ TargetOf(l) = id
    BY <1>2, <2>1 DEF TargetOf
  <2>8. k' = k
    BY DEF S!ClaimKey, Identity
  <2>9. TargetIs(l)'
    BY <1>2, <2>1, <2>2, <2>5, <2>6, <2>8 DEF TargetIs, S!ClaimRow, S!Versions
  <2> QED
    BY <1>0, <2>7, <2>9
<1> QED
  BY <1>1, <1>2

LEMMA IngestingStays ==
  ASSUME Fit, Raised, NEW l, l \in Locals, Ingesting(l)
  PROVE  Ingesting(l)'
<1>1. /\ l.pc \in {"identity"} \cup Reads => l.op = "ingest" /\ l.in \in S!Report
      /\ l.pc = "identity" => l.mapped = None
      /\ l.pc \in Reads => TargetIs(l)
      /\ l.pc \in Reads \ {"event"} =>
            l.event \in Event /\ Copied(S!EventKey(TargetOf(l)), l.event)
      /\ l.pc = "prepare" => News(l) /\ Revised(l)
  BY DEF Ingesting
<1>2. ASSUME l.pc \in Reads PROVE TargetIs(l)' /\ TargetOf(l)' = TargetOf(l) /\ TargetOf(l) \in Ids
  BY <1>1, <1>2, TargetStays
<1>3. ASSUME l.pc \in Reads \ {"event"} PROVE Copied(S!EventKey(TargetOf(l)), l.event)'
  <2> DEFINE k == S!EventKey(TargetOf(l))
  <2>1. l.event \in Event /\ Copied(k, l.event) /\ l.pc \in Reads
    BY <1>1, <1>3 DEF Reads
  <2>2. k \in S!Keys
    BY <1>2, <2>1, KeysOf
  <2>3. S!Expected(l.event) \in Nat
    BY <2>1, EventIs DEF S!Expected, S!EventRow, S!Versions
  <2>4. k' = k
    BY <1>2, <2>1 DEF S!EventKey
  <2>5. Copied(k, l.event)'
    <3> HIDE DEF k
    <3> QED
      BY <2>1, <2>2, <2>3, <2>4, RaisedCopy
  <2> QED
    BY <2>5
<1>4. ASSUME l.pc = "prepare" PROVE News(l)'
  <2>1. l.in \in S!Report /\ News(l) /\ l.pc \in Reads
    BY <1>1, <1>4 DEF Reads
  <2>2. PICK k : k = S!RevisionKey(TargetOf(l), ProviderOf[l.in.event])
    OBVIOUS
  <2>3. PICK w \in l.plan :
          /\ l.plan = {w} /\ Expects(w) /\ w.key = k /\ w.row # None
          /\ w.expect = S!Version(k) /\ stored[k] # None => stored[k].n < l.in.n
          /\ w.row.n = l.in.n
    BY <2>1, <2>2 DEF News
  <2>4. Expects(w)'
    BY <2>3, RaisedExpects
  <2>5. k \in S!Keys
    BY <2>3 DEF Expects
  <2>6. w.expect = S!Version(k)' /\ stored'[k] # None => stored'[k].n < l.in.n
    <3>1. w.expect \in Nat /\ w.expect <= S!Version(k)
      BY <2>3 DEF Expects
    <3> QED
      BY <2>3, <2>5, <3>1, RaisedRow, VersionIs
  <2>7. S!RevisionKey(TargetOf(l), ProviderOf[l.in.event])' = k
    BY <2>2 DEF S!RevisionKey, TargetOf
  <2> QED
    BY <2>3, <2>4, <2>6, <2>7 DEF News, S!Version
<1>5. ASSUME l.pc = "prepare" PROVE Revised(l)'
  BY <1>1, <1>5 DEF Revised, S!Above
<1> QED
  BY <1>1, <1>2, <1>3, <1>4, <1>5 DEF Ingesting, S!Report, Event, S!EventRow, Weighed, S!Known,
     S!Above, S!Revision, S!Versions

LEMMA BootstrappingStays ==
  ASSUME Fit, Raised, NEW l, l \in Locals, Bootstrapping(l)
  PROVE  Bootstrapping(l)'
<1>1. ASSUME l.pc \in Bootstraps
      PROVE  Copied(S!ClaimKey(Identity(l.in.content)), l.claim)'
  <2> DEFINE k == S!ClaimKey(Identity(l.in.content))
  <2>1. l.in \in S!Bootstrap /\ l.claim \in S!ClaimRow \cup {None} /\ Copied(k, l.claim)
    BY <1>1 DEF Bootstrapping
  <2>2. k \in S!Keys
    BY <2>1, KeysOf, IdentityIs DEF S!Bootstrap
  <2>3. S!Expected(l.claim) \in Nat
    BY <2>1 DEF S!Expected, S!ClaimRow, S!Versions
  <2>4. k' = k
    BY DEF S!ClaimKey, Identity
  <2>5. Copied(k, l.claim)'
    <3> HIDE DEF k
    <3> QED
      BY <2>1, <2>2, <2>3, <2>4, RaisedCopy
  <2> QED
    BY <2>5
<1>2. ASSUME l.pc \in {"owner", "previous"}
      PROVE  Copied(S!EventKey(l.in.id), l.event)'
  <2> DEFINE k == S!EventKey(l.in.id)
  <2>1. l.in \in S!Bootstrap /\ l.event \in Event /\ Copied(k, l.event)
    BY <1>2 DEF Bootstrapping, Bootstraps
  <2>2. k \in S!Keys
    BY <2>1, KeysOf DEF S!Bootstrap
  <2>3. S!Expected(l.event) \in Nat
    BY <2>1, EventIs DEF S!Expected, S!EventRow, S!Versions
  <2>4. k' = k
    BY DEF S!EventKey
  <2>5. Copied(k, l.event)'
    <3> HIDE DEF k
    <3> QED
      BY <2>1, <2>2, <2>3, <2>4, RaisedCopy
  <2> QED
    BY <2>5
<1> QED
  BY <1>1, <1>2 DEF Bootstrapping, S!Bootstrap, S!ClaimRow, Event, S!EventRow, Weighed, S!Known,
     S!Above, S!Revision, S!Versions, S!Candidates, Identity

\* What a caller holds outlives the transactions of the others.
LEMMA CallStays ==
  ASSUME Fit, Raised, NEW l, l \in Locals, CallInv(l)
  PROVE  CallInv(l)'
BY IngestingStays, BootstrappingStays, TransactingStays DEF CallInv

LEMMA RestIsRaised ==
  ASSUME UNCHANGED stored
  PROVE  Raised
BY DEF Raised

-----------------------------------------------------------------------------
\* A transaction whose conditions hold puts its rows, and leaves the others.
Carried(plan) ==
    /\ \A w \in plan : w.row # None => stored'[w.key] = w.row
    /\ \A k \in S!Keys : ~Writes(plan, k) => stored'[k] = stored[k]

LEMMA Applies ==
  ASSUME Fit, NEW plan, Plan(plan), S!Holds(plan), stored' = S!Applied(plan)
  PROVE  Carried(plan) /\ Raised
<1>1. \A v, w \in plan : v.key = w.key => v = w
  BY DEF Plan
<1>2. ASSUME NEW w \in plan, w.row # None PROVE stored'[w.key] = w.row
  <2>1. w.key \in S!Keys
    BY DEF Plan, Expects
  <2>2. (CHOOSE v \in plan : v.key = w.key) = w
    BY <1>1
  <2>3. stored'[w.key] = (CHOOSE v \in plan : v.key = w.key).row
    BY <1>2, <2>1 DEF S!Applied
  <2> QED
    BY <2>2, <2>3
<1>3. ASSUME NEW k \in S!Keys, ~Writes(plan, k) PROVE stored'[k] = stored[k]
  BY <1>3 DEF S!Applied, Writes
<1>4. ASSUME NEW k \in S!Keys, Writes(plan, k)
      PROVE  Fits(k, stored'[k]) /\ stored'[k].version = S!Version(k) + 1
  <2>1. PICK w \in plan : w.key = k /\ w.row # None
    BY <1>4 DEF Writes
  <2>2. Fits(k, w.row) /\ w.row.version = w.expect + 1
    BY <2>1 DEF Plan, Expects
  <2>3. w.expect = S!Version(k)
    BY <2>1 DEF S!Holds
  <2> QED
    BY <1>2, <2>1, <2>2, <2>3
<1> QED
  BY <1>2, <1>3, <1>4 DEF Carried, Raised

\* A justified transaction creates no event and leaves each of one kind.
LEMMA CommitEvents ==
  ASSUME Fit, NEW l, NEW plan, Plan(plan), Justified(l, plan), Carried(plan), Raised,
         NEW id \in Ids
  PROVE  /\ S!Exists(id)' <=> S!Exists(id)
         /\ \/ S!EventOf(id)' = S!EventOf(id)
            \/ \E w \in plan : w.key = S!EventKey(id) /\ w.row # None /\ S!EventOf(id)' = w.row
<1> DEFINE k == S!EventKey(id)
<1>1. k \in S!Keys /\ S!EventOf(id) = stored[k] /\ S!EventOf(id)' = stored'[k]
  BY KeysOf DEF S!EventOf, S!EventKey
<1>2. S!Exists(id) => S!Exists(id)'
  BY RaisedExists
<1>3. CASE Writes(plan, k)
  <2>1. PICK w \in plan : w.key = k /\ w.row # None
    BY <1>3 DEF Writes
  <2>2. S!Exists(id)
    BY <2>1 DEF Justified, EventsJust
  <2>3. stored'[k] = w.row
    BY <2>1 DEF Carried
  <2> QED
    BY <1>1, <1>2, <2>1, <2>2, <2>3
<1>4. CASE ~Writes(plan, k)
  <2>1. stored'[k] = stored[k]
    BY <1>1, <1>4 DEF Carried
  <2> QED
    BY <1>1, <2>1 DEF S!Exists
<1> QED
  BY <1>3, <1>4

\* The candidates of an identity after a justified transaction: as they were, or those of
\* the claim it puts, which rests on one event.
ClaimPut(plan, i, w, v, id) ==
    /\ w.key = S!ClaimKey(i) /\ w.row # None /\ CandidatesOf(i)' = w.row.ids
    /\ v.key = S!EventKey(id) /\ S!Exists(id)
    /\ CandidatesOf(i) \subseteq {id}
    /\ w.row.ids = IF i = Identity(NewContent(v)) THEN {id} ELSE {}
Resolved(plan, i) ==
    \/ CandidatesOf(i)' = CandidatesOf(i) /\ ~Writes(plan, S!ClaimKey(i))
    \/ \E w, v \in plan, id \in Ids : ClaimPut(plan, i, w, v, id)

LEMMA CommitCandidates ==
  ASSUME Fit, NEW l, NEW plan, Plan(plan), Justified(l, plan), Carried(plan), Raised,
         NEW i \in Identities
  PROVE  Resolved(plan, i)
<1> DEFINE k == S!ClaimKey(i)
<1>1. /\ k \in S!Keys /\ CandidatesOf(i) = S!Candidates(stored[k])
      /\ CandidatesOf(i)' = S!Candidates(stored'[k])
  BY KeysOf DEF CandidatesOf, S!ClaimKey, S!Candidates
<1>2. CASE Writes(plan, k)
  <2>1. PICK w \in plan : w.key = k /\ w.row # None
    BY <1>2 DEF Writes
  <2>2. stored'[k] = w.row
    BY <2>1 DEF Carried
  <2>3. S!Candidates(stored'[k]) = w.row.ids
    BY <2>1, <2>2 DEF S!Candidates
  <2>4. \E v \in plan, id \in Ids :
               /\ v.key = S!EventKey(id) /\ S!Exists(id)
               /\ CandidatesOf(i) \subseteq {id}
               /\ w.row.ids = IF i = Identity(NewContent(v)) THEN {id} ELSE {}
    BY <2>1 DEF Justified, ClaimsJust
  <2> QED
    BY <1>1, <2>1, <2>3, <2>4 DEF Resolved, ClaimPut
<1>3. CASE ~Writes(plan, k)
  <2>1. stored'[k] = stored[k]
    BY <1>1, <1>3 DEF Carried
  <2> QED
    BY <1>1, <1>3, <2>1 DEF Resolved
<1> QED
  BY <1>2, <1>3

\* What a plan says of an event is what the event says after it.
LEMMA CommitContent ==
  ASSUME Fit, NEW l, NEW plan, Plan(plan), Justified(l, plan), Carried(plan), Raised,
         NEW id \in Ids, NEW v \in plan, v.key = S!EventKey(id), S!Exists(id)
  PROVE  NewContent(v) = S!EventOf(id)'.content
<1>1. S!EventKey(id) \in S!Keys /\ S!EventOf(id)' = stored'[S!EventKey(id)]
  BY KeysOf DEF S!EventOf, S!EventKey
<1>2. CASE v.row # None
  BY <1>1, <1>2 DEF Carried, NewContent
<1>3. CASE v.row = None
  <2>1. ~Writes(plan, S!EventKey(id))
    BY <1>3 DEF Writes, Plan
  <2> QED
    BY <1>1, <1>3, <2>1 DEF Carried, NewContent
<1> QED
  BY <1>2, <1>3

LEMMA CommitIndexed ==
  ASSUME Fit, Indexed, NEW l, NEW plan, Plan(plan), Justified(l, plan), Carried(plan), Raised
  PROVE  Indexed'
<1>1. ASSUME NEW i \in Identities, NEW id \in CandidatesOf(i)' PROVE S!Exists(id)'
  <2>1. \A jd \in CandidatesOf(i) : S!Exists(jd)
    BY DEF Indexed
  <2>2. CASE CandidatesOf(i)' = CandidatesOf(i)
    <3>1. S!Exists(id) /\ id \in Ids
      <4>1. stored[S!ClaimKey(i)] \in S!ClaimRow \cup {None}
        BY TableRows
      <4>2. CandidatesOf(i) \subseteq Ids
        BY <4>1 DEF CandidatesOf, S!Candidates, S!ClaimRow
      <4> QED
        BY <1>1, <2>1, <2>2, <4>2
    <3> QED
      BY <3>1, CommitEvents
  <2>3. ASSUME NEW jd \in Ids, S!Exists(jd), CandidatesOf(i)' \in {{jd}, {}} PROVE S!Exists(id)'
    <3>1. id = jd
      BY <1>1, <2>3
    <3> QED
      BY <2>3, <3>1, CommitEvents
  <2>4. Resolved(plan, i)
    BY CommitCandidates
  <2> QED
    BY <2>2, <2>3, <2>4 DEF Resolved, ClaimPut
<1>2. ASSUME NEW i \in Identities, NEW id \in CandidatesOf(i)', NEW jd \in CandidatesOf(i)'
      PROVE  id = jd
  <2>1. \A kd, ld \in CandidatesOf(i) : kd = ld
    BY DEF Indexed
  <2>2. ASSUME NEW kd, CandidatesOf(i)' \in {{kd}, {}} PROVE id = jd
    BY <1>2, <2>2
  <2>3. Resolved(plan, i)
    BY CommitCandidates
  <2>4. ASSUME NEW w \in plan, NEW v \in plan, NEW kd \in Ids, ClaimPut(plan, i, w, v, kd)
        PROVE  CandidatesOf(i)' \in {{kd}, {}}
    BY <2>4 DEF ClaimPut
  <2>5. CASE CandidatesOf(i)' = CandidatesOf(i)
    BY <1>2, <2>1, <2>5
  <2> QED
    BY <2>2, <2>3, <2>4, <2>5 DEF Resolved
<1>3. ASSUME NEW id \in Ids, NEW i \in Identities, S!Exists(id)'
      PROVE  id \in CandidatesOf(i)' <=> i = Identity(S!EventOf(id)'.content)
  <2> DEFINE old == Identity(S!EventOf(id).content)
             new == Identity(S!EventOf(id)'.content)
  <2>1. S!Exists(id)
    BY <1>3, CommitEvents
  <2>2. id \in CandidatesOf(i) <=> i = old
    BY <2>1 DEF Indexed
  \* An event that has moved has its claims moved with it.
  <2>3. ASSUME old # new
        PROVE  /\ \E w \in plan : w.key = S!ClaimKey(new) /\ w.row # None /\ w.row.ids = {id}
               /\ Writes(plan, S!ClaimKey(old))
    <3>1. PICK w \in plan : w.key = S!EventKey(id) /\ w.row # None /\ S!EventOf(id)' = w.row
      BY <2>3, CommitEvents
    <3>2. Rewritten(id, w)
      BY <2>3, <3>1 DEF Rewritten, S!EventOf
    <3> QED
      BY <3>1, <3>2 DEF Justified, EventsJust
  <2> HIDE DEF old, new
  <2>4. CASE CandidatesOf(i)' = CandidatesOf(i) /\ ~Writes(plan, S!ClaimKey(i))
    <3>1. old = new \/ (i # old /\ i # new)
      BY <2>3, <2>4 DEF Writes
    <3> QED
      BY <2>2, <2>4, <3>1 DEF new
  <2>5. ASSUME NEW w \in plan, NEW v \in plan, NEW jd \in Ids, ClaimPut(plan, i, w, v, jd)
        PROVE  id \in CandidatesOf(i)' <=> i = new
    <3>0. /\ w.key = S!ClaimKey(i) /\ w.row # None /\ CandidatesOf(i)' = w.row.ids
          /\ v.key = S!EventKey(jd) /\ S!Exists(jd) /\ CandidatesOf(i) \subseteq {jd}
          /\ w.row.ids = IF i = Identity(NewContent(v)) THEN {jd} ELSE {}
      BY <2>5 DEF ClaimPut
    <3>1. CASE id = jd
      <4>1. NewContent(v) = S!EventOf(id)'.content
        BY <3>0, <3>1, CommitContent
      <4>2. w.row.ids = IF i = new THEN {id} ELSE {}
        BY <3>0, <3>1, <4>1 DEF new
      <4> QED
        BY <3>0, <4>2
    <3>2. CASE id # jd
      <4>1. i # old /\ id \notin CandidatesOf(i)'
        BY <2>2, <3>0, <3>2
      <4>2. i # new
        <5> SUFFICES ASSUME i = new PROVE FALSE
          OBVIOUS
        <5>1. PICK u \in plan : u.key = S!ClaimKey(i) /\ u.row.ids = {id}
          BY <2>3, <4>1
        <5>2. u = w
          BY <3>0, <5>1 DEF Plan
        <5> QED
          BY <3>0, <3>2, <5>1, <5>2
      <4> QED
        BY <4>1, <4>2
    <3> QED
      BY <3>1, <3>2
  <2>6. Resolved(plan, i)
    BY CommitCandidates
  <2> QED
    BY <2>4, <2>5, <2>6 DEF Resolved, new
<1> QED
  BY <1>1, <1>2, <1>3 DEF Indexed

LEMMA CommitBound ==
  ASSUME Fit, Bound, NEW l, NEW plan, Plan(plan), Justified(l, plan), Carried(plan), Raised
  PROVE  Bound'
<1> SUFFICES ASSUME NEW e \in ProviderEvents, NEW id \in Ids,
                    stored'[S!MappingKey(e)] # None, stored'[S!MappingKey(e)].event = id
             PROVE  S!Exists(id)'
  BY DEF Bound, S!MappingKey
<1> DEFINE k == S!MappingKey(e)
<1>1. k \in S!Keys
  BY KeysOf
<1>2. CASE Writes(plan, k)
  <2>1. PICK w \in plan : w.key = k /\ w.row # None
    BY <1>2 DEF Writes
  <2>2. stored'[k] = w.row /\ S!Exists(w.row.event)
    BY <2>1 DEF Carried, Justified, MappingsJust
  <2>3. S!Exists(id)
    BY <2>2
  <2> QED
    BY <2>3, RaisedExists
<1>3. CASE ~Writes(plan, k)
  <2>1. stored'[k] = stored[k]
    BY <1>1, <1>3 DEF Carried
  <2>2. S!Exists(id)
    BY <2>1 DEF Bound
  <2> QED
    BY <2>2, RaisedExists
<1> QED
  BY <1>2, <1>3

\* The calls whose transactions write an event without its pointer count as repairs.
LEMMA CommitPointed ==
  ASSUME Fit, Pointed, NEW l, NEW plan, Plan(plan), Justified(l, plan), Carried(plan), Raised,
         S!Holds(plan),
         repaired' = IF l.op = "bootstrap" /\ stored' # stored
                     THEN repaired \cup {l.in.id} ELSE repaired
  PROVE  Pointed'
<1>1. ASSUME NEW id \in Ids, stored'[S!PointerKey(id)] # None PROVE S!Exists(id)'
  <2> DEFINE k == S!PointerKey(id)
  <2>1. k \in S!Keys
    BY KeysOf
  <2>2. CASE Writes(plan, k)
    <3>1. PICK v \in plan : v.key = S!EventKey(id) /\ v.row # None
      BY <2>2 DEF Writes, Justified, PointersJust
    <3>2. S!Exists(id)
      BY <3>1 DEF Justified, EventsJust
    <3> QED
      BY <3>2, RaisedExists
  <2>3. CASE ~Writes(plan, k)
    <3>1. stored'[k] = stored[k]
      BY <2>1, <2>3 DEF Carried
    <3>2. S!Exists(id)
      BY <1>1, <3>1 DEF Pointed
    <3> QED
      BY <3>2, RaisedExists
  <2> QED
    BY <2>2, <2>3
<1>2. ASSUME NEW id \in Ids, S!Exists(id)', id \notin repaired'
      PROVE  /\ stored'[S!PointerKey(id)] # None
             /\ stored'[S!PointerKey(id)].version = S!EventOf(id)'.version
  <2> DEFINE k == S!PointerKey(id)
             e == S!EventKey(id)
  <2>1. k \in S!Keys /\ e \in S!Keys /\ S!EventOf(id) = stored[e] /\ S!EventOf(id)' = stored'[e]
    BY KeysOf DEF S!EventOf, S!EventKey
  <2>2. S!Exists(id) /\ id \notin repaired
    BY <1>2, CommitEvents
  <2>3. stored[k] # None /\ stored[k].version = stored[e].version
    BY <2>1, <2>2 DEF Pointed, S!PointerFollows
  <2> HIDE DEF k, e
  <2>4. CASE Writes(plan, k)
    <3>1. PICK w \in plan : w.key = k /\ w.row # None
      BY <2>4 DEF Writes
    <3>2. PICK v \in plan : v.key = e /\ v.row # None /\ v.row.version = w.row.version
      BY <3>1 DEF Justified, PointersJust, k, e
    <3>3. stored'[k] = w.row /\ stored'[e] = v.row
      BY <3>1, <3>2 DEF Carried
    <3> QED
      BY <2>1, <3>1, <3>2, <3>3 DEF k
  <2>5. CASE ~Writes(plan, k)
    <3>1. stored'[k] = stored[k]
      BY <2>1, <2>5 DEF Carried
    <3>2. ~Writes(plan, e)
      <4> SUFFICES ASSUME Writes(plan, e) PROVE FALSE
        OBVIOUS
      <4>1. PICK w \in plan : w.key = e /\ w.row # None
        BY DEF Writes
      <4>2. l.op = "bootstrap" /\ id = l.in.id
        BY <2>5, <4>1 DEF Justified, EventsJust, Writes, k, e
      <4>3. stored' # stored
        <5>1. stored'[e] = w.row /\ w.row.version = w.expect + 1 /\ w.expect = S!Version(e)
          BY <4>1 DEF Carried, Plan, Expects, S!Holds
        <5>2. S!Version(e) \in Nat /\ S!Version(e) = stored[e].version
          BY <2>1, <2>2, VersionIs DEF S!Exists
        <5> QED
          BY <5>1, <5>2
      <4> QED
        BY <1>2, <4>2, <4>3
    <3>3. stored'[e] = stored[e]
      BY <2>1, <3>2 DEF Carried
    <3> QED
      BY <2>1, <2>3, <3>1, <3>3 DEF k
  <2> QED
    BY <2>4, <2>5
<1> QED
  BY <1>1, <1>2 DEF Pointed, S!PointerFollows, S!EventOf, S!PointerKey

-----------------------------------------------------------------------------
(* Steps of a caller.                                                      *)
LEMMA IdleCall == S!Idle \in Locals /\ CallInv(S!Idle) /\ CallInv(S!Idle)'
<1>1. S!Idle \in Locals
  BY DEF S!Idle, Locals, Plans
<1>2. S!Idle.pc = "idle"
  BY DEF S!Idle
<1>3. CallInv(S!Idle)
  BY <1>2 DEF CallInv, Ingesting, Bootstrapping, Transacting, Reads, Bootstraps
<1>4. CallInv(S!Idle)'
  <2>1. PICK l : l = S!Idle
    OBVIOUS
  <2>2. CallInv(l)'
    BY <1>2, <2>1 DEF CallInv, Ingesting, Bootstrapping, Transacting, Reads, Bootstraps
  <2> QED
    BY <2>1, <2>2 DEF S!Idle
<1> QED
  BY <1>1, <1>3, <1>4

LEMMA OthersStay ==
  ASSUME StoreInv, Raised, NEW c \in Callers, NEW l \in Locals, CallInv(l)',
         call' = [call EXCEPT ![c] = l]
  PROVE  Typed' /\ \A d \in Callers : CallInv(call[d])'
<1>1. call \in [Callers -> Locals] /\ Fit
  BY DEF StoreInv, Typed, TableInv
<1>2. Typed'
  BY <1>1 DEF Typed, Locals
<1>3. ASSUME NEW d \in Callers PROVE CallInv(call[d])'
  <2>1. PICK m : m = call'[d]
    OBVIOUS
  <2>2. CASE d = c
    <3>1. m = l
      BY <1>1, <2>1, <2>2
    <3> QED
      BY <2>1, <3>1
  <2>3. CASE d # c
    <3>1. m = call[d] /\ m \in Locals
      BY <1>1, <2>1, <2>3
    <3>2. CallInv(m)
      BY <3>1 DEF StoreInv
    <3>3. CallInv(m)'
      BY <1>1, <3>1, <3>2, CallStays
    <3> QED
      BY <2>1, <3>3
  <2> QED
    BY <2>2, <2>3
<1> QED
  BY <1>2, <1>3

\* The active callers when one of them takes another state.
LEMMA ActiveAfter ==
  ASSUME StoreInv, NEW c \in Callers, NEW l \in Locals, call' = [call EXCEPT ![c] = l]
  PROVE  /\ IsFiniteSet(Active') /\ Cardinality(Active) \in Nat /\ Cardinality(Active') \in Nat
         /\ Cardinality(Active') <= Cardinality(Active) + 1
         /\ call[c].pc # "idle" => Cardinality(Active') <= Cardinality(Active)
         /\ call[c].pc # "idle" /\ l.pc = "idle" => Cardinality(Active') = Cardinality(Active) - 1
<1>1. call \in [Callers -> Locals] /\ IsFiniteSet(Active)
  BY DEF StoreInv, Typed, TableInv, Counted
<1>2. call'[c] = l /\ \A d \in Callers \ {c} : call'[d] = call[d]
  BY <1>1
<1>3. Active' \in SUBSET (Active \cup {c})
  BY <1>2 DEF Active
<1>4. /\ IsFiniteSet(Active \cup {c}) /\ Cardinality(Active) \in Nat
      /\ Cardinality(Active \cup {c}) <= Cardinality(Active) + 1
  <2>1. Cardinality(Active) \in Nat
    BY <1>1, FS_CardinalityType
  <2>2. /\ IsFiniteSet(Active \cup {c})
        /\ Cardinality(Active \cup {c})
              = IF c \in Active THEN Cardinality(Active) ELSE Cardinality(Active) + 1
    BY <1>1, FS_AddElement
  <2> QED
    BY <2>1, <2>2
<1>5. /\ IsFiniteSet(Active') /\ Cardinality(Active') <= Cardinality(Active \cup {c})
      /\ Cardinality(Active') \in Nat /\ Cardinality(Active \cup {c}) \in Nat
  BY <1>3, <1>4, FS_Subset, FS_CardinalityType
<1>6. ASSUME call[c].pc # "idle" PROVE Cardinality(Active') <= Cardinality(Active)
  <2>1. c \in Active
    BY <1>6 DEF Active
  <2>2. Active' \in SUBSET Active
    BY <1>3, <2>1
  <2> QED
    BY <1>1, <2>2, FS_Subset
<1>7. ASSUME call[c].pc # "idle", l.pc = "idle"
      PROVE  Cardinality(Active') = Cardinality(Active) - 1
  <2>1. c \in Active
    BY <1>7 DEF Active
  <2>2. Active' = Active \ {c}
    BY <1>2, <1>7 DEF Active
  <2> QED
    BY <1>1, <2>1, <2>2, FS_RemoveElement
<1> QED
  BY <1>4, <1>5, <1>6, <1>7

LEMMA TableRests ==
  ASSUME StoreInv, UNCHANGED <<stored, repaired>>
  PROVE  Fit' /\ Indexed' /\ Bound' /\ Pointed'
<1>1. Fit /\ Indexed /\ Bound /\ Pointed
  BY DEF StoreInv, TableInv
<1>2. Fit'
  BY <1>1, RestIsRaised, RaisedFits
<1>3. \A id : S!Exists(id)' = S!Exists(id) /\ S!EventOf(id)' = S!EventOf(id)
  BY DEF S!Exists, S!EventOf
<1>4. \A i \in Identities : CandidatesOf(i)' = CandidatesOf(i)
  BY DEF CandidatesOf, S!Candidates, S!ClaimKey
<1>5. Indexed'
  BY <1>1, <1>3, <1>4 DEF Indexed, Identity
<1>6. Bound'
  BY <1>1, <1>3 DEF Bound, S!MappingKey
<1>7. Pointed'
  BY <1>1, <1>3 DEF Pointed, S!PointerFollows, S!PointerKey
<1> QED
  BY <1>2, <1>5, <1>6, <1>7

LEMMA Begins ==
  ASSUME StoreInv, NEW c \in Callers, NEW l \in Locals, CallInv(l),
         calls < MaxCalls, calls' = calls + 1, call' = [call EXCEPT ![c] = l],
         UNCHANGED <<stored, repaired>>
  PROVE  StoreInv'
<1>1. Raised /\ Fit
  BY RestIsRaised DEF StoreInv, TableInv
<1>2. CallInv(l)'
  BY <1>1, CallStays
<1>3. Typed' /\ \A d \in Callers : CallInv(call[d])'
  BY <1>1, <1>2, OthersStay
<1>4. Counted'
  <2>1. calls \in 0 .. MaxCalls /\ repaired \subseteq Ids /\ MaxCalls \in Nat
        /\ \A k \in S!Keys : S!Version(k) + Cardinality(Active) <= calls + 1
    BY StoreConstants DEF StoreInv, TableInv, Counted, S!StoreAssumption
  <2>2. /\ IsFiniteSet(Active') /\ Cardinality(Active) \in Nat /\ Cardinality(Active') \in Nat
        /\ Cardinality(Active') <= Cardinality(Active) + 1
    BY ActiveAfter
  <2>3. \A k \in S!Keys : S!Version(k)' = S!Version(k) /\ S!Version(k) \in Nat
    BY <1>1, VersionIs DEF S!Version
  <2>4. calls' \in 0 .. MaxCalls
    BY <2>1
  <2>5. \A k \in S!Keys : S!Version(k)' + Cardinality(Active') <= calls' + 1
    BY <2>1, <2>2, <2>3
  <2> QED
    BY <2>1, <2>2, <2>4, <2>5 DEF Counted
<1> QED
  BY <1>3, <1>4, TableRests DEF StoreInv, TableInv

LEMMA Proceeds ==
  ASSUME StoreInv, NEW c \in Callers, call[c].pc # "idle", NEW l \in Locals, CallInv(l),
         call' = [call EXCEPT ![c] = l], UNCHANGED <<stored, repaired, calls>>
  PROVE  StoreInv'
<1>1. Raised /\ Fit
  BY RestIsRaised DEF StoreInv, TableInv
<1>2. CallInv(l)'
  BY <1>1, CallStays
<1>3. Typed' /\ \A d \in Callers : CallInv(call[d])'
  BY <1>1, <1>2, OthersStay
<1>4. Counted'
  <2>1. calls \in 0 .. MaxCalls /\ repaired \subseteq Ids /\ MaxCalls \in Nat
        /\ \A k \in S!Keys : S!Version(k) + Cardinality(Active) <= calls + 1
    BY StoreConstants DEF StoreInv, TableInv, Counted, S!StoreAssumption
  <2>2. /\ IsFiniteSet(Active') /\ Cardinality(Active) \in Nat /\ Cardinality(Active') \in Nat
        /\ Cardinality(Active') <= Cardinality(Active)
    BY ActiveAfter
  <2>3. \A k \in S!Keys : S!Version(k)' = S!Version(k) /\ S!Version(k) \in Nat
    BY <1>1, VersionIs DEF S!Version
  <2>4. \A k \in S!Keys : S!Version(k)' + Cardinality(Active') <= calls' + 1
    BY <2>1, <2>2, <2>3
  <2> QED
    BY <2>1, <2>2, <2>4 DEF Counted
<1> QED
  BY <1>3, <1>4, TableRests DEF StoreInv, TableInv

LEMMA Ends ==
  ASSUME StoreInv, NEW c \in Callers, call[c].pc # "idle", Raised,
         call' = [call EXCEPT ![c] = S!Idle], UNCHANGED calls,
         Indexed', Bound', Pointed', repaired' \subseteq Ids
  PROVE  StoreInv'
<1>1. Fit /\ Fit'
  BY RaisedFits DEF StoreInv, TableInv
<1>2. S!Idle \in Locals /\ S!Idle.pc = "idle" /\ CallInv(S!Idle)'
  BY IdleCall DEF S!Idle
<1>3. Typed' /\ \A d \in Callers : CallInv(call[d])'
  <2>1. PICK l \in Locals : l = S!Idle
    BY <1>2
  <2>2. CallInv(l)' /\ call' = [call EXCEPT ![c] = l]
    BY <1>2, <2>1 DEF S!Idle
  <2> QED
    BY <2>2, OthersStay
<1>4. Counted'
  <2>1. calls \in 0 .. MaxCalls /\ MaxCalls \in Nat
        /\ \A k \in S!Keys : S!Version(k) + Cardinality(Active) <= calls + 1
    BY StoreConstants DEF StoreInv, TableInv, Counted, S!StoreAssumption
  <2>2. /\ IsFiniteSet(Active') /\ Cardinality(Active) \in Nat /\ Cardinality(Active') \in Nat
        /\ Cardinality(Active') = Cardinality(Active) - 1
    BY <1>2, ActiveAfter
  <2>3. \A k \in S!Keys : S!Version(k)' \in Nat /\ S!Version(k)' <= S!Version(k) + 1
                             /\ S!Version(k) \in Nat
    BY <1>1, VersionIs, RaisedRow
  <2>4. \A k \in S!Keys : S!Version(k)' + Cardinality(Active') <= calls' + 1
    BY <2>1, <2>2, <2>3
  <2> QED
    BY <2>1, <2>2, <2>4 DEF Counted
<1> QED
  BY <1>1, <1>3, <1>4 DEF StoreInv, TableInv

-----------------------------------------------------------------------------
(* Reads of an ingest call.                                                *)
LEMMA CallIs ==
  ASSUME StoreInv, NEW c \in Callers
  PROVE  call[c] \in Locals /\ CallInv(call[c]) /\ call \in [Callers -> Locals] /\ Fit
BY DEF StoreInv, Typed, TableInv

LEMMA CallIngestKeeps ==
  ASSUME StoreInv, NEW c \in Callers, S!CallIngest(c)
  PROVE  StoreInv'
<1>1. PICK report \in S!Report :
        LET row == stored[S!MappingKey(report.event)] IN
        S!Begin(c, [S!Idle EXCEPT !.op = "ingest", !.in = report, !.mapped = row,
                                  !.pc = IF row = None THEN "identity" ELSE "event"])
  BY DEF S!CallIngest
<1> DEFINE row == stored[S!MappingKey(report.event)]
<1>2. PICK l : l = [S!Idle EXCEPT !.op = "ingest", !.in = report, !.mapped = row,
                                  !.pc = IF row = None THEN "identity" ELSE "event"]
  OBVIOUS
<1>3. S!Begin(c, l)
  BY <1>1, <1>2
<1>4. row \in S!MappingRow \cup {None} /\ (row # None => S!Exists(row.event))
  <2>1. report.event \in ProviderEvents
    BY DEF S!Report
  <2>2. row \in S!MappingRow \cup {None}
    BY <2>1, TableRows, CallIs
  <2>3. ASSUME row # None PROVE S!Exists(row.event)
    <3>1. row.event \in Ids
      BY <2>2, <2>3 DEF S!MappingRow
    <3> QED
      BY <2>1, <2>3, <3>1 DEF StoreInv, TableInv, Bound
  <2> QED
    BY <2>2, <2>3
<1> HIDE DEF row
<1>5. /\ l.op = "ingest" /\ l.in = report /\ l.mapped = row /\ l.claim = None
      /\ l.event = None /\ l.plan = {} /\ l.pc = IF row = None THEN "identity" ELSE "event"
  BY <1>2 DEF S!Idle
<1>6. l \in Locals
  BY <1>2, <1>4 DEF Locals, S!Idle, Reads, Plans
<1>7. CallInv(l)
  <2>1. l.pc \in Reads => TargetIs(l)
    BY <1>4, <1>5 DEF TargetIs, Reads
  <2> QED
    BY <1>4, <1>5, <2>1 DEF CallInv, Ingesting, Bootstrapping, Transacting, Bootstraps, Reads
<1> QED
  BY <1>3, <1>6, <1>7, Begins DEF S!Begin

LEMMA OneCandidate ==
  ASSUME StoreInv, NEW i \in Identities, S!Cardinality(CandidatesOf(i)) = 1
  PROVE  \E id \in Ids : CandidatesOf(i) = {id} /\ S!Exists(id)
<1>1. CandidatesOf(i) \subseteq Ids
  BY CallIs, TableRows DEF StoreInv, TableInv, CandidatesOf, S!Candidates, S!ClaimRow
<1>2. CandidatesOf(i) # {}
  <2>1. Cardinality({}) = 0
    BY FS_EmptySet
  <2> QED
    BY <2>1, StoreSets
<1> QED
  BY <1>1, <1>2 DEF StoreInv, TableInv, Indexed

LEMMA ResolveIdentityKeeps ==
  ASSUME StoreInv, NEW c \in Callers, S!ResolveIdentity(c)
  PROVE  StoreInv'
<1> DEFINE i == Identity(call[c].in.content)
           k == S!ClaimKey(i)
           row == stored[k]
<1>1. /\ call[c].pc = "identity" /\ UNCHANGED <<stored, calls, repaired>>
      /\ IF S!Cardinality(S!Candidates(row)) = 1
         THEN call' = [call EXCEPT ![c] = [call[c] EXCEPT !.claim = row, !.pc = "event"]]
         ELSE S!End(c)
  BY DEF S!ResolveIdentity, Identity
<1>2. call[c] \in Locals /\ call[c].op = "ingest" /\ call[c].in \in S!Report
      /\ call[c].mapped = None /\ Fit
  BY <1>1, CallIs DEF CallInv, Ingesting
<1>3. i \in Identities /\ k \in S!Keys
  BY <1>2, IdentityIs, KeysOf DEF S!Report
<1>4. CASE S!Cardinality(S!Candidates(row)) = 1
  <2>1. PICK l : l = [call[c] EXCEPT !.claim = row, !.pc = "event"]
    OBVIOUS
  <2>2. \E id \in Ids : CandidatesOf(i) = {id} /\ S!Exists(id)
    BY <1>3, <1>4, OneCandidate DEF CandidatesOf
  <2>3. row \in S!ClaimRow \cup {None}
    BY <1>2, <1>3, TableRows
  <2>4. row # None /\ row.ids = CandidatesOf(i)
    BY <2>2 DEF CandidatesOf, S!Candidates
  <2>5. Copied(k, row)
    <3>1. S!Version(k) = S!Expected(row) /\ S!Version(k) \in Nat
      BY <1>2, <1>3, VersionIs
    <3> QED
      BY <3>1 DEF Copied
  <2> HIDE DEF row
  <2>6. /\ l.op = "ingest" /\ l.in = call[c].in /\ l.mapped = None /\ l.claim = row
        /\ l.pc = "event" /\ l \in Locals
    BY <1>2, <2>1, <2>3 DEF Locals, Reads
  <2>7. TargetIs(l)
    BY <2>2, <2>3, <2>4, <2>5, <2>6 DEF TargetIs
  <2>8. CallInv(l)
    BY <1>2, <2>6, <2>7 DEF CallInv, Ingesting, Bootstrapping, Transacting, Bootstraps, Reads
  <2> QED
    BY <1>1, <1>4, <2>1, <2>6, <2>8, Proceeds DEF row
<1>5. CASE S!Cardinality(S!Candidates(row)) # 1
  BY <1>1, <1>5, IdleCall, Proceeds DEF S!End
<1> QED
  BY <1>4, <1>5

LEMMA TargetIsCalled == \A c \in Callers : S!Target(c) = TargetOf(call[c])
BY DEF S!Target, TargetOf

LEMMA ReadEventKeeps ==
  ASSUME StoreInv, NEW c \in Callers, S!ReadEvent(c)
  PROVE  StoreInv'
<1> DEFINE id == TargetOf(call[c])
           k == S!EventKey(id)
           row == stored[k]
<1>1. /\ call[c].pc = "event" /\ UNCHANGED <<stored, calls, repaired>>
      /\ call' = [call EXCEPT ![c] = [call[c] EXCEPT !.event = row, !.pc = "revision"]]
  BY TargetIsCalled DEF S!ReadEvent
<1>2. call[c] \in Locals /\ call[c].op = "ingest" /\ call[c].in \in S!Report
      /\ TargetIs(call[c]) /\ Fit
  BY <1>1, CallIs DEF CallInv, Ingesting, Reads
<1>3. id \in Ids /\ S!Exists(id)
  <2>1. PICK l : l = call[c]
    OBVIOUS
  <2>2. TargetOf(l) \in Ids /\ S!Exists(TargetOf(l))
    BY <1>2, <2>1, TargetIds
  <2> QED
    BY <2>1, <2>2
<1>4. row \in Event /\ k \in S!Keys
  BY <1>2, <1>3, TableRows, KeysOf DEF S!Exists, S!EventOf
<1>5. Copied(k, row)
  <2>1. S!Version(k) = S!Expected(row) /\ S!Version(k) \in Nat
    BY <1>2, <1>4, VersionIs
  <2> QED
    BY <2>1 DEF Copied
<1>6. PICK l : l = [call[c] EXCEPT !.event = row, !.pc = "revision"]
  OBVIOUS
<1> HIDE DEF row
<1>7. /\ l.op = "ingest" /\ l.in = call[c].in /\ l.mapped = call[c].mapped
      /\ l.claim = call[c].claim /\ l.pc = "revision" /\ l.event = row /\ l \in Locals
  BY <1>2, <1>4, <1>6 DEF Locals, Reads
<1>8. TargetIs(l) /\ TargetOf(l) = id
  BY <1>2, <1>7 DEF TargetIs, TargetOf
<1>9. CallInv(l)
  BY <1>2, <1>4, <1>5, <1>7, <1>8
     DEF CallInv, Ingesting, Bootstrapping, Transacting, Bootstraps, Reads
<1> QED
  BY <1>1, <1>6, <1>7, <1>9, Proceeds DEF row

-----------------------------------------------------------------------------
(* What plans are made of.                                                 *)
LEMMA FitsKinds ==
  /\ \A id \in Ids, row \in Event : Fits(S!EventKey(id), row)
  /\ \A id \in Ids, row \in S!PointerRow : Fits(S!PointerKey(id), row)
  /\ \A i \in Identities, row \in S!ClaimRow : Fits(S!ClaimKey(i), row)
  /\ \A e \in ProviderEvents, row \in S!MappingRow : Fits(S!MappingKey(e), row)
  /\ \A id \in Ids, p \in Providers, row \in S!RevisionRow : Fits(S!RevisionKey(id, p), row)
<1>1. \A id \in Ids, row \in Event : Fits(S!EventKey(id), row)
  BY DEF Fits, S!EventKey, S!PointerKey, S!ClaimKey, S!MappingKey, S!RevisionKey
<1>2. \A id \in Ids, row \in S!PointerRow : Fits(S!PointerKey(id), row)
  BY DEF Fits, S!EventKey, S!PointerKey, S!ClaimKey, S!MappingKey, S!RevisionKey
<1>3. \A i \in Identities, row \in S!ClaimRow : Fits(S!ClaimKey(i), row)
  BY DEF Fits, S!EventKey, S!PointerKey, S!ClaimKey, S!MappingKey, S!RevisionKey
<1>4. \A e \in ProviderEvents, row \in S!MappingRow : Fits(S!MappingKey(e), row)
  BY DEF Fits, S!EventKey, S!PointerKey, S!ClaimKey, S!MappingKey, S!RevisionKey
<1>5. \A id \in Ids, p \in Providers, row \in S!RevisionRow : Fits(S!RevisionKey(id, p), row)
  BY DEF Fits, S!EventKey, S!PointerKey, S!ClaimKey, S!MappingKey, S!RevisionKey
<1> QED
  BY <1>1, <1>2, <1>3, <1>4, <1>5

IsWrite(w, k, n, row) ==
    /\ w.key = k /\ w.expect = n /\ w.row = row
    /\ Expects(w) /\ w \in Writing

LEMMA PutIs ==
  ASSUME NEW k \in S!Keys, NEW n \in Nat, n <= S!Version(k), NEW row, Fits(k, row),
         row.version = n + 1
  PROVE  IsWrite(S!Write(k, n, row), k, n, row)
<1>1. row \in AnyRow
  BY FitsIs
<1> QED
  BY <1>1 DEF IsWrite, S!Write, Expects, Writing

LEMMA CheckIs ==
  ASSUME NEW k \in S!Keys, NEW row, row # None, row.version \in Nat, Copied(k, row)
  PROVE  IsWrite(S!Check(k, row.version), k, row.version, None)
BY DEF IsWrite, S!Check, S!Write, Expects, Writing, Copied, S!Expected

\* A claim that is taken or released.
LEMMA ClaimIs ==
  ASSUME Fit, NEW i \in Identities, NEW ids \in SUBSET Ids,
         NEW old \in S!ClaimRow \cup {None}, Copied(S!ClaimKey(i), old)
  PROVE  /\ IsWrite(S!Write(S!ClaimKey(i), S!Expected(old), S!Claim(ids, old)),
                    S!ClaimKey(i), S!Expected(old), S!Claim(ids, old))
         /\ S!Claim(ids, old).ids = ids /\ S!Claim(ids, old) # None
<1> DEFINE k == S!ClaimKey(i)
           row == S!Claim(ids, old)
<1>1. S!Expected(old) \in Nat /\ S!Expected(old) <= S!Version(k)
  BY DEF S!Expected, Copied, S!ClaimRow, S!Versions
<1>2. row \in S!ClaimRow /\ row.version = S!Expected(old) + 1 /\ row.ids = ids
  BY <1>1 DEF S!Claim, S!Expected, S!ClaimRow, S!Versions
<1>3. Fits(k, row) /\ k \in S!Keys
  BY <1>2, FitsKinds, KeysOf
<1> HIDE DEF k, row
<1>4. IsWrite(S!Write(k, S!Expected(old), row), k, S!Expected(old), row)
  BY <1>1, <1>2, <1>3, PutIs
<1> QED
  BY <1>2, <1>3, <1>4, FitsIs DEF k, row

\* The row itself is a copy.
LEMMA RowIsCopy ==
  ASSUME Fit, NEW k \in S!Keys
  PROVE  Copied(k, stored[k]) /\ S!Expected(stored[k]) = S!Version(k) /\ S!Version(k) \in Nat
BY VersionIs DEF Copied

\* The event whose copy a call holds is there.
LEMMA CopyExists ==
  ASSUME Fit, NEW id \in Ids, NEW event \in Event, Copied(S!EventKey(id), event)
  PROVE  /\ S!Exists(id) /\ event.version \in Nat \ {0} /\ event # None
         /\ event.version <= S!Version(S!EventKey(id))
         /\ S!Version(S!EventKey(id)) = event.version => S!EventOf(id) = event
<1>1. event.version \in Nat \ {0} /\ event # None
  BY Kinds, EventIs DEF S!EventRow, S!Versions
<1>2. S!Version(S!EventKey(id)) \in Nat /\ (stored[S!EventKey(id)] = None <=> S!Version(S!EventKey(id)) = 0)
  BY KeysOf, VersionIs
<1>3. event.version <= S!Version(S!EventKey(id))
      /\ (event.version = S!Version(S!EventKey(id)) => stored[S!EventKey(id)] = event)
  BY <1>1 DEF Copied, S!Expected
<1> QED
  BY <1>1, <1>2, <1>3 DEF S!Exists, S!EventOf

\* An event under a revision that outranks what it stood under.
LEMMA OutranksIs ==
  ASSUME NEW event \in Event, NEW rev \in S!Revision, ~S!Above(event.auth, rev),
         NEW next \in S!EventRow, next.auth = rev,
         next.boot \in {rev, event.boot},
         \A q \in Providers : \/ next.revs[q] = event.revs[q]
                              \/ q = rev.prov /\ next.revs[q] = rev.n,
         next.boot = rev \/ next.revs[rev.prov] = rev.n
  PROVE  next \in Event
<1>1. \A q \in S!Known(event) : ~S!Above(q, rev)
  <2> TAKE q \in S!Known(event)
  <2>1. /\ q \in S!Revision /\ event.auth \in S!Revision /\ ~S!Above(q, event.auth)
    BY EventIs
  <2> QED
    BY <2>1, AuthorityOrders
<1>2. rev = [prov |-> rev.prov, n |-> rev.n]
  BY DEF S!Revision
<1>3. S!Known(next) \subseteq S!Known(event) \cup {rev}
  BY <1>2 DEF S!Known
<1>4. ~S!Above(rev, rev)
  BY AuthorityOrders
<1> QED
  BY <1>1, <1>3, <1>4 DEF Event, Weighed

-----------------------------------------------------------------------------
(* Transactions prepared.                                                  *)
LEMMA Transacts ==
  ASSUME StoreInv, NEW c \in Callers, call[c].pc # "idle",
         \/ call[c].op = "ingest" /\ call[c].in \in S!Report
         \/ call[c].op = "bootstrap" /\ call[c].in \in S!Bootstrap,
         NEW plan \in Plans, Plan(plan), S!Holds(plan) => Justified(call[c], plan),
         S!Transact(c, plan), UNCHANGED <<stored, calls, repaired>>
  PROVE  StoreInv'
<1>1. PICK l : l = [S!Idle EXCEPT !.pc = "transact", !.op = call[c].op,
                                  !.in = call[c].in, !.plan = plan]
  OBVIOUS
<1>2. l.pc = "transact" /\ l.op = call[c].op /\ l.in = call[c].in /\ l.plan = plan
  BY <1>1 DEF S!Idle
<1>3. l \in Locals
  BY <1>1 DEF Locals, S!Idle
<1>4. S!Holds(plan) => Justified(l, plan)
  BY <1>2 DEF Justified, EventsJust, MappingsJust
<1>5. CallInv(l)
  BY <1>2, <1>4 DEF CallInv, Ingesting, Bootstrapping, Transacting, Bootstraps, Reads
<1> QED
  BY <1>1, <1>3, <1>5, Proceeds DEF S!Transact

LEMMA PriorIs ==
  ASSUME NEW event \in Event, NEW row \in S!RevisionRow \cup {None}, NEW p \in Providers
  PROVE  /\ S!Prior(event, row, p) \in Nat /\ event.revs[p] <= S!Prior(event, row, p)
         /\ row # None => row.n <= S!Prior(event, row, p)
         /\ event.boot.prov = p => event.boot.n <= S!Prior(event, row, p)
<1> DEFINE a == event.revs[p]
           b == IF row = None THEN 0 ELSE row.n
           d == IF event.boot.prov = p THEN event.boot.n ELSE 0
           seen == {event.revs[p]} \cup (IF row = None THEN {0} ELSE {row.n})
                     \cup (IF event.boot.prov = p THEN {event.boot.n} ELSE {0})
<1>1. a \in Nat /\ b \in Nat /\ d \in Nat
  <2>1. event \in S!EventRow /\ MaxRevision \in Nat
    BY EventIs, StoreConstants DEF S!StoreAssumption
  <2>2. a \in 0 .. MaxRevision /\ event.boot.n \in 1 .. MaxRevision
    BY <2>1 DEF S!EventRow, S!Revision
  <2>3. row # None => row.n \in 1 .. MaxRevision
    BY DEF S!RevisionRow
  <2> QED
    BY <2>1, <2>2, <2>3
<1>2. seen = {a, b, d}
  OBVIOUS
<1>3. S!Prior(event, row, p) = CHOOSE n \in seen : \A k \in seen : k <= n
  BY DEF S!Prior
<1> HIDE DEF a, b, d, seen
<1>4. \E n \in {a, b, d} : \A k \in {a, b, d} : k <= n
  BY <1>1
<1>5. S!Prior(event, row, p) \in {a, b, d} /\ \A k \in {a, b, d} : k <= S!Prior(event, row, p)
  BY <1>2, <1>3, <1>4
<1>6. S!Prior(event, row, p) \in Nat /\ a <= S!Prior(event, row, p)
         /\ b <= S!Prior(event, row, p) /\ d <= S!Prior(event, row, p)
  BY <1>1, <1>5
<1> QED
  BY <1>6 DEF a, b, d

\* A call that weighs a report, and what it holds.
Weighing(c, id, in, p, event) ==
    /\ call[c] \in Locals /\ call[c].op = "ingest" /\ call[c].in = in /\ in \in S!Report
    /\ S!Target(c) = id /\ id \in Ids /\ TargetIs(call[c])
    /\ p = ProviderOf[in.event] /\ p \in Providers
    /\ event = call[c].event /\ event \in Event /\ Copied(S!EventKey(id), event)

LEMMA WeighingIs ==
  ASSUME StoreInv, NEW c \in Callers, call[c].pc \in {"revision", "prepare"}
  PROVE  Weighing(c, S!Target(c), call[c].in, ProviderOf[call[c].in.event], call[c].event)
<1>1. PICK l : l = call[c]
  OBVIOUS
<1>2. /\ l \in Locals /\ l.op = "ingest" /\ l.in \in S!Report /\ TargetIs(l)
      /\ l.event \in Event /\ Copied(S!EventKey(TargetOf(l)), l.event)
  BY <1>1, CallIs DEF CallInv, Ingesting, Reads
<1>3. TargetOf(l) \in Ids /\ S!Target(c) = TargetOf(l)
  BY <1>1, <1>2, TargetIds, TargetIsCalled
<1>4. ProviderOf[l.in.event] \in Providers
  BY <1>2, StoreConstants DEF S!StoreAssumption, S!Report
<1> QED
  BY <1>1, <1>2, <1>3, <1>4 DEF Weighing

\* The rows a binding rests on.
CheckOwner(c, in) == S!Check(S!ClaimKey(Identity(in.content)), call[c].claim.version)
PutMapping(id, in) == S!Write(S!MappingKey(in.event), 0, [event |-> id, version |-> 1])

LEMMA BindingIs ==
  ASSUME StoreInv, NEW c \in Callers, NEW id, NEW in, NEW p, NEW event,
         Weighing(c, id, in, p, event), S!Binding(c) # {}
  PROVE  /\ call[c].mapped = None /\ S!Binding(c) = {CheckOwner(c, in), PutMapping(id, in)}
         /\ IsWrite(CheckOwner(c, in), S!ClaimKey(Identity(in.content)),
                    call[c].claim.version, None)
         /\ \E m : /\ IsWrite(PutMapping(id, in), S!MappingKey(in.event), 0, m)
                   /\ m.event = id /\ m # None
<1> DEFINE k == S!ClaimKey(Identity(in.content))
           m == [event |-> id, version |-> 1]
<1>1. /\ call[c].mapped = None
      /\ S!Binding(c) = {CheckOwner(c, in), PutMapping(id, in)}
  BY DEF S!Binding, Weighing, Identity, CheckOwner, PutMapping
<1>2. in \in S!Report /\ id \in Ids /\ call[c].claim \in S!ClaimRow /\ Copied(k, call[c].claim)
  BY <1>1 DEF Weighing, TargetIs
<1>3. k \in S!Keys /\ S!MappingKey(in.event) \in S!Keys /\ in.event \in ProviderEvents
  BY <1>2, KeysOf, IdentityIs DEF S!Report
<1>4. m \in S!MappingRow /\ m.event = id /\ m.version = 1
  BY <1>2 DEF S!MappingRow, S!Versions
<1>5. Fits(S!MappingKey(in.event), m)
  BY <1>3, <1>4, FitsKinds
<1>9. CheckOwner(c, in) = S!Check(k, call[c].claim.version)
      /\ PutMapping(id, in) = S!Write(S!MappingKey(in.event), 0, m)
  BY DEF CheckOwner, PutMapping
<1> HIDE DEF k, m
<1>6. IsWrite(S!Write(S!MappingKey(in.event), 0, m), S!MappingKey(in.event), 0, m)
  <2>1. 0 <= S!Version(S!MappingKey(in.event)) /\ m.version = 0 + 1
    BY <1>3, <1>4, CallIs, VersionIs
  <2> QED
    BY <1>3, <1>5, <2>1, PutIs
<1>7. IsWrite(S!Check(k, call[c].claim.version), k, call[c].claim.version, None)
  <2>1. call[c].claim # None /\ call[c].claim.version \in Nat
    BY <1>2, Kinds DEF S!ClaimRow, S!Versions
  <2> QED
    BY <1>2, <1>3, <2>1, CheckIs
<1>8. m # None
  BY <1>4, Kinds
<1> QED
  BY <1>1, <1>4, <1>6, <1>7, <1>8, <1>9 DEF k

LEMMA CheckEventIs ==
  ASSUME StoreInv, NEW c \in Callers, NEW id, NEW in, NEW p, NEW event,
         Weighing(c, id, in, p, event)
  PROVE  IsWrite(S!CheckEvent(c), S!EventKey(id), event.version, None)
<1>1. /\ id \in Ids /\ event \in Event /\ Copied(S!EventKey(id), event) /\ Fit
      /\ S!CheckEvent(c) = S!Check(S!EventKey(id), event.version)
  BY CallIs DEF Weighing, S!CheckEvent
<1>2. event # None /\ event.version \in Nat /\ S!EventKey(id) \in S!Keys
  BY <1>1, CopyExists, KeysOf
<1> QED
  BY <1>1, <1>2, CheckIs

LEMMA PutRevisionIs ==
  ASSUME StoreInv, NEW c \in Callers, NEW id, NEW in, NEW p, NEW event,
         Weighing(c, id, in, p, event), NEW row, row = stored[S!RevisionKey(id, p)]
  PROVE  \E put : /\ IsWrite(S!PutRevision(c, row), S!RevisionKey(id, p), S!Expected(row), put)
                  /\ put # None /\ put.n = in.n /\ put.version = S!Expected(row) + 1
<1> DEFINE k == S!RevisionKey(id, p)
           put == [n |-> in.n, print |-> in.content, version |-> S!Expected(row) + 1]
<1>1. /\ id \in Ids /\ in \in S!Report /\ p \in Providers /\ Fit
      /\ S!PutRevision(c, row) = S!Write(k, S!Expected(row), put)
  BY CallIs DEF Weighing, S!PutRevision
<1>2. k \in S!Keys
  BY <1>1, KeysOf
<1>3. S!Expected(row) = S!Version(k) /\ S!Version(k) \in Nat
  BY <1>1, <1>2, RowIsCopy
<1>4. put \in S!RevisionRow /\ put.n = in.n /\ put.version = S!Expected(row) + 1
  BY <1>1, <1>3 DEF S!RevisionRow, S!Report, S!Versions
<1>5. Fits(k, put) /\ put # None
  BY <1>1, <1>4, FitsKinds, Kinds
<1> HIDE DEF k, put
<1>6. IsWrite(S!Write(k, S!Expected(row), put), k, S!Expected(row), put)
  BY <1>2, <1>3, <1>4, <1>5, PutIs
<1> QED
  BY <1>1, <1>4, <1>5, <1>6 DEF k

\* A report is bound to the event that owns its identity.
LEMMA BindingJust ==
  ASSUME StoreInv, NEW c \in Callers, NEW id, NEW in, NEW p, NEW event,
         Weighing(c, id, in, p, event), NEW plan, S!Holds(plan), S!Binding(c) \subseteq plan,
         \A w \in plan, x1 \in ProviderEvents : w.key = S!MappingKey(x1) => w \in S!Binding(c)
  PROVE  MappingsJust(call[c], plan)
<1> DEFINE a == CheckOwner(c, in)
           b == PutMapping(id, in)
           k == S!ClaimKey(Identity(in.content))
<1>0. id \in Ids /\ in \in S!Report /\ p \in Providers /\ call[c].in = in /\ call[c].op = "ingest"
      /\ S!Target(c) = id /\ TargetIs(call[c]) /\ Fit
  BY CallIs DEF Weighing
<1> SUFFICES ASSUME NEW w \in plan, NEW x1 \in ProviderEvents, w.key = S!MappingKey(x1),
                    w.row # None
             PROVE  /\ in.event = x1 /\ stored[w.key] = None
                    /\ \E v \in plan : v.key = k
                    /\ S!Exists(w.row.event) /\ S!Candidates(stored[k]) = {w.row.event}
  BY <1>0 DEF MappingsJust
<1>1. w \in S!Binding(c)
  OBVIOUS
<1>2. /\ call[c].mapped = None /\ S!Binding(c) = {a, b}
      /\ IsWrite(a, k, call[c].claim.version, None)
      /\ \E m : IsWrite(b, S!MappingKey(in.event), 0, m) /\ m.event = id /\ m # None
  BY <1>1, BindingIs
<1> HIDE DEF a, b
<1>3. w = b /\ a \in plan
  <2>1. a.key = k
    BY <1>2 DEF IsWrite
  <2> QED
    BY <1>1, <1>2, <2>1, KeysApart
<1>4. /\ w.key = S!MappingKey(in.event) /\ w.expect = 0 /\ w.row.event = id
      /\ a.key = k /\ a.expect = call[c].claim.version
  BY <1>2, <1>3 DEF IsWrite
<1>5. in.event = x1
  BY <1>4, KeysApart
<1>6. S!Version(w.key) = 0 /\ S!Version(k) = call[c].claim.version
  BY <1>3, <1>4 DEF S!Holds
<1>7. stored[w.key] = None
  <2>1. w.key \in S!Keys
    BY <1>0, <1>4, KeysOf DEF S!Report
  <2> QED
    BY <1>0, <1>6, <2>1, VersionIs
<1>8. stored[k] = call[c].claim /\ call[c].claim # None
  <2>1. Copied(k, call[c].claim) /\ call[c].claim # None
    BY <1>0, <1>2, Kinds DEF TargetIs
  <2> QED
    BY <1>6, <2>1 DEF Copied, S!Expected
<1>9. PICK jd \in Ids : call[c].claim.ids = {jd} /\ S!Exists(jd)
  BY <1>0, <1>2 DEF TargetIs
<1>10. id = jd
  BY <1>0, <1>2, <1>9 DEF S!Target
<1> QED
  BY <1>3, <1>4, <1>5, <1>7, <1>8, <1>9, <1>10 DEF S!Candidates

\* Plans that leave the event as it is: they bind the report and put its revision.
LEMMA QuietPlan ==
  ASSUME StoreInv, NEW c \in Callers, NEW id, NEW in, NEW p, NEW event,
         Weighing(c, id, in, p, event), NEW row, row = stored[S!RevisionKey(id, p)],
         NEW plan, S!Binding(c) \subseteq plan,
         plan \subseteq S!Binding(c) \cup {S!CheckEvent(c), S!PutRevision(c, row)},
         S!PutRevision(c, row) \in plan => (row # None => row.n < in.n)
  PROVE  plan \in Plans /\ Plan(plan) /\ (S!Holds(plan) => Justified(call[c], plan))
<1> DEFINE a == CheckOwner(c, in)
           b == PutMapping(id, in)
           e == S!CheckEvent(c)
           r == S!PutRevision(c, row)
<1>1. a \in plan \/ b \in plan =>
        /\ call[c].mapped = None /\ a \in plan
        /\ IsWrite(a, S!ClaimKey(Identity(in.content)), call[c].claim.version, None)
        /\ \E m : IsWrite(b, S!MappingKey(in.event), 0, m) /\ m.event = id /\ m # None
  <2>1. CASE S!Binding(c) = {}
    <3>1. plan \subseteq {e, r}
      BY <2>1
    <3>2. a \notin {e, r} /\ b \notin {e, r}
      <4>1. a.key[1] = "claim" /\ b.key[1] = "mapping" /\ e.key[1] = "event" /\ r.key[1] = "revision"
        BY DEF CheckOwner, PutMapping, S!CheckEvent, S!PutRevision, S!Check, S!Write,
               S!ClaimKey, S!MappingKey, S!EventKey, S!RevisionKey
      <4> QED
        BY <4>1
    <3> QED
      BY <3>1, <3>2
  <2>2. CASE S!Binding(c) # {}
    BY <2>2, BindingIs
  <2> QED
    BY <2>1, <2>2
<1>2. IsWrite(e, S!EventKey(id), event.version, None)
  BY CheckEventIs
<1>3. PICK put : /\ IsWrite(r, S!RevisionKey(id, p), S!Expected(row), put)
                 /\ put # None /\ put.n = in.n
  BY PutRevisionIs
<1>4. \A w \in plan : w = a \/ w = b \/ w = e \/ w = r
  <2>1. S!Binding(c) \subseteq {a, b}
    BY BindingIs
  <2> QED
    BY <2>1
<1>0. id \in Ids /\ in \in S!Report /\ p \in Providers /\ call[c].in = in /\ call[c].op = "ingest"
      /\ S!Target(c) = id /\ TargetIs(call[c]) /\ Fit
  BY CallIs DEF Weighing
<1> HIDE DEF a, b, e, r
<1>5. plan \in Plans
  <2>1. \A w \in plan : w \in Writing
    BY <1>1, <1>2, <1>3, <1>4 DEF IsWrite
  <2> QED
    BY <2>1 DEF Plans
<1>6. Plan(plan)
  <2>1. \A w \in plan : Expects(w)
    BY <1>1, <1>2, <1>3, <1>4 DEF IsWrite
  <2>2. \A v, w \in plan : v.key = w.key => v = w
    BY <1>1, <1>2, <1>3, <1>4, KeysApart DEF IsWrite
  <2> QED
    BY <2>1, <2>2 DEF Plan
<1>7. ASSUME S!Holds(plan) PROVE Justified(call[c], plan)
  <2>1. \A w \in plan : w.row # None => w = b \/ w = r
    BY <1>1, <1>2, <1>4 DEF IsWrite
  <2>2. \A w \in plan : w.row # None =>
            w.key = S!MappingKey(in.event) \/ w.key = S!RevisionKey(id, p)
    BY <1>1, <1>3, <2>1 DEF IsWrite
  <2>3. EventsJust(call[c], plan) /\ PointersJust(plan) /\ ClaimsJust(plan)
    BY <2>2, KeysApart DEF EventsJust, PointersJust, ClaimsJust
  <2>4. MappingsJust(call[c], plan)
    <3>1. \A w \in plan, x1 \in ProviderEvents : w.key = S!MappingKey(x1) => w = b
      BY <1>1, <1>2, <1>3, <1>4, KeysApart DEF IsWrite
    <3>2. b \in plan => b \in S!Binding(c)
      <4>1. b \in plan => call[c].mapped = None
        BY <1>1
      <4>2. call[c].mapped = None => b \in S!Binding(c)
        BY <1>0 DEF b, PutMapping, S!Binding
      <4> QED
        BY <4>1, <4>2
    <3> QED
      BY <1>7, <3>1, <3>2, BindingJust
  <2>5. RevisionsJust(plan)
    <3> SUFFICES ASSUME NEW w \in plan, NEW jd \in Ids, NEW q \in Providers,
                        w.key = S!RevisionKey(jd, q), w.row # None, stored[w.key] # None
                 PROVE  stored[w.key].n <= w.row.n
      BY DEF RevisionsJust
    <3>1. w = r
      BY <1>1, <2>1, KeysApart DEF IsWrite
    <3>2. w.key = S!RevisionKey(id, p) /\ w.row.n = in.n /\ row # None /\ row.n < in.n
      BY <1>3, <3>1 DEF IsWrite, r
    <3>3. row.n \in Nat /\ in.n \in Nat
      <4>1. row \in S!RevisionRow /\ MaxRevision \in Nat
        BY <1>0, <3>2, TableRows, StoreConstants DEF S!StoreAssumption
      <4> QED
        BY <1>0, <4>1 DEF S!RevisionRow, S!Report
    <3> QED
      BY <3>2, <3>3
  <2> QED
    BY <2>3, <2>4, <2>5 DEF Justified
<1> QED
  BY <1>5, <1>6, <1>7

LEMMA WeighKeeps ==
  ASSUME StoreInv, NEW c \in Callers, S!Weigh(c)
  PROVE  StoreInv'
<1> DEFINE id == S!Target(c)
           in == call[c].in
           p == ProviderOf[in.event]
           event == call[c].event
           row == stored[S!RevisionKey(id, p)]
           prior == S!Prior(event, row, p)
           rev == [prov |-> p, n |-> in.n]
           put == S!PutRevision(c, row)
<1>1. call[c].pc = "revision" /\ UNCHANGED <<stored, calls, repaired>>
  BY DEF S!Weigh
<1>2. \/ S!End(c)
      \/ S!Transact(c, S!Binding(c) \cup {S!CheckEvent(c)})
      \/ in.n > prior /\ S!Transact(c, S!Binding(c) \cup {S!CheckEvent(c), put})
      \/ /\ in.n > prior
         /\ S!Transact(c, S!Binding(c) \cup {put}
                            \cup (IF call[c].mapped = None THEN {S!CheckEvent(c)} ELSE {}))
      \/ /\ in.n > prior /\ S!Authoritative(rev, event)
         /\ call' = [call EXCEPT ![c] = [call[c] EXCEPT !.pc = "prepare", !.plan = {put}]]
  BY DEF S!Weigh
<1>3. Weighing(c, id, in, p, event)
  BY <1>1, WeighingIs
<1>4. /\ call[c] \in Locals /\ call[c].op = "ingest" /\ in \in S!Report /\ id \in Ids
      /\ p \in Providers /\ event \in Event /\ TargetIs(call[c]) /\ Fit
      /\ Copied(S!EventKey(id), event)
  BY <1>3, CallIs DEF Weighing
<1>5. row \in S!RevisionRow \cup {None}
  BY <1>4, TableRows
<1>6. /\ prior \in Nat /\ event.revs[p] <= prior /\ (row # None => row.n <= prior)
      /\ (event.boot.prov = p => event.boot.n <= prior)
  BY <1>4, <1>5, PriorIs
<1>7. /\ in.n \in Nat /\ event.revs[p] \in Nat /\ event.boot.n \in Nat
      /\ row # None => row.n \in Nat
  <2>1. MaxRevision \in Nat /\ event \in S!EventRow
    BY <1>4, EventIs, StoreConstants DEF S!StoreAssumption
  <2>2. in.n \in 1 .. MaxRevision /\ event.revs[p] \in 0 .. MaxRevision
        /\ event.boot.n \in 1 .. MaxRevision /\ (row # None => row.n \in 1 .. MaxRevision)
    BY <1>4, <1>5, <2>1 DEF S!Report, S!EventRow, S!Revision, S!RevisionRow
  <2> QED
    BY <2>1, <2>2
<1>8. in.n > prior => (row # None => row.n < in.n)
  <2> SUFFICES ASSUME in.n > prior, row # None PROVE row.n < in.n
    OBVIOUS
  <2>1. row.n \in Nat /\ in.n \in Nat /\ prior \in Nat /\ row.n <= prior
    BY <1>6, <1>7
  <2> QED
    BY <2>1
<1>9. S!Target(c) = TargetOf(call[c])
  BY TargetIsCalled
<1> HIDE DEF id, p, event, row, prior, in
<1>10. CASE S!End(c)
  BY <1>1, <1>10, IdleCall, Proceeds DEF S!End
<1>11. ASSUME NEW plan, S!Transact(c, plan), S!Binding(c) \subseteq plan,
              plan \subseteq S!Binding(c) \cup {S!CheckEvent(c), put},
              put \in plan => (row # None => row.n < in.n)
       PROVE  StoreInv'
  <2>1. row = stored[S!RevisionKey(id, p)]
    BY DEF row
  <2>2. plan \in Plans /\ Plan(plan) /\ (S!Holds(plan) => Justified(call[c], plan))
    BY <1>3, <1>11, <2>1, QuietPlan
  <2> QED
    BY <1>1, <1>4, <1>11, <2>2, Transacts DEF in
<1>12. put # S!CheckEvent(c) /\ put \notin S!Binding(c)
  <2>1. put.key[1] = "revision" /\ S!CheckEvent(c).key[1] = "event"
    BY DEF S!CheckEvent, S!PutRevision, S!Check, S!Write, S!EventKey, S!RevisionKey
  <2>2. \A w \in S!Binding(c) : w.key[1] # "revision"
    BY DEF S!Binding, S!Check, S!Write, S!ClaimKey, S!MappingKey
  <2> QED
    BY <2>1, <2>2
<1>13. CASE S!Transact(c, S!Binding(c) \cup {S!CheckEvent(c)})
  BY <1>11, <1>12, <1>13
<1>14. CASE in.n > prior /\ S!Transact(c, S!Binding(c) \cup {S!CheckEvent(c), put})
  BY <1>8, <1>11, <1>14
<1>15. CASE /\ in.n > prior
            /\ S!Transact(c, S!Binding(c) \cup {put}
                               \cup (IF call[c].mapped = None THEN {S!CheckEvent(c)} ELSE {}))
  BY <1>8, <1>11, <1>15
<1>16. CASE /\ in.n > prior /\ S!Authoritative(rev, event)
            /\ call' = [call EXCEPT ![c] = [call[c] EXCEPT !.pc = "prepare", !.plan = {put}]]
  <2>1. PICK l : l = [call[c] EXCEPT !.pc = "prepare", !.plan = {put}]
    OBVIOUS
  <2>2. \E w : /\ IsWrite(put, S!RevisionKey(id, p), S!Expected(row), w)
               /\ w # None /\ w.n = in.n /\ w.version = S!Expected(row) + 1
    BY <1>3, PutRevisionIs DEF row
  <2>3. put \in Writing /\ Expects(put) /\ put.key = S!RevisionKey(id, p) /\ put.row # None
        /\ put.row.n = in.n
    BY <2>2 DEF IsWrite
  <2> HIDE DEF put
  <2>4. /\ l.pc = "prepare" /\ l.op = "ingest" /\ l.in = in /\ l.mapped = call[c].mapped
        /\ l.claim = call[c].claim /\ l.event = event /\ l.plan = {put} /\ l \in Locals
    BY <1>4, <2>1, <2>3 DEF Locals, Reads, Plans, in, event
  <2>5. TargetIs(l) /\ TargetOf(l) = id
    BY <1>4, <1>9, <2>4 DEF TargetIs, TargetOf, in, id
  <2>6. News(l)
    <3>1. stored[S!RevisionKey(id, p)] # None => stored[S!RevisionKey(id, p)].n < in.n
      BY <1>8, <1>16 DEF row
    <3>2. p = ProviderOf[l.in.event]
      BY <2>4 DEF p
    <3> QED
      BY <2>3, <2>4, <2>5, <3>1, <3>2 DEF News
  <2>7. Revised(l)
    <3>1. p = ProviderOf[l.in.event] /\ S!Winner(event) = event.auth
      BY <1>4, <2>4, EventIs DEF p
    <3>2. ~S!Above(event.auth, rev)
      BY <1>16, <3>1 DEF S!Authoritative
    <3> QED
      BY <1>6, <1>7, <1>16, <2>4, <3>1, <3>2 DEF Revised
  <2>8. CallInv(l)
    BY <1>4, <2>4, <2>5, <2>6, <2>7
       DEF CallInv, Ingesting, Bootstrapping, Transacting, Bootstraps, Reads
  <2> QED
    BY <1>1, <1>16, <2>1, <2>4, <2>8, Proceeds
<1> QED
  BY <1>2, <1>10, <1>13, <1>14, <1>15, <1>16

-----------------------------------------------------------------------------
(* Events rewritten.                                                       *)
Relocates(plan, id, old, new) ==
    /\ \E t \in plan : t.key = S!ClaimKey(new) /\ t.row # None /\ t.row.ids = {id}
    /\ Writes(plan, S!ClaimKey(old))

\* A plan that expects the version of a copy finds the event as the copy says.
LEMMA CurrentIs ==
  ASSUME Fit, NEW id \in Ids, NEW event \in Event, Copied(S!EventKey(id), event),
         NEW plan, S!Holds(plan), NEW v \in plan, NEW row,
         IsWrite(v, S!EventKey(id), event.version, row)
  PROVE  S!Exists(id) /\ S!EventOf(id) = event /\ stored[S!EventKey(id)] = event
<1>1. event.version = S!Version(S!EventKey(id))
  BY DEF S!Holds, IsWrite
<1> QED
  BY <1>1, CopyExists DEF S!EventOf

LEMMA RewriteJust ==
  ASSUME Fit, NEW id \in Ids, NEW event \in Event, Copied(S!EventKey(id), event),
         NEW plan, S!Holds(plan), NEW v \in plan, NEW next, next # None,
         IsWrite(v, S!EventKey(id), event.version, next),
         next.content # event.content => S!Above(next.auth, event.auth),
         \A w \in plan, jd \in Ids : w.key = S!EventKey(jd) => w = v,
         NEW l,
         \/ l.op = "bootstrap" /\ id = l.in.id
         \/ \E m \in plan : m.key = S!PointerKey(id) /\ m.row # None,
         Identity(event.content) # Identity(next.content) =>
             Relocates(plan, id, Identity(event.content), Identity(next.content))
  PROVE  EventsJust(l, plan)
<1>1. S!Exists(id) /\ S!EventOf(id) = event /\ stored[S!EventKey(id)] = event
  BY CurrentIs
<1>2. v.key = S!EventKey(id) /\ v.row = next
  BY DEF IsWrite
<1>3. ASSUME NEW w \in plan, NEW jd \in Ids, w.key = S!EventKey(jd), w.row # None
      PROVE  w = v /\ jd = id
  <2>1. w = v
    BY <1>3
  <2> QED
    BY <1>2, <1>3, <2>1, KeysApart
<1>4. Rewritten(id, v) => Relocates(plan, id, Identity(event.content), Identity(next.content))
  BY <1>1, <1>2 DEF Rewritten
<1> SUFFICES ASSUME NEW w \in plan, NEW jd \in Ids, w.key = S!EventKey(jd), w.row # None
             PROVE  /\ S!Exists(jd)
                    /\ w.row.content # S!EventOf(jd).content
                          => S!Above(w.row.auth, S!EventOf(jd).auth)
                    /\ \/ l.op = "bootstrap" /\ jd = l.in.id
                       \/ \E m \in plan : m.key = S!PointerKey(jd) /\ m.row # None
                    /\ Rewritten(jd, w) =>
                          Relocates(plan, jd, Identity(S!EventOf(jd).content),
                                    Identity(w.row.content))
  BY DEF EventsJust, Relocates
<1> QED
  BY <1>1, <1>2, <1>3, <1>4

\* The claims of a plan about one event.
Claiming(plan, id, content) ==
    \A w \in plan, i \in Identities : w.key = S!ClaimKey(i) /\ w.row # None =>
        CandidatesOf(i) \subseteq {id} /\ w.row.ids = IF i = Identity(content) THEN {id} ELSE {}

LEMMA ClaimingJust ==
  ASSUME NEW plan, NEW id \in Ids, S!Exists(id), NEW v \in plan, v.key = S!EventKey(id),
         Claiming(plan, id, NewContent(v))
  PROVE  ClaimsJust(plan)
BY DEF Claiming, ClaimsJust

\* The claim of the identity an event leaves, released, and of the one it takes.
ClaimReleased(i)  == S!Write(S!ClaimKey(i), S!Version(S!ClaimKey(i)), S!Claim({}, stored[S!ClaimKey(i)]))
ClaimTaken(i, id, row) == S!Write(S!ClaimKey(i), S!Expected(row), S!Claim({id}, row))

LEMMA ClaimReleasedIs ==
  ASSUME Fit, NEW i \in Identities
  PROVE  \E row : /\ IsWrite(ClaimReleased(i), S!ClaimKey(i), S!Version(S!ClaimKey(i)), row)
                  /\ row.ids = {} /\ row # None
<1>1. /\ Copied(S!ClaimKey(i), stored[S!ClaimKey(i)])
      /\ S!Expected(stored[S!ClaimKey(i)]) = S!Version(S!ClaimKey(i))
      /\ stored[S!ClaimKey(i)] \in S!ClaimRow \cup {None}
  BY KeysOf, RowIsCopy, TableRows
<1>2. PICK old \in S!ClaimRow \cup {None} : old = stored[S!ClaimKey(i)]
  BY <1>1
<1>3. {} \in SUBSET Ids /\ Copied(S!ClaimKey(i), old)
  BY <1>1, <1>2
<1>4. PICK none \in SUBSET Ids : none = {}
  BY <1>3
<1>5. /\ IsWrite(S!Write(S!ClaimKey(i), S!Expected(old), S!Claim(none, old)),
                 S!ClaimKey(i), S!Expected(old), S!Claim(none, old))
      /\ S!Claim(none, old).ids = none /\ S!Claim(none, old) # None
  BY <1>3, ClaimIs
<1> QED
  BY <1>1, <1>2, <1>4, <1>5 DEF ClaimReleased

LEMMA ClaimTakenIs ==
  ASSUME Fit, NEW i \in Identities, NEW id \in Ids, NEW old \in S!ClaimRow \cup {None},
         Copied(S!ClaimKey(i), old)
  PROVE  \E row : /\ IsWrite(ClaimTaken(i, id, old), S!ClaimKey(i), S!Expected(old), row)
                  /\ row.ids = {id} /\ row # None
<1>1. PICK ids \in SUBSET Ids : ids = {id}
  OBVIOUS
<1>2. /\ IsWrite(S!Write(S!ClaimKey(i), S!Expected(old), S!Claim(ids, old)),
                 S!ClaimKey(i), S!Expected(old), S!Claim(ids, old))
      /\ S!Claim(ids, old).ids = ids /\ S!Claim(ids, old) # None
  BY ClaimIs
<1> QED
  BY <1>1, <1>2 DEF ClaimTaken

LEMMA PrepareKeeps ==
  ASSUME StoreInv, NEW c \in Callers, S!Prepare(c)
  PROVE  StoreInv'
<1> DEFINE id == S!Target(c)
           in == call[c].in
           event == call[c].event
           p == ProviderOf[in.event]
           rev == [prov |-> p, n |-> in.n]
           next == [event EXCEPT !.content = in.content, !.revs[p] = in.n,
                                 !.auth = rev, !.version = @ + 1]
           old == Identity(event.content)
           new == Identity(in.content)
           point == [version |-> event.version + 1]
           v == S!Write(S!EventKey(id), event.version, next)
           m == S!Write(S!PointerKey(id), event.version, point)
           owner == stored[S!ClaimKey(new)]
           rel == ClaimReleased(old)
           take == ClaimTaken(new, id, owner)
           plan == call[c].plan \cup S!Binding(c) \cup {v} \cup {m}
                     \cup (IF old # new THEN {rel} \cup {take} ELSE {})
<1>1. /\ call[c].pc = "prepare" /\ UNCHANGED <<stored, calls, repaired>>
      /\ IF (old # new => S!MayMove(c)) /\ S!PointerAgrees(c)
         THEN S!Transact(c, plan) ELSE S!End(c)
  BY DEF S!Prepare, S!Moves, S!MovePointer, S!ReleaseClaim, S!TakeClaim, Identity, ClaimReleased, ClaimTaken
<1>2. Weighing(c, id, in, p, event)
  BY <1>1, WeighingIs
<1>3. /\ call[c] \in Locals /\ call[c].op = "ingest" /\ in \in S!Report /\ id \in Ids
      /\ p \in Providers /\ event \in Event /\ TargetIs(call[c]) /\ Fit
      /\ Copied(S!EventKey(id), event)
  BY <1>2, CallIs DEF Weighing
<1>4. CASE S!End(c)
  BY <1>1, <1>4, IdleCall, Proceeds DEF S!End
<1>5. ASSUME old # new => S!MayMove(c), S!PointerAgrees(c), S!Transact(c, plan)
      PROVE  StoreInv'
  <2>1. PICK l : l = call[c]
    OBVIOUS
  <2>2. News(l) /\ Revised(l) /\ TargetOf(l) = id /\ l.in = in /\ l.event = event
        /\ l.plan \in SUBSET Writing
    BY <1>1, <1>3, <2>1, CallIs, TargetIsCalled DEF CallInv, Ingesting, Locals, Plans
  <2>3. PICK put : /\ l.plan = {put} /\ Expects(put) /\ put.key = S!RevisionKey(id, p)
                   /\ put.row # None /\ put.row.n = in.n
                   /\ \/ put.expect # S!Version(S!RevisionKey(id, p))
                      \/ stored[S!RevisionKey(id, p)] = None
                      \/ stored[S!RevisionKey(id, p)].n < in.n
    <3>1. p = ProviderOf[l.in.event]
      BY <2>2
    <3> HIDE DEF p, id, in
    <3>2. PICK w \in l.plan :
             /\ l.plan = {w} /\ Expects(w) /\ w.key = S!RevisionKey(id, p) /\ w.row # None
             /\ w.expect = S!Version(S!RevisionKey(id, p))
                   /\ stored[S!RevisionKey(id, p)] # None =>
                      stored[S!RevisionKey(id, p)].n < in.n
             /\ w.row.n = in.n
      BY <2>2, <3>1 DEF News
    <3> QED
      BY <3>2
  <2>4. put \in Writing
    BY <2>2, <2>3
  <2>5. next \in Event /\ next.version = event.version + 1 /\ next.content = in.content
        /\ next.auth = rev /\ S!Above(rev, event.auth)
    <3>1. event \in S!EventRow /\ MaxRevision \in Nat
      BY <1>3, EventIs, StoreConstants DEF S!StoreAssumption
    <3>2. in.content \in Contents /\ in.n \in 1 .. MaxRevision /\ rev \in S!Revision
          /\ event.version \in Nat \ {0}
      BY <1>3, <3>1 DEF S!Report, S!Revision, S!EventRow, S!Versions
    <3>3. /\ next.version = event.version + 1 /\ next.content = in.content /\ next.auth = rev
          /\ next.boot = event.boot /\ next.revs = [event.revs EXCEPT ![p] = in.n]
          /\ next \in S!EventRow
      <4>1. event.revs \in [Providers -> 0 .. MaxRevision] /\ in.n \in 0 .. MaxRevision
        BY <3>1, <3>2 DEF S!EventRow
      <4>2. [event.revs EXCEPT ![p] = in.n] \in [Providers -> 0 .. MaxRevision]
        BY <4>1, <1>3
      <4>3. event.version + 1 \in S!Versions
        BY <3>2 DEF S!Versions
      <4> HIDE DEF event, in, p, rev
      <4> QED
        BY <3>1, <3>2, <4>2, <4>3 DEF S!EventRow, next
    <3>4. event.revs[p] < in.n /\ (event.boot.prov = p => event.boot.n < in.n)
          /\ ~S!Above(event.auth, rev)
      BY <2>2 DEF Revised
    <3>5. event.auth \in S!Revision /\ event.boot \in S!Revision
          /\ event.revs \in [Providers -> 0 .. MaxRevision]
      BY <3>1 DEF S!EventRow
    <3>6. rev # event.auth
      <4>1. event.auth = event.boot \/ event.auth.n = event.revs[event.auth.prov]
        BY <1>3 DEF Event, Weighed
      <4>2. event.revs[p] \in Nat /\ event.boot.n \in Nat /\ in.n \in Nat
        BY <3>1, <3>2, <3>5, <1>3 DEF S!Revision
      <4> SUFFICES ASSUME event.auth = rev PROVE FALSE
        OBVIOUS
      <4>3. event.auth.prov = p /\ event.auth.n = in.n
        OBVIOUS
      <4> QED
        BY <3>4, <4>1, <4>2, <4>3
    <3> HIDE DEF next
    <3>7. next \in Event
      <4>1. \A q \in Providers : \/ next.revs[q] = event.revs[q]
                                 \/ q = rev.prov /\ next.revs[q] = rev.n
        BY <3>3, <3>5
      <4>2. next.revs[rev.prov] = rev.n /\ next.boot \in {rev, event.boot}
        BY <3>3, <3>5, <1>3
      <4> HIDE DEF rev
      <4> QED
        BY <1>3, <3>2, <3>3, <3>4, <4>1, <4>2, OutranksIs
    <3>8. S!Above(rev, event.auth)
      BY <3>2, <3>4, <3>5, <3>6, AuthorityOrders
    <3> QED
      BY <3>3, <3>7, <3>8
  <2>6. event # None /\ event.version \in Nat \ {0}
        /\ event.version <= S!Version(S!EventKey(id))
    BY <1>3, CopyExists
  <2>7. stored[S!PointerKey(id)] # None /\ stored[S!PointerKey(id)].version = event.version
    BY <1>5 DEF S!PointerAgrees
  <2>8. old \in Identities /\ new \in Identities
    <3>1. event.content \in Contents /\ in.content \in Contents
      BY <1>3, EventIs DEF S!EventRow, S!Report
    <3> QED
      BY <3>1, IdentityIs
  <2>9. old # new => /\ call[c].mapped # None /\ CandidatesOf(old) = {id} /\ CandidatesOf(new) = {}
    BY <1>5 DEF S!MayMove, CandidatesOf, Identity
  <2>10. S!EventKey(id) \in S!Keys /\ S!PointerKey(id) \in S!Keys /\ S!ClaimKey(new) \in S!Keys
    BY <1>3, <2>8, KeysOf
  <2> HIDE DEF next
  <2>11. IsWrite(v, S!EventKey(id), event.version, next) /\ next # None
    <3>1. Fits(S!EventKey(id), next)
      BY <1>3, <2>5, FitsKinds
    <3>2. event.version \in Nat
      BY <2>6
    <3> QED
      BY <2>5, <2>6, <2>10, <3>1, <3>2, PutIs, Kinds
  <2>12. IsWrite(m, S!PointerKey(id), event.version, point) /\ point # None
         /\ point.version = next.version
    <3>1. point \in S!PointerRow /\ point.version = event.version + 1
      BY <2>6 DEF S!PointerRow, S!Versions
    <3>2. Fits(S!PointerKey(id), point)
      BY <1>3, <3>1, FitsKinds
    <3>3. event.version <= S!Version(S!PointerKey(id))
      BY <1>3, <2>6, <2>7, <2>10, VersionIs
    <3> HIDE DEF point
    <3>4. event.version \in Nat
      BY <2>6
    <3>5. IsWrite(m, S!PointerKey(id), event.version, point)
      BY <2>10, <3>1, <3>2, <3>3, <3>4, PutIs
    <3> QED
      BY <2>5, <3>1, <3>5, Kinds
  <2>13. \E row : IsWrite(rel, S!ClaimKey(old), S!Version(S!ClaimKey(old)), row)
                  /\ row.ids = {} /\ row # None
    BY <1>3, <2>8, ClaimReleasedIs
  <2>14. \E row : IsWrite(take, S!ClaimKey(new), S!Expected(owner), row)
                  /\ row.ids = {id} /\ row # None
    <3>1. owner \in S!ClaimRow \cup {None} /\ Copied(S!ClaimKey(new), owner)
      BY <1>3, <2>8, <2>10, TableRows, RowIsCopy
    <3> HIDE DEF owner
    <3> QED
      BY <1>3, <2>8, <3>1, ClaimTakenIs
  <2>15. \A w \in S!Binding(c) :
            /\ old = new
            /\ S!Binding(c) = {CheckOwner(c, in), PutMapping(id, in)}
            /\ w = CheckOwner(c, in) \/ w = PutMapping(id, in)
            /\ IsWrite(CheckOwner(c, in), S!ClaimKey(new), call[c].claim.version, None)
            /\ \E row : IsWrite(PutMapping(id, in), S!MappingKey(in.event), 0, row)
    BY <1>2, <2>9, BindingIs
  <2>16. \A w \in plan : \/ w = put \/ w = v \/ w = m \/ w \in S!Binding(c)
                         \/ old # new /\ (w = rel \/ w = take)
    BY <2>1, <2>3
  <2>17. /\ put \in plan /\ v \in plan /\ m \in plan /\ S!Binding(c) \subseteq plan
         /\ old # new => rel \in plan /\ take \in plan
    BY <2>1, <2>3
  <2> DEFINE a == CheckOwner(c, in)
             b == PutMapping(id, in)
  <2> HIDE DEF v, m, rel, take, plan, a, b, owner, point, old, new
  <2>18. plan \in Plans /\ Plan(plan)
    <3>1. \A w \in plan : w \in Writing /\ Expects(w)
      BY <2>3, <2>4, <2>11, <2>12, <2>13, <2>14, <2>15, <2>16 DEF IsWrite, a, b
    <3>2. put.key = S!RevisionKey(id, p) /\ v.key = S!EventKey(id) /\ m.key = S!PointerKey(id)
          /\ rel.key = S!ClaimKey(old) /\ take.key = S!ClaimKey(new)
      BY <2>3, <2>11, <2>12, <2>13, <2>14 DEF IsWrite
    <3>3. \A w \in S!Binding(c) :
             /\ old = new /\ (w = a \/ w = b)
             /\ a.key = S!ClaimKey(new) /\ b.key = S!MappingKey(in.event)
      BY <2>15 DEF IsWrite, a, b
    <3>4. \A w1, w2 \in plan : w1.key = w2.key => w1 = w2
      BY <2>16, <3>2, <3>3, KeysApart
    <3> QED
      BY <3>1, <3>4 DEF Plan, Plans
  <2>19. ASSUME S!Holds(plan) PROVE Justified(call[c], plan)
    <3>1. S!Exists(id) /\ S!EventOf(id) = event /\ stored[S!EventKey(id)] = event
      BY <1>3, <2>11, <2>17, <2>19, CurrentIs
    <3>2. NewContent(v) = in.content
      BY <2>5, <2>11 DEF NewContent, IsWrite
    <3>3. EventsJust(call[c], plan)
      <4>1. \A w \in plan, jd \in Ids : w.key = S!EventKey(jd) => w = v
        <5>1. /\ put.key = S!RevisionKey(id, p) /\ m.key = S!PointerKey(id)
              /\ rel.key = S!ClaimKey(old) /\ take.key = S!ClaimKey(new)
          BY <2>3, <2>12, <2>13, <2>14 DEF IsWrite
        <5>2. \A w \in S!Binding(c) : w.key = S!ClaimKey(new) \/ w.key = S!MappingKey(in.event)
          BY <2>15 DEF IsWrite
        <5> QED
          BY <5>1, <5>2, <2>16, KeysApart
      <4>2. \E w \in plan : w.key = S!PointerKey(id) /\ w.row # None
        BY <2>12, <2>17 DEF IsWrite
      <4>3. old # new => Relocates(plan, id, old, new)
        BY <2>13, <2>14, <2>17 DEF IsWrite, Relocates, Writes
      <4>4. Identity(next.content) = new /\ old = Identity(event.content)
        BY <2>5 DEF old, new
      <4> HIDE DEF event, id
      <4> QED
        BY <1>3, <2>5, <2>11, <2>17, <2>19, <4>1, <4>2, <4>3, <4>4, RewriteJust
    <3>4. PointersJust(plan)
      <4> SUFFICES ASSUME NEW w \in plan, NEW jd \in Ids, w.key = S!PointerKey(jd), w.row # None
                   PROVE  \E u \in plan : /\ u.key = S!EventKey(jd) /\ u.row # None
                                          /\ u.row.version = w.row.version
        BY DEF PointersJust
      <4>1. w = m
        BY <2>3, <2>11, <2>13, <2>14, <2>15, <2>16, KeysApart DEF IsWrite
      <4>2. jd = id /\ w.row.version = next.version
        BY <2>12, <4>1, KeysApart DEF IsWrite
      <4> QED
        BY <2>11, <2>17, <4>2 DEF IsWrite
    <3>5. ClaimsJust(plan)
      <4>1. ASSUME NEW w \in plan, NEW i \in Identities, w.key = S!ClaimKey(i), w.row # None
            PROVE  CandidatesOf(i) \subseteq {id} /\ w.row.ids = IF i = new THEN {id} ELSE {}
        <5>1. old # new /\ (w = rel \/ w = take)
          BY <2>3, <2>11, <2>12, <2>15, <2>16, <4>1, KeysApart DEF IsWrite
        <5>2. CASE w = rel
          <6>1. i = old /\ w.row.ids = {}
            BY <2>13, <4>1, <5>2, KeysApart DEF IsWrite
          <6> QED
            BY <2>9, <5>1, <6>1
        <5>3. CASE w = take
          <6>1. i = new /\ w.row.ids = {id}
            BY <2>14, <4>1, <5>3, KeysApart DEF IsWrite
          <6> QED
            BY <2>9, <5>1, <6>1
        <5> QED
          BY <5>1, <5>2, <5>3
      <4>2. Claiming(plan, id, NewContent(v))
        BY <3>2, <4>1 DEF Claiming, new
      <4> QED
        BY <1>3, <2>11, <2>17, <3>1, <4>2, ClaimingJust DEF IsWrite
    <3>6. MappingsJust(call[c], plan)
      <4>1. \A w \in plan, x1 \in ProviderEvents : w.key = S!MappingKey(x1) => w \in S!Binding(c)
        BY <2>3, <2>11, <2>12, <2>13, <2>14, <2>16, KeysApart DEF IsWrite
      <4> QED
        BY <1>2, <2>17, <2>19, <4>1, BindingJust
    <3>7. RevisionsJust(plan)
      <4> SUFFICES ASSUME NEW w \in plan, NEW jd \in Ids, NEW q \in Providers,
                          w.key = S!RevisionKey(jd, q), w.row # None, stored[w.key] # None
                   PROVE  stored[w.key].n <= w.row.n
        BY DEF RevisionsJust
      <4>1. w = put
        BY <2>11, <2>12, <2>13, <2>14, <2>15, <2>16, KeysApart DEF IsWrite
      <4>2. stored[w.key].n < in.n /\ w.row.n = in.n /\ stored[w.key] \in S!RevisionRow
        <5>1. w.expect = S!Version(w.key)
          BY <2>19 DEF S!Holds
        <5> HIDE DEF id, p
        <5> QED
          BY <1>3, <2>3, <4>1, <5>1, TableRows
      <4>3. stored[w.key].n \in Nat /\ in.n \in Nat
        <5>1. MaxRevision \in Nat
          BY StoreConstants DEF S!StoreAssumption
        <5> QED
          BY <1>3, <4>2, <5>1 DEF S!RevisionRow, S!Report
      <4> QED
        BY <4>2, <4>3
    <3> QED
      BY <3>3, <3>4, <3>5, <3>6, <3>7 DEF Justified
  <2> QED
    BY <1>1, <1>3, <1>5, <2>18, <2>19, Transacts
<1> QED
  BY <1>1, <1>4, <1>5

-----------------------------------------------------------------------------
(* Bootstraps.                                                             *)
LEMMA CallBootstrapKeeps ==
  ASSUME StoreInv, NEW c \in Callers, S!CallBootstrap(c)
  PROVE  StoreInv'
<1>1. PICK b \in S!Bootstrap :
        LET row == stored[S!ClaimKey(Identity(b.content))] IN
        S!Begin(c, IF S!Candidates(row) \subseteq {b.id}
                   THEN [S!Idle EXCEPT !.op = "bootstrap", !.in = b, !.claim = row,
                                       !.pc = "insert"]
                   ELSE S!Idle)
  BY DEF S!CallBootstrap, Identity
<1> DEFINE k == S!ClaimKey(Identity(b.content))
           row == stored[k]
<1>2. CASE S!Candidates(row) \subseteq {b.id}
  <2>1. PICK l : l = [S!Idle EXCEPT !.op = "bootstrap", !.in = b, !.claim = row, !.pc = "insert"]
    OBVIOUS
  <2>2. S!Begin(c, l)
    BY <1>1, <1>2, <2>1
  <2>3. Identity(b.content) \in Identities /\ Fit
    BY IdentityIs, CallIs DEF S!Bootstrap
  <2>4. row \in S!ClaimRow \cup {None} /\ Copied(k, row)
    BY <2>3, TableRows, RowIsCopy, KeysOf
  <2> HIDE DEF row
  <2>5. /\ l.op = "bootstrap" /\ l.in = b /\ l.claim = row /\ l.pc = "insert" /\ l.plan = {}
        /\ l \in Locals
    BY <2>1, <2>4 DEF Locals, S!Idle, Bootstraps, Plans
  <2>6. CallInv(l)
    BY <1>2, <2>4, <2>5 DEF CallInv, Ingesting, Bootstrapping, Transacting, Bootstraps, Reads
  <2> QED
    BY <2>2, <2>5, <2>6, Begins DEF S!Begin
<1>3. CASE ~(S!Candidates(row) \subseteq {b.id})
  <2>1. S!Begin(c, S!Idle)
    BY <1>1, <1>3
  <2>2. PICK l \in Locals : l = S!Idle /\ CallInv(l)
    BY IdleCall
  <2> QED
    BY <2>1, <2>2, Begins DEF S!Begin
<1> QED
  BY <1>2, <1>3

\* A bootstrap that has begun, and the claim it holds.
Claimant(c, b, id, i, claim) ==
    /\ call[c] \in Locals /\ call[c].op = "bootstrap" /\ call[c].in = b /\ b \in S!Bootstrap
    /\ id = b.id /\ id \in Ids /\ i = Identity(b.content) /\ i \in Identities
    /\ claim = call[c].claim /\ claim \in S!ClaimRow \cup {None}
    /\ S!Candidates(claim) \subseteq {id} /\ Copied(S!ClaimKey(i), claim)

LEMMA ClaimantIs ==
  ASSUME StoreInv, NEW c \in Callers, call[c].pc \in Bootstraps
  PROVE  Claimant(c, call[c].in, call[c].in.id, Identity(call[c].in.content), call[c].claim)
<1>1. PICK l : l = call[c]
  OBVIOUS
<1>2. /\ l \in Locals /\ l.op = "bootstrap" /\ l.in \in S!Bootstrap
      /\ l.claim \in S!ClaimRow \cup {None} /\ S!Candidates(l.claim) \subseteq {l.in.id}
      /\ Copied(S!ClaimKey(Identity(l.in.content)), l.claim)
  BY <1>1, CallIs DEF CallInv, Bootstrapping
<1>3. l.in.id \in Ids /\ Identity(l.in.content) \in Identities
  BY <1>2, IdentityIs DEF S!Bootstrap
<1> QED
  BY <1>1, <1>2, <1>3 DEF Claimant

\* The event a bootstrap inserts.
Inserted(b) == [content |-> b.content, auth |-> b.revision, boot |-> b.revision,
                revs |-> [p \in Providers |-> 0], version |-> 1]

LEMMA InsertedIs ==
  ASSUME NEW b \in S!Bootstrap
  PROVE  Inserted(b) \in Event /\ Inserted(b).version = 1 /\ Inserted(b).content = b.content
         /\ Inserted(b) # None
<1>1. b.revision \in S!Revision /\ b.content \in Contents
  BY DEF S!Bootstrap
<1>2. Inserted(b) \in S!EventRow
  BY <1>1, StoreConstants DEF Inserted, S!EventRow, S!Versions, S!StoreAssumption
<1>3. S!Known(Inserted(b)) = {b.revision}
  BY DEF S!Known, Inserted
<1>4. ~S!Above(b.revision, b.revision)
  BY <1>1, AuthorityOrders
<1>5. Weighed(Inserted(b))
  BY <1>3, <1>4 DEF Weighed, Inserted
<1> QED
  BY <1>2, <1>5, Kinds DEF Event, Inserted

LEMMA InsertEventKeeps ==
  ASSUME StoreInv, NEW c \in Callers, S!InsertEvent(c)
  PROVE  StoreInv'
<1>0. PICK b, claim : b = call[c].in /\ claim = call[c].claim
  OBVIOUS
<1> DEFINE id == b.id
           i == Identity(b.content)
           point == [version |-> 1]
           v == S!Write(S!EventKey(id), 0, Inserted(b))
           m == S!Write(S!PointerKey(id), S!Version(S!PointerKey(id)), point)
           take == ClaimTaken(i, id, claim)
           plan == {v, m} \cup {take}
<1>1. /\ call[c].pc = "insert" /\ UNCHANGED <<calls, repaired>>
      /\ IF S!Holds(plan) THEN stored' = S!Applied(plan) /\ S!End(c)
         ELSE S!Goto(c, "existing") /\ UNCHANGED stored
  BY <1>0 DEF S!InsertEvent, S!Insertion, S!TakeClaim, Identity, ClaimTaken, Inserted
<1>2. Claimant(c, b, id, i, claim)
  BY <1>0, <1>1, ClaimantIs DEF Bootstraps
<1>3. /\ call[c] \in Locals /\ call[c].op = "bootstrap" /\ b \in S!Bootstrap /\ id \in Ids
      /\ i \in Identities /\ claim \in S!ClaimRow \cup {None}
      /\ S!Candidates(claim) \subseteq {id} /\ Copied(S!ClaimKey(i), claim)
      /\ Fit /\ Indexed /\ Bound /\ Pointed /\ repaired \subseteq Ids
  BY <1>2 DEF Claimant, StoreInv, TableInv, Counted
<1> HIDE DEF i
<1>4. ASSUME S!Goto(c, "existing"), UNCHANGED stored PROVE StoreInv'
  <2>1. PICK l : l = [call[c] EXCEPT !.pc = "existing"]
    OBVIOUS
  <2>2. call' = [call EXCEPT ![c] = l]
    BY <1>4, <2>1 DEF S!Goto
  <2>3. /\ l.op = "bootstrap" /\ l.in = b /\ l.claim = claim /\ l.pc = "existing" /\ l \in Locals
    BY <1>0, <1>3, <2>1 DEF Locals, Bootstraps
  <2>4. CallInv(l)
    BY <1>3, <2>3 DEF i, CallInv, Ingesting, Bootstrapping, Transacting, Bootstraps, Reads
  <2> QED
    BY <1>1, <1>4, <2>2, <2>3, <2>4, Proceeds
<1>5. ASSUME S!Holds(plan), stored' = S!Applied(plan), S!End(c) PROVE StoreInv'
  <2>1. /\ S!EventKey(id) \in S!Keys /\ S!PointerKey(id) \in S!Keys /\ S!ClaimKey(i) \in S!Keys
    BY <1>3, KeysOf
  <2>2. \E row : /\ IsWrite(take, S!ClaimKey(i), S!Expected(claim), row)
                 /\ row.ids = {id} /\ row # None
    BY <1>3, ClaimTakenIs
  <2>3. ~S!Exists(id)
    <3>1. v.key = S!EventKey(id) /\ v.expect = 0
      BY DEF S!Write
    <3>2. S!Version(S!EventKey(id)) = 0
      BY <1>5, <3>1 DEF S!Holds
    <3> QED
      BY <1>3, <2>1, <3>2, VersionIs DEF S!Exists, S!EventOf
  <2>4. stored[S!PointerKey(id)] = None /\ S!Version(S!PointerKey(id)) = 0
    BY <1>3, <2>1, <2>3, VersionIs DEF Pointed
  <2>5. IsWrite(v, S!EventKey(id), 0, Inserted(b)) /\ Inserted(b) # None
    <3>1. Fits(S!EventKey(id), Inserted(b)) /\ Inserted(b).version = 0 + 1
          /\ 0 <= S!Version(S!EventKey(id))
      BY <1>3, <2>1, InsertedIs, FitsKinds, VersionIs
    <3> QED
      BY <1>3, <2>1, <3>1, PutIs, InsertedIs
  <2>6. IsWrite(m, S!PointerKey(id), 0, point) /\ point # None /\ point.version = 1
    <3>1. point \in S!PointerRow /\ point.version = 0 + 1
      BY DEF S!PointerRow, S!Versions
    <3>2. Fits(S!PointerKey(id), point) /\ point # None /\ 0 <= S!Version(S!PointerKey(id))
      BY <1>3, <2>4, <3>1, FitsKinds, Kinds
    <3>3. m = S!Write(S!PointerKey(id), 0, point)
      BY <2>4
    <3> HIDE DEF point, m
    <3>4. IsWrite(S!Write(S!PointerKey(id), 0, point), S!PointerKey(id), 0, point)
      BY <2>1, <3>1, <3>2, PutIs
    <3> QED
      BY <3>1, <3>2, <3>3, <3>4
  <2>7. CandidatesOf(i) = {}
    <3>1. take \in plan /\ take.key = S!ClaimKey(i) /\ take.expect = S!Expected(claim)
      BY <2>2 DEF IsWrite
    <3>2. S!Version(S!ClaimKey(i)) = S!Expected(claim)
      BY <1>5, <3>1 DEF S!Holds
    <3>3. stored[S!ClaimKey(i)] = claim
      BY <1>3, <3>2 DEF Copied
    <3> QED
      BY <1>3, <2>3, <3>3 DEF CandidatesOf, Indexed
  <2>8. v \in plan /\ m \in plan /\ take \in plan /\ \A w \in plan : w = v \/ w = m \/ w = take
    OBVIOUS
  <2> HIDE DEF v, m, take, plan, point
  <2>9. Plan(plan)
    <3>1. \A w \in plan : Expects(w)
      BY <2>2, <2>5, <2>6, <2>8 DEF IsWrite
    <3>2. \A w1, w2 \in plan : w1.key = w2.key => w1 = w2
      BY <2>2, <2>5, <2>6, <2>8, KeysApart DEF IsWrite
    <3> QED
      BY <3>1, <3>2 DEF Plan
  <2>10. Carried(plan) /\ Raised
    BY <1>3, <1>5, <2>9, Applies
  <2>11. /\ stored'[S!EventKey(id)] = Inserted(b) /\ stored'[S!PointerKey(id)] = point
         /\ stored'[S!ClaimKey(i)] # None /\ stored'[S!ClaimKey(i)].ids = {id}
    BY <2>2, <2>5, <2>6, <2>8, <2>10 DEF Carried, IsWrite
  <2>12. \A k \in S!Keys : k # S!EventKey(id) /\ k # S!PointerKey(id) /\ k # S!ClaimKey(i) =>
            stored'[k] = stored[k]
    BY <2>2, <2>5, <2>6, <2>8, <2>10 DEF Carried, Writes, IsWrite
  <2>13. \A jd \in Ids : jd # id => /\ stored'[S!EventKey(jd)] = stored[S!EventKey(jd)]
                                    /\ stored'[S!PointerKey(jd)] = stored[S!PointerKey(jd)]
    BY <2>12, KeysApart, KeysOf
  <2>14. \A j \in Identities : CandidatesOf(j)' = IF j = i THEN {id} ELSE CandidatesOf(j)
    <3> TAKE j \in Identities
    <3>1. CandidatesOf(j)' = S!Candidates(stored'[S!ClaimKey(j)])
      BY DEF CandidatesOf, S!Candidates, S!ClaimKey
    <3>2. CASE j = i
      BY <2>11, <3>1, <3>2 DEF S!Candidates
    <3>3. CASE j # i
      <4>1. stored'[S!ClaimKey(j)] = stored[S!ClaimKey(j)]
        BY <2>12, <3>3, KeysApart, KeysOf
      <4> QED
        BY <3>1, <3>3, <4>1 DEF CandidatesOf
    <3> QED
      BY <3>2, <3>3
  <2>15. \A jd : S!EventOf(jd)' = stored'[S!EventKey(jd)] /\ (S!Exists(jd)' <=> S!EventOf(jd)' # None)
    BY DEF S!EventOf, S!Exists, S!EventKey
  <2>16. \A jd \in Ids : jd # id => (S!Exists(jd)' <=> S!Exists(jd)) /\ S!EventOf(jd)' = S!EventOf(jd)
    BY <2>13, <2>15 DEF S!EventOf, S!Exists
  <2>17. S!Exists(id)' /\ S!EventOf(id)'.content = b.content /\ S!EventOf(id)'.version = 1
    BY <1>3, <2>11, <2>15, InsertedIs
  <2>18. Indexed'
    <3>1. \A j \in Identities : CandidatesOf(j) \subseteq Ids \ {id}
      <4> TAKE j \in Identities
      <4>1. stored[S!ClaimKey(j)] \in S!ClaimRow \cup {None}
        BY <1>3, TableRows
      <4> QED
        BY <1>3, <2>3, <4>1 DEF CandidatesOf, S!Candidates, S!ClaimRow, Indexed
    <3>2. \A j \in Identities : \A jd \in CandidatesOf(j)' : S!Exists(jd)'
      BY <1>3, <2>14, <2>16, <2>17, <3>1 DEF Indexed
    <3>3. \A j \in Identities : \A jd, kd \in CandidatesOf(j)' : jd = kd
      BY <1>3, <2>14 DEF Indexed
    <3>4. \A jd \in Ids, j \in Identities : S!Exists(jd)' =>
            (jd \in CandidatesOf(j)' <=> j = Identity(S!EventOf(jd)'.content))
      <4> TAKE jd \in Ids, j \in Identities
      <4>1. CASE jd = id
        BY <2>14, <2>17, <3>1, <4>1 DEF i
      <4>2. CASE jd # id
        <5>1. S!Exists(jd) => (jd \in CandidatesOf(j) <=> j = Identity(S!EventOf(jd).content))
          BY <1>3 DEF Indexed
        <5>2. S!Exists(jd) => (jd \in CandidatesOf(i) <=> i = Identity(S!EventOf(jd).content))
          BY <1>3 DEF Indexed
        <5> QED
          BY <2>7, <2>14, <2>16, <4>2, <5>1, <5>2
      <4> QED
        BY <4>1, <4>2
    <3> QED
      BY <3>2, <3>3, <3>4 DEF Indexed, Identity
  <2>19. Bound'
    <3>1. \A e \in ProviderEvents : stored'[S!MappingKey(e)] = stored[S!MappingKey(e)]
      BY <2>12, KeysApart, KeysOf
    <3>2. \A jd \in Ids : S!Exists(jd) => S!Exists(jd)'
      BY <1>3, <2>10, RaisedExists
    <3> QED
      BY <1>3, <3>1, <3>2 DEF Bound, S!MappingKey
  <2>20. Pointed'
    <3>1. \A jd \in Ids : stored'[S!PointerKey(jd)] # None => S!Exists(jd)'
      BY <1>3, <2>13, <2>16, <2>17 DEF Pointed
    <3>2. \A jd \in Ids : S!Exists(jd)' /\ jd \notin repaired' =>
            /\ stored'[S!PointerKey(jd)] # None
            /\ stored'[S!PointerKey(jd)].version = S!EventOf(jd)'.version
      BY <1>1, <1>3, <2>6, <2>11, <2>13, <2>16, <2>17 DEF Pointed, S!PointerFollows
    <3> QED
      BY <3>1, <3>2 DEF Pointed, S!PointerFollows, S!PointerKey
  <2>21. call' = [call EXCEPT ![c] = S!Idle] /\ call[c].pc # "idle" /\ repaired' \subseteq Ids
    BY <1>1, <1>3, <1>5 DEF S!End
  <2> QED
    BY <1>1, <2>10, <2>18, <2>19, <2>20, <2>21, Ends
<1> QED
  BY <1>1, <1>4, <1>5

LEMMA ReadExistingKeeps ==
  ASSUME StoreInv, NEW c \in Callers, S!ReadExisting(c)
  PROVE  StoreInv'
<1>0. PICK b, claim : b = call[c].in /\ claim = call[c].claim
  OBVIOUS
<1> DEFINE id == b.id
           i == Identity(b.content)
           k == S!EventKey(id)
           event == stored[k]
<1>1. /\ call[c].pc = "existing" /\ UNCHANGED <<stored, calls, repaired>>
      /\ \/ S!End(c)
         \/ /\ event # None /\ ~S!Above(S!Winner(event), b.revision)
            /\ b.revision = S!Winner(event) => event.content = b.content
            /\ call' = [call EXCEPT ![c] = [call[c] EXCEPT !.event = event, !.pc = "owner"]]
  BY <1>0 DEF S!ReadExisting
<1>2. Claimant(c, b, id, i, claim)
  BY <1>0, <1>1, ClaimantIs DEF Bootstraps
<1>3. /\ call[c] \in Locals /\ call[c].op = "bootstrap" /\ b \in S!Bootstrap /\ id \in Ids
      /\ claim \in S!ClaimRow \cup {None}
      /\ S!Candidates(claim) \subseteq {id} /\ Copied(S!ClaimKey(i), claim) /\ Fit
  BY <1>2, CallIs DEF Claimant
<1>4. CASE S!End(c)
  BY <1>1, <1>4, IdleCall, Proceeds DEF S!End
<1>5. ASSUME event # None, ~S!Above(S!Winner(event), b.revision),
             b.revision = S!Winner(event) => event.content = b.content,
             call' = [call EXCEPT ![c] = [call[c] EXCEPT !.event = event, !.pc = "owner"]]
      PROVE  StoreInv'
  <2>1. event \in Event /\ Copied(k, event)
    BY <1>3, <1>5, TableRows, RowIsCopy, KeysOf
  <2>2. S!Winner(event) = event.auth
    BY <2>1, EventIs
  <2> HIDE DEF event
  <2>3. PICK l : l = [call[c] EXCEPT !.event = event, !.pc = "owner"]
    OBVIOUS
  <2>4. /\ l.op = "bootstrap" /\ l.in = b /\ l.claim = claim /\ l.pc = "owner"
        /\ l.event = event /\ l \in Locals
    BY <1>0, <1>3, <2>1, <2>3 DEF Locals, Bootstraps
  <2>5. CallInv(l)
    BY <1>3, <1>5, <2>1, <2>2, <2>4
       DEF CallInv, Ingesting, Bootstrapping, Transacting, Bootstraps, Reads
  <2> QED
    BY <1>1, <1>5, <2>3, <2>4, <2>5, Proceeds
<1> QED
  BY <1>1, <1>4, <1>5

\* A bootstrap that has read the event, and may repair it.
Owning(c, b, id, i, claim, event) ==
    /\ Claimant(c, b, id, i, claim)
    /\ event = call[c].event /\ event \in Event /\ Copied(S!EventKey(id), event)
    /\ ~S!Above(event.auth, b.revision)
    /\ b.revision = event.auth => event.content = b.content

LEMMA OwningIs ==
  ASSUME StoreInv, NEW c \in Callers, call[c].pc \in {"owner", "previous"}
  PROVE  Owning(c, call[c].in, call[c].in.id, Identity(call[c].in.content), call[c].claim,
                call[c].event)
<1>1. PICK l : l = call[c]
  OBVIOUS
<1>2. /\ l.event \in Event /\ Copied(S!EventKey(l.in.id), l.event)
      /\ ~S!Above(l.event.auth, l.in.revision)
      /\ l.in.revision = l.event.auth => l.event.content = l.in.content
  BY <1>1, CallIs DEF CallInv, Bootstrapping
<1> QED
  BY <1>1, <1>2, ClaimantIs DEF Owning, Bootstraps

LEMMA RepairedIs ==
  ASSUME StoreInv, NEW c \in Callers, NEW b, NEW id, NEW i, NEW claim, NEW event,
         Owning(c, b, id, i, claim, event), b.revision # event.auth
  PROVE  \E next : /\ IsWrite(S!Repaired(c), S!EventKey(id), event.version, next)
                   /\ next # None /\ next.content = b.content
                   /\ S!Above(next.auth, event.auth)
<1> DEFINE rev == b.revision
           next == [event EXCEPT !.content = b.content, !.boot = rev,
                                 !.auth = S!MaxAuthority(S!Known(event) \cup {rev}),
                                 !.version = @ + 1]
<1>1. /\ call[c].in = b /\ b \in S!Bootstrap /\ id = b.id /\ id \in Ids /\ Fit
      /\ event = call[c].event /\ event \in Event /\ Copied(S!EventKey(id), event)
      /\ ~S!Above(event.auth, rev)
  BY CallIs DEF Owning, Claimant
<1>2. S!Repaired(c) = S!Write(S!EventKey(id), event.version, next)
  BY <1>1 DEF S!Repaired
<1>3. /\ rev \in S!Revision /\ b.content \in Contents /\ event \in S!EventRow
      /\ event.auth \in S!Revision /\ S!Known(event) \in SUBSET S!Revision
      /\ \A r \in S!Known(event) : ~S!Above(r, event.auth)
  BY <1>1, EventIs DEF S!Bootstrap, S!EventRow
<1>4. S!Above(rev, event.auth)
  BY <1>1, <1>3, AuthorityOrders
<1>5. S!MaxAuthority(S!Known(event) \cup {rev}) = rev
  <2>1. \A q \in S!Known(event) \cup {rev} : ~S!Above(q, rev)
    <3>1. ~S!Above(rev, rev)
      BY <1>3, AuthorityOrders
    <3>2. \A q \in S!Known(event) : ~S!Above(q, rev)
      BY <1>3, <1>4, AuthorityOrders
    <3> QED
      BY <3>1, <3>2
  <2> DEFINE T == S!Known(event) \cup {rev}
  <2>2. T \in SUBSET S!Revision /\ rev \in T
    BY <1>3
  <2> HIDE DEF T, rev
  <2>3. \A q \in T : ~S!Above(q, rev)
    BY <2>1 DEF T
  <2>4. S!MaxAuthority(T) = rev
    BY <2>2, <2>3, HighestIs
  <2> QED
    BY <2>4 DEF T
<1>6. event.version \in Nat \ {0} /\ event.version <= S!Version(S!EventKey(id))
      /\ S!EventKey(id) \in S!Keys
  BY <1>1, CopyExists, KeysOf
<1>7. /\ next.content = b.content /\ next.boot = rev /\ next.auth = rev
      /\ next.revs = event.revs /\ next.version = event.version + 1 /\ next \in S!EventRow
  <2>1. next = [event EXCEPT !.content = b.content, !.boot = rev, !.auth = rev, !.version = @ + 1]
    BY <1>5
  <2>2. event.version + 1 \in S!Versions
    BY <1>6 DEF S!Versions
  <2> HIDE DEF next, rev
  <2> QED
    BY <1>3, <2>1, <2>2 DEF S!EventRow
<1> HIDE DEF next, rev
<1>8. next \in Event
  BY <1>1, <1>3, <1>7, OutranksIs
<1>9. Fits(S!EventKey(id), next) /\ next # None /\ event.version \in Nat
  BY <1>1, <1>6, <1>8, FitsKinds, Kinds
<1>10. IsWrite(S!Write(S!EventKey(id), event.version, next), S!EventKey(id), event.version, next)
  BY <1>6, <1>7, <1>9, PutIs
<1> QED
  BY <1>2, <1>4, <1>7, <1>9, <1>10

\* The claims a bootstrap's transaction checks, takes or releases.
ClaimWrite(w, id, i) ==
    /\ w \in Writing /\ Expects(w)
    /\ \E j \in Identities :
          /\ w.key = S!ClaimKey(j)
          /\ w.row # None /\ w.expect = S!Version(w.key) =>
                CandidatesOf(j) \subseteq {id} /\ w.row.ids = IF j = i THEN {id} ELSE {}

LEMMA BootstrapPlan ==
  ASSUME StoreInv, NEW c \in Callers, NEW b, NEW id, NEW i, NEW claim, NEW event,
         Owning(c, b, id, i, claim, event), NEW plan, NEW v \in plan, NEW next,
         IsWrite(v, S!EventKey(id), event.version, next),
         \/ next = None /\ Identity(event.content) = i
         \/ /\ next # None /\ next.content = b.content /\ S!Above(next.auth, event.auth)
            /\ Identity(event.content) # i => Relocates(plan, id, Identity(event.content), i),
         \A w \in plan : w = v \/ ClaimWrite(w, id, i),
         \A w1, w2 \in plan : w1.key = w2.key => w1 = w2
  PROVE  plan \in Plans /\ Plan(plan) /\ (S!Holds(plan) => Justified(call[c], plan))
<1>1. /\ call[c].in = b /\ call[c].op = "bootstrap" /\ id = b.id /\ id \in Ids /\ Fit
      /\ i = Identity(b.content) /\ event \in Event /\ Copied(S!EventKey(id), event)
  BY CallIs DEF Owning, Claimant
<1>2. v.key = S!EventKey(id) /\ v.row = next /\ v \in Writing /\ Expects(v)
  BY DEF IsWrite
<1>3. \A w \in plan : w \in Writing /\ Expects(w)
                      /\ (w = v \/ \E j \in Identities : w.key = S!ClaimKey(j))
  BY <1>2 DEF ClaimWrite
<1>4. plan \in Plans /\ Plan(plan)
  BY <1>3 DEF Plans, Plan
<1>5. ASSUME S!Holds(plan) PROVE Justified(call[c], plan)
  <2>1. S!Exists(id) /\ S!EventOf(id) = event /\ stored[S!EventKey(id)] = event
    BY <1>1, <1>5, CurrentIs
  <2>2. EventsJust(call[c], plan)
    <3>1. CASE next = None
      BY <1>2, <1>3, <3>1, KeysApart DEF EventsJust
    <3>2. CASE next # None
      <4>1. \A w \in plan, jd \in Ids : w.key = S!EventKey(jd) => w = v
        BY <1>3, KeysApart
      <4>2. Identity(next.content) = i /\ S!Above(next.auth, event.auth)
        BY <1>1, <3>2
      <4> QED
        BY <1>1, <1>5, <3>2, <4>1, <4>2, RewriteJust
    <3> QED
      BY <3>1, <3>2
  <2>3. PointersJust(plan) /\ MappingsJust(call[c], plan) /\ RevisionsJust(plan)
    <3>1. PointersJust(plan)
      BY <1>2, <1>3, KeysApart DEF PointersJust
    <3>2. MappingsJust(call[c], plan)
      BY <1>2, <1>3, KeysApart DEF MappingsJust
    <3>3. RevisionsJust(plan)
      BY <1>2, <1>3, KeysApart DEF RevisionsJust
    <3> QED
      BY <3>1, <3>2, <3>3
  <2>4. ClaimsJust(plan)
    <3>1. Identity(NewContent(v)) = i
      BY <1>1, <1>2, <2>1 DEF NewContent
    <3>2. Claiming(plan, id, NewContent(v))
      <4> SUFFICES ASSUME NEW w \in plan, NEW j \in Identities, w.key = S!ClaimKey(j),
                          w.row # None
                   PROVE  CandidatesOf(j) \subseteq {id} /\ w.row.ids = IF j = i THEN {id} ELSE {}
        BY <3>1 DEF Claiming
      <4>1. w # v
        BY <1>2, KeysApart
      <4>2. ClaimWrite(w, id, i) /\ w.expect = S!Version(w.key)
        BY <1>5, <4>1 DEF S!Holds
      <4> QED
        BY <4>2, KeysApart DEF ClaimWrite
    <3> QED
      BY <1>1, <1>2, <2>1, <3>2, ClaimingJust
  <2> QED
    BY <2>2, <2>3, <2>4 DEF Justified
<1> QED
  BY <1>4, <1>5

LEMMA ReadOwnerKeeps ==
  ASSUME StoreInv, NEW c \in Callers, S!ReadOwner(c)
  PROVE  StoreInv'
<1>0. PICK b, claim, event : b = call[c].in /\ claim = call[c].claim /\ event = call[c].event
  OBVIOUS
<1> DEFINE id == b.id
           i == Identity(b.content)
           k == S!ClaimKey(i)
           owner == stored[k]
           check == S!Check(S!EventKey(id), event.version)
           o == IF S!Candidates(owner) = {id} THEN S!Check(k, owner.version)
                ELSE ClaimTaken(i, id, owner)
           repair == S!Repaired(c)
<1>1. /\ call[c].pc = "owner" /\ UNCHANGED <<stored, calls, repaired>>
      /\ \/ S!End(c)
         \/ Identity(event.content) # i /\ S!Goto(c, "previous")
         \/ /\ S!Candidates(owner) \subseteq {id} /\ Identity(event.content) = i
            /\ \/ S!Above(b.revision, S!Winner(event)) /\ S!Transact(c, {repair} \cup {o})
               \/ S!Transact(c, {check} \cup {o})
  BY <1>0 DEF S!ReadOwner, S!TakeClaim, Identity, ClaimTaken
<1>2. Owning(c, b, id, i, claim, event)
  BY <1>0, <1>1, OwningIs
<1>3. /\ call[c] \in Locals /\ call[c].op = "bootstrap" /\ b \in S!Bootstrap /\ id \in Ids
      /\ claim \in S!ClaimRow \cup {None} /\ i \in Identities
      /\ S!Candidates(claim) \subseteq {id} /\ Copied(S!ClaimKey(i), claim) /\ Fit
      /\ event \in Event /\ Copied(S!EventKey(id), event)
      /\ ~S!Above(event.auth, b.revision)
      /\ b.revision = event.auth => event.content = b.content
      /\ call[c].in = b /\ call[c].event = event /\ call[c].claim = claim
  BY <1>2, CallIs DEF Owning, Claimant
<1>4. CASE S!End(c)
  BY <1>1, <1>4, IdleCall, Proceeds DEF S!End
<1>5. ASSUME Identity(event.content) # i, S!Goto(c, "previous") PROVE StoreInv'
  <2>1. PICK l : l = [call[c] EXCEPT !.pc = "previous"]
    OBVIOUS
  <2>2. call' = [call EXCEPT ![c] = l]
    BY <1>5, <2>1 DEF S!Goto
  <2>3. /\ l.op = "bootstrap" /\ l.in = b /\ l.claim = claim /\ l.pc = "previous"
        /\ l.event = event /\ l \in Locals
    BY <1>3, <2>1 DEF Locals, Bootstraps
  <2>4. CallInv(l)
    BY <1>3, <1>5, <2>3 DEF CallInv, Ingesting, Bootstrapping, Transacting, Bootstraps, Reads
  <2> QED
    BY <1>1, <2>2, <2>3, <2>4, Proceeds
<1>6. ASSUME S!Candidates(owner) \subseteq {id}, Identity(event.content) = i,
             \/ S!Above(b.revision, S!Winner(event)) /\ S!Transact(c, {repair} \cup {o})
             \/ S!Transact(c, {check} \cup {o})
      PROVE  StoreInv'
  <2>1. owner \in S!ClaimRow \cup {None} /\ Copied(k, owner) /\ k \in S!Keys
    BY <1>3, TableRows, RowIsCopy, KeysOf
  <2>2. ClaimWrite(o, id, i) /\ o.key = k
    <3>1. CASE S!Candidates(owner) = {id}
      <4>1. owner # None /\ owner.version \in Nat
        BY <2>1, <3>1 DEF S!Candidates, S!ClaimRow, S!Versions
      <4>2. o = S!Check(k, owner.version)
        BY <3>1
      <4> HIDE DEF o, owner, k
      <4>3. IsWrite(S!Check(k, owner.version), k, owner.version, None)
        BY <2>1, <4>1, CheckIs
      <4> QED
        BY <1>3, <4>2, <4>3 DEF IsWrite, ClaimWrite, k
    <3>2. CASE S!Candidates(owner) # {id}
      <4>1. o = ClaimTaken(i, id, owner) /\ CandidatesOf(i) \subseteq {id}
        BY <1>6, <3>2 DEF CandidatesOf
      <4> HIDE DEF o, owner
      <4>2. \E row : /\ IsWrite(ClaimTaken(i, id, owner), k, S!Expected(owner), row)
                     /\ row.ids = {id} /\ row # None
        BY <1>3, <2>1, ClaimTakenIs
      <4> QED
        BY <1>3, <4>1, <4>2 DEF IsWrite, ClaimWrite
    <3> QED
      BY <3>1, <3>2
  <2>3. \E v, next : /\ S!Transact(c, {v} \cup {o})
                     /\ IsWrite(v, S!EventKey(id), event.version, next)
                     /\ \/ next = None
                        \/ /\ next # None /\ next.content = b.content
                           /\ S!Above(next.auth, event.auth)
    <3>1. CASE S!Above(b.revision, S!Winner(event)) /\ S!Transact(c, {repair} \cup {o})
      <4>1. b.revision # event.auth
        <5>1. S!Winner(event) = event.auth /\ event.auth \in S!Revision
          BY <1>3, EventIs DEF S!EventRow
        <5> QED
          BY <3>1, <5>1, AuthorityOrders
      <4> HIDE DEF repair, o
      <4>2. \E next : /\ IsWrite(repair, S!EventKey(id), event.version, next)
                      /\ next # None /\ next.content = b.content
                      /\ S!Above(next.auth, event.auth)
        BY <1>2, <4>1, RepairedIs DEF repair
      <4> QED
        BY <3>1, <4>2
    <3>2. CASE S!Transact(c, {check} \cup {o})
      <4>1. event # None /\ event.version \in Nat /\ S!EventKey(id) \in S!Keys
        BY <1>3, CopyExists, KeysOf
      <4>2. IsWrite(check, S!EventKey(id), event.version, None)
        BY <1>3, <4>1, CheckIs
      <4> HIDE DEF check, o
      <4> QED
        BY <3>2, <4>2
    <3> QED
      BY <1>6, <3>1, <3>2
  <2> HIDE DEF o
  <2>4. PICK v, next : /\ S!Transact(c, {v} \cup {o})
                       /\ IsWrite(v, S!EventKey(id), event.version, next)
                       /\ \/ next = None
                          \/ /\ next # None /\ next.content = b.content
                             /\ S!Above(next.auth, event.auth)
    BY <2>3
  <2> DEFINE plan == {v} \cup {o}
  <2>5. v \in plan /\ \A w \in plan : w = v \/ ClaimWrite(w, id, i)
    BY <2>2
  <2>6. \A w1, w2 \in plan : w1.key = w2.key => w1 = w2
    BY <2>2, <2>4, KeysApart DEF IsWrite
  <2> HIDE DEF plan
  <2>7. plan \in Plans /\ Plan(plan) /\ (S!Holds(plan) => Justified(call[c], plan))
    <3> HIDE DEF id, i
    <3> QED
      BY <1>2, <1>6, <2>4, <2>5, <2>6, BootstrapPlan
  <2> QED
    BY <1>1, <1>3, <2>4, <2>7, Transacts DEF plan
<1> QED
  BY <1>1, <1>4, <1>5, <1>6

LEMMA ReadPreviousKeeps ==
  ASSUME StoreInv, NEW c \in Callers, S!ReadPrevious(c)
  PROVE  StoreInv'
<1>0. PICK b, claim, event : b = call[c].in /\ claim = call[c].claim /\ event = call[c].event
  OBVIOUS
<1> DEFINE id == b.id
           i == Identity(b.content)
           old == Identity(event.content)
           rel == ClaimReleased(old)
           take == ClaimTaken(i, id, claim)
           v == S!Repaired(c)
           plan == {v} \cup {rel} \cup {take}
<1>1. /\ call[c].pc = "previous" /\ UNCHANGED <<stored, calls, repaired>>
      /\ \/ S!End(c)
         \/ CandidatesOf(old) = {id} /\ S!Transact(c, plan)
  BY <1>0 DEF S!ReadPrevious, S!ReleaseClaim, S!TakeClaim, Identity, ClaimReleased, ClaimTaken, CandidatesOf
<1>2. Owning(c, b, id, i, claim, event)
  BY <1>0, <1>1, OwningIs
<1>3. /\ call[c].op = "bootstrap" /\ call[c].in = b /\ b \in S!Bootstrap /\ id \in Ids
      /\ claim \in S!ClaimRow \cup {None} /\ i \in Identities
      /\ S!Candidates(claim) \subseteq {id} /\ Copied(S!ClaimKey(i), claim) /\ Fit
      /\ event \in Event
      /\ b.revision = event.auth => event.content = b.content
  BY <1>2, CallIs DEF Owning, Claimant
<1>4. CASE S!End(c)
  BY <1>1, <1>4, IdleCall, Proceeds DEF S!End
<1>5. ASSUME CandidatesOf(old) = {id}, S!Transact(c, plan) PROVE StoreInv'
  <2>1. old # i
    <3>1. PICK l : l = call[c]
      OBVIOUS
    <3>2. Identity(l.event.content) # Identity(l.in.content)
      BY <1>1, <3>1, CallIs DEF CallInv, Bootstrapping
    <3> QED
      BY <1>0, <3>1, <3>2
  <2>2. b.revision # event.auth /\ old \in Identities
    <3>1. event.content # b.content
      BY <2>1
    <3>2. event.content \in Contents
      BY <1>3, EventIs DEF S!EventRow
    <3> QED
      BY <1>3, <3>1, <3>2, IdentityIs
  <2>3. \E row : /\ IsWrite(rel, S!ClaimKey(old), S!Version(S!ClaimKey(old)), row)
                 /\ row.ids = {} /\ row # None
    BY <1>3, <2>2, ClaimReleasedIs
  <2>4. \E row : /\ IsWrite(take, S!ClaimKey(i), S!Expected(claim), row)
                 /\ row.ids = {id} /\ row # None
    BY <1>3, ClaimTakenIs
  <2> HIDE DEF id, i, old, v
  <2>5. PICK next : /\ IsWrite(v, S!EventKey(id), event.version, next)
                    /\ next # None /\ next.content = b.content
                    /\ S!Above(next.auth, event.auth)
    BY <1>2, <2>2, RepairedIs DEF v
  <2>6. v \in plan /\ rel \in plan /\ take \in plan /\ \A w \in plan : w = v \/ w = rel \/ w = take
    OBVIOUS
  <2> HIDE DEF plan, rel, take
  <2>7. ClaimWrite(rel, id, i)
    BY <1>5, <2>1, <2>2, <2>3, KeysApart DEF IsWrite, ClaimWrite
  <2>8. ClaimWrite(take, id, i)
    <3>1. take.expect = S!Version(take.key) => CandidatesOf(i) \subseteq {id}
      <4> SUFFICES ASSUME take.expect = S!Version(take.key)
                   PROVE  CandidatesOf(i) \subseteq {id}
        OBVIOUS
      <4>1. S!Expected(claim) = S!Version(S!ClaimKey(i))
        BY <2>4 DEF IsWrite
      <4>2. stored[S!ClaimKey(i)] = claim
        BY <1>3, <4>1 DEF Copied
      <4> QED
        BY <1>3, <4>2 DEF CandidatesOf
    <3> QED
      BY <1>3, <2>4, <3>1 DEF IsWrite, ClaimWrite
  <2>9. Relocates(plan, id, old, i)
    BY <2>3, <2>4, <2>6 DEF IsWrite, Relocates, Writes
  <2>10. \A w1, w2 \in plan : w1.key = w2.key => w1 = w2
    BY <2>1, <2>3, <2>4, <2>5, <2>6, KeysApart DEF IsWrite
  <2>11. plan \in Plans /\ Plan(plan) /\ (S!Holds(plan) => Justified(call[c], plan))
    BY <1>2, <2>5, <2>6, <2>7, <2>8, <2>9, <2>10, BootstrapPlan DEF old
  <2> QED
    BY <1>1, <1>3, <1>5, <2>11, Transacts
<1> QED
  BY <1>1, <1>4, <1>5

-----------------------------------------------------------------------------
LEMMA StoreCommitKeeps ==
  ASSUME StoreInv, NEW c \in Callers, S!Commit(c)
  PROVE  StoreInv'
<1>1. /\ call[c].pc = "transact" /\ S!End(c) /\ UNCHANGED calls
      /\ IF S!Holds(call[c].plan)
         THEN /\ stored' = S!Applied(call[c].plan)
              /\ repaired' = IF call[c].op = "bootstrap" /\ stored' # stored
                             THEN repaired \cup {call[c].in.id} ELSE repaired
         ELSE UNCHANGED <<stored, repaired>>
  BY DEF S!Commit
<1>2. PICK l : l = call[c]
  OBVIOUS
<1>3. Transacting(l) /\ Fit /\ Indexed /\ Bound /\ Pointed /\ repaired \subseteq Ids
  BY <1>2, CallIs DEF CallInv, StoreInv, TableInv, Counted
<1>4. CASE ~S!Holds(l.plan)
  BY <1>1, <1>2, <1>4, IdleCall, Proceeds DEF S!End
<1>5. CASE S!Holds(l.plan)
  <2>1. PICK plan : plan = l.plan
    OBVIOUS
  <2>2. Plan(plan) /\ Justified(l, plan) /\ S!Holds(plan)
        /\ (l.op = "bootstrap" => l.in \in S!Bootstrap)
    BY <1>1, <1>2, <1>3, <1>5, <2>1 DEF Transacting
  <2>3. /\ stored' = S!Applied(plan)
        /\ repaired' = IF l.op = "bootstrap" /\ stored' # stored
                       THEN repaired \cup {l.in.id} ELSE repaired
    BY <1>1, <1>2, <1>5, <2>1
  <2>4. Carried(plan) /\ Raised
    BY <1>3, <2>2, <2>3, Applies
  <2>5. Indexed' /\ Bound' /\ Pointed'
    BY <1>3, <2>2, <2>3, <2>4, CommitIndexed, CommitBound, CommitPointed
  <2>6. repaired' \subseteq Ids
    BY <1>3, <2>2, <2>3 DEF S!Bootstrap
  <2>7. call' = [call EXCEPT ![c] = S!Idle] /\ call[c].pc # "idle"
    BY <1>1 DEF S!End
  <2> QED
    BY <1>1, <2>4, <2>5, <2>6, <2>7, Ends
<1> QED
  BY <1>4, <1>5

LEMMA StoreNextKeeps ==
  ASSUME StoreInv, S!Next
  PROVE  StoreInv'
BY CallIngestKeeps, ResolveIdentityKeeps, ReadEventKeeps, WeighKeeps, PrepareKeeps,
   CallBootstrapKeeps, InsertEventKeeps, ReadExistingKeeps, ReadOwnerKeeps, ReadPreviousKeeps,
   StoreCommitKeeps DEF S!Next

LEMMA StoreRests ==
  ASSUME StoreInv, UNCHANGED storeVars
  PROVE  StoreInv'
<1>1. UNCHANGED <<stored, repaired>> /\ UNCHANGED call /\ UNCHANGED calls
  BY DEF storeVars
<1>2. Raised /\ Fit
  BY <1>1, RestIsRaised DEF StoreInv, TableInv
<1>3. Fit' /\ Indexed' /\ Bound' /\ Pointed'
  BY <1>1, TableRests
<1>4. Counted' /\ Typed'
  <2>1. \A k \in S!Keys : S!Version(k)' = S!Version(k)
    BY <1>1 DEF S!Version
  <2>2. Active' = Active
    BY <1>1 DEF Active
  <2> QED
    BY <1>1, <2>1, <2>2 DEF StoreInv, TableInv, Counted, Typed
<1>5. ASSUME NEW c \in Callers PROVE CallInv(call[c])'
  <2>1. PICK l : l = call[c] /\ l = call'[c]
    BY <1>1
  <2>2. CallInv(l) /\ l \in Locals
    BY <2>1, CallIs
  <2>3. CallInv(l)'
    BY <1>2, <2>2, CallStays
  <2> QED
    BY <2>1, <2>3
<1> QED
  BY <1>3, <1>4, <1>5 DEF StoreInv, TableInv

\* A store in which one event has been bootstrapped and its provider event mapped.
LEMMA CreatedIs ==
  ASSUME NEW id \in Ids, NEW e \in ProviderEvents, NEW content \in Contents,
         stored = S!Created(id, e, content)
  PROVE  /\ \E row \in Event : stored[S!EventKey(id)] = row /\ row.content = content
                               /\ row.version = 1
         /\ stored[S!PointerKey(id)] = [version |-> 1]
         /\ stored[S!ClaimKey(Identity(content))] = [ids |-> {id}, version |-> 1]
         /\ stored[S!MappingKey(e)] = [event |-> id, version |-> 1]
         /\ \A k \in S!Keys : \/ k = S!EventKey(id) \/ k = S!PointerKey(id)
                              \/ k = S!ClaimKey(Identity(content)) \/ k = S!MappingKey(e)
                              \/ stored[k] = None
<1> DEFINE r == [prov |-> ProviderOf[e], n |-> 1]
           row == [content |-> content, auth |-> r, boot |-> r,
                   revs |-> [p \in Providers |-> 0], version |-> 1]
           b == [id |-> id, content |-> content, revision |-> r]
           k1 == S!EventKey(id)
           k2 == S!PointerKey(id)
           k3 == S!ClaimKey(Identity(content))
           k4 == S!MappingKey(e)
           v2 == [version |-> 1]
           v3 == [ids |-> {id}, version |-> 1]
           v4 == [event |-> id, version |-> 1]
<1>1. stored = [S!Missing EXCEPT ![k1] = row, ![k2] = v2, ![k3] = v3, ![k4] = v4]
  BY DEF S!Created, Identity
<1>2. k1 \in S!Keys /\ k2 \in S!Keys /\ k3 \in S!Keys /\ k4 \in S!Keys
  BY KeysOf, IdentityIs
<1>3. k1 # k2 /\ k1 # k3 /\ k1 # k4 /\ k2 # k3 /\ k2 # k4 /\ k3 # k4
  BY KeysApart
<1>4. S!Missing = [k \in S!Keys |-> None]
  BY DEF S!Missing
<1>5. row \in Event /\ row.content = content /\ row.version = 1
  <2>1. b \in S!Bootstrap
    BY StoreConstants DEF S!StoreAssumption, S!Bootstrap, S!Revision
  <2>2. b.content = content /\ b.revision = r
    OBVIOUS
  <2>3. row = Inserted(b)
    BY <2>2 DEF Inserted
  <2> HIDE DEF row, b
  <2> QED
    BY <2>1, <2>2, <2>3, InsertedIs
<1> HIDE DEF row, k1, k2, k3, k4, v2, v3, v4
<1>6. stored[k1] = row /\ stored[k2] = v2 /\ stored[k3] = v3 /\ stored[k4] = v4
      /\ \A k \in S!Keys : k = k1 \/ k = k2 \/ k = k3 \/ k = k4 \/ stored[k] = None
  BY <1>1, <1>2, <1>3, <1>4
<1> QED
  BY <1>5, <1>6 DEF k1, k2, k3, k4, v2, v3, v4

LEMMA StoreInitEstablishes ==
  ASSUME S!Init
  PROVE  StoreInv
<1>1. call = [c \in Callers |-> S!Idle] /\ calls = 0 /\ repaired = {}
  BY DEF S!Init
<1>2. Typed /\ \A c \in Callers : CallInv(call[c])
  <2>1. PICK l \in Locals : l = S!Idle /\ CallInv(l)
    BY IdleCall
  <2>2. call = [c \in Callers |-> l]
    BY <1>1, <2>1
  <2>3. \A c \in Callers : call[c] = l
    BY <2>2
  <2>4. Typed
    BY <2>2 DEF Typed
  <2> QED
    BY <2>1, <2>3, <2>4
<1>3. IsFiniteSet(Active) /\ Cardinality(Active) = 0
  <2>1. Active = {}
    BY <1>1 DEF Active, S!Idle
  <2> QED
    BY <2>1, FS_EmptySet
<1>4. ASSUME \A k \in S!Keys : S!Version(k) \in 0 .. 1 PROVE Counted
  <2>1. 0 \in 0 .. MaxCalls
    BY StoreConstants DEF S!StoreAssumption
  <2> QED
    BY <1>1, <1>3, <1>4, <2>1 DEF Counted
<1>5. ASSUME NEW k \in S!Keys, stored[k] = None PROVE S!Version(k) = 0
  BY <1>5 DEF S!Version
<1>6. CASE stored = S!Missing
  <2>1. \A k \in S!Keys : stored[k] = None
    BY <1>6 DEF S!Missing
  <2>2. Fit /\ Counted
    BY <1>4, <1>5, <2>1 DEF Fit
  <2>3. (\A i \in Identities : CandidatesOf(i) = {}) /\ \A id \in Ids : ~S!Exists(id)
    BY <2>1, KeysOf DEF CandidatesOf, S!Candidates, S!Exists, S!EventOf
  <2>4. Indexed
    BY <2>3 DEF Indexed
  <2>5. Bound /\ Pointed
    BY <2>1, <2>3, KeysOf DEF Bound, Pointed, S!PointerFollows
  <2> QED
    BY <1>2, <2>2, <2>4, <2>5 DEF StoreInv, TableInv
<1>7. ASSUME NEW id \in Ids, NEW e \in ProviderEvents, NEW content \in Contents,
             stored = S!Created(id, e, content)
      PROVE  StoreInv
  <2> DEFINE i == Identity(content)
  <2>0. i \in Identities
    BY IdentityIs
  <2>1. /\ \E row \in Event : stored[S!EventKey(id)] = row /\ row.content = content
                              /\ row.version = 1
        /\ stored[S!PointerKey(id)] = [version |-> 1]
        /\ stored[S!ClaimKey(i)] = [ids |-> {id}, version |-> 1]
        /\ stored[S!MappingKey(e)] = [event |-> id, version |-> 1]
        /\ \A k \in S!Keys : \/ k = S!EventKey(id) \/ k = S!PointerKey(id)
                             \/ k = S!ClaimKey(i) \/ k = S!MappingKey(e)
                             \/ stored[k] = None
    BY <1>7, CreatedIs
  <2> HIDE DEF i
  <2>2. PICK row \in Event : stored[S!EventKey(id)] = row /\ row.content = content
                             /\ row.version = 1
    BY <2>1
  <2>3. row # None /\ stored[S!PointerKey(id)] \in S!PointerRow
        /\ stored[S!ClaimKey(i)] \in S!ClaimRow /\ stored[S!MappingKey(e)] \in S!MappingRow
    BY <2>1, Kinds DEF S!PointerRow, S!ClaimRow, S!MappingRow, S!Versions
  <2>4. \A k \in S!Keys : stored[k] = None \/ (Fits(k, stored[k]) /\ stored[k].version = 1)
    <3> TAKE k \in S!Keys
    <3>1. CASE k = S!EventKey(id)
      BY <2>2, <3>1, FitsKinds
    <3>2. CASE k = S!PointerKey(id)
      BY <2>1, <2>3, <3>2, FitsKinds
    <3>3. CASE k = S!ClaimKey(i)
      BY <2>0, <2>1, <2>3, <3>3, FitsKinds
    <3>4. CASE k = S!MappingKey(e)
      BY <2>1, <2>3, <3>4, FitsKinds
    <3> QED
      BY <2>1, <3>1, <3>2, <3>3, <3>4
  <2>5. Fit /\ Counted
    <3>1. \A k \in S!Keys : S!Version(k) \in 0 .. 1
      BY <2>4 DEF S!Version
    <3> QED
      BY <1>4, <2>4, <3>1 DEF Fit
  <2>6. \A jd \in Ids : S!Exists(jd) <=> jd = id
    <3>1. S!Exists(id)
      BY <2>2, <2>3 DEF S!Exists, S!EventOf
    <3>2. ASSUME NEW jd \in Ids, jd # id PROVE stored[S!EventKey(jd)] = None
      <4>1. /\ S!EventKey(jd) # S!EventKey(id) /\ S!EventKey(jd) # S!PointerKey(id)
            /\ S!EventKey(jd) # S!ClaimKey(i) /\ S!EventKey(jd) # S!MappingKey(e)
            /\ S!EventKey(jd) \in S!Keys
        BY <3>2, KeysApart, KeysOf
      <4> QED
        BY <2>1, <4>1
    <3> QED
      BY <3>1, <3>2 DEF S!Exists, S!EventOf
  <2>7. \A j \in Identities : CandidatesOf(j) = IF j = i THEN {id} ELSE {}
    <3> TAKE j \in Identities
    <3>1. CASE j = i
      <4>1. stored[S!ClaimKey(i)] # None /\ stored[S!ClaimKey(i)].ids = {id}
        BY <2>1, <2>3, Kinds
      <4> QED
        BY <3>1, <4>1 DEF CandidatesOf, S!Candidates
    <3>2. CASE j # i
      <4>1. stored[S!ClaimKey(j)] = None
        BY <2>1, <3>2, KeysApart, KeysOf
      <4> QED
        BY <3>2, <4>1 DEF CandidatesOf, S!Candidates
    <3> QED
      BY <3>1, <3>2
  <2>8. Indexed
    BY <2>2, <2>6, <2>7 DEF Indexed, S!EventOf, i
  <2>9. Bound
    <3>1. \A e0 \in ProviderEvents : stored[S!MappingKey(e0)] # None => e0 = e
      BY <2>1, KeysApart, KeysOf
    <3> QED
      BY <2>1, <2>6, <3>1 DEF Bound
  <2>10. Pointed
    <3>1. \A jd \in Ids : stored[S!PointerKey(jd)] # None => jd = id
      BY <2>1, KeysApart, KeysOf
    <3>2. stored[S!PointerKey(id)] # None /\ stored[S!PointerKey(id)].version = 1
      BY <2>1, <2>3, Kinds
    <3> QED
      BY <2>2, <2>6, <3>1, <3>2 DEF Pointed, S!PointerFollows, S!EventOf
  <2> QED
    BY <1>2, <2>5, <2>8, <2>9, <2>10 DEF StoreInv, TableInv
<1> QED
  BY <1>6, <1>7 DEF S!Init

-----------------------------------------------------------------------------
(* What the invariant says of the store, and its steps.                    *)
LEMMA StoreTypes ==
  ASSUME StoreInv
  PROVE  S!TypeOK
<1>1. Fit /\ calls \in 0 .. MaxCalls /\ repaired \subseteq Ids /\ IsFiniteSet(Active)
      /\ \A k \in S!Keys : S!Version(k) + Cardinality(Active) <= calls + 1
  BY DEF StoreInv, TableInv, Counted
<1>2. ASSUME NEW id \in Ids, S!Exists(id)
      PROVE  /\ S!EventOf(id).content \in Contents
             /\ {S!EventOf(id).auth, S!EventOf(id).boot} \subseteq S!Revision
             /\ S!EventOf(id).revs \in [Providers -> 0 .. MaxRevision]
  <2>1. S!EventOf(id) \in Event
    BY <1>1, <1>2, TableRows DEF S!Exists, S!EventOf
  <2> QED
    BY <2>1, EventIs DEF S!EventRow
<1>3. ASSUME NEW k \in S!Keys, stored[k] # None
      PROVE  stored[k].version \in 1 .. MaxCalls + 1
  <2>1. stored[k].version = S!Version(k) /\ S!Version(k) \in Nat /\ S!Version(k) # 0
    BY <1>1, <1>3, VersionIs
  <2>2. Cardinality(Active) \in Nat /\ MaxCalls \in Nat
    BY <1>1, FS_CardinalityType, StoreConstants DEF S!StoreAssumption
  <2> QED
    BY <1>1, <2>1, <2>2
<1> QED
  BY <1>1, <1>2, <1>3 DEF S!TypeOK

LEMMA StoreAgrees ==
  ASSUME StoreInv
  PROVE  S!ClaimsAgree /\ S!AuthorityIsWinner /\ S!PointerFollows
<1>1. Fit /\ Indexed /\ Pointed
  BY DEF StoreInv, TableInv
<1>2. ASSUME NEW i \in Identities PROVE S!Cardinality(CandidatesOf(i)) <= 1
  <2>1. CASE CandidatesOf(i) = {}
    BY <2>1, FS_EmptySet, StoreSets
  <2>2. CASE \E id : id \in CandidatesOf(i)
    <3>1. PICK id : id \in CandidatesOf(i)
      BY <2>2
    <3>2. CandidatesOf(i) = {id}
      BY <1>1, <3>1 DEF Indexed
    <3>3. S!Cardinality(CandidatesOf(i)) = 1
      BY <3>2, FS_Singleton, StoreSets
    <3> QED
      BY <3>3
  <2> QED
    BY <2>1, <2>2
<1>3. S!ClaimsAgree
  BY <1>1, <1>2 DEF S!ClaimsAgree, Indexed, CandidatesOf, Identity
<1>4. S!AuthorityIsWinner
  <2> SUFFICES ASSUME NEW id \in Ids, S!Exists(id)
               PROVE  S!EventOf(id).auth = S!Winner(S!EventOf(id))
    BY DEF S!AuthorityIsWinner
  <2>1. S!EventOf(id) \in Event
    BY <1>1, TableRows DEF S!Exists, S!EventOf
  <2> QED
    BY <2>1, EventIs
<1> QED
  BY <1>1, <1>3, <1>4 DEF Pointed

\* The three promises of a step (ContentNeedsAuthority, BoundToOwner, RevisionsRise).
ContentStep ==
    \A id \in Ids :
        S!Exists(id) /\ S!EventOf(id)'.content # S!EventOf(id).content
            => S!Above(S!EventOf(id)'.auth, S!EventOf(id).auth)
BoundStep ==
    \A e \in ProviderEvents :
        stored'[S!MappingKey(e)] # stored[S!MappingKey(e)] =>
            /\ stored[S!MappingKey(e)] = None
            /\ \E c \in Callers :
                  /\ call[c].op = "ingest" /\ call[c].in.event = e
                  /\ S!Candidates(stored[S!ClaimKey(IdentityOf[call[c].in.content])])
                         = {stored'[S!MappingKey(e)].event}
RevisionsStep ==
    \A id \in Ids, p \in Providers :
        LET k == S!RevisionKey(id, p) IN
        stored[k] # None => stored'[k] # None /\ stored'[k].n >= stored[k].n

LEMMA StillStep ==
  ASSUME StoreInv, UNCHANGED stored
  PROVE  ContentStep /\ BoundStep /\ RevisionsStep
<1>1. ContentStep /\ BoundStep
  BY DEF ContentStep, BoundStep, S!EventOf, S!EventKey
<1>2. RevisionsStep
  <2>1. MaxRevision \in Nat
    BY StoreConstants DEF S!StoreAssumption
  <2>2. \A id \in Ids, p \in Providers :
           stored[S!RevisionKey(id, p)] # None => stored[S!RevisionKey(id, p)].n \in Nat
    BY <2>1, CallIs, TableRows DEF S!RevisionRow, StoreInv, TableInv
  <2> QED
    BY <2>2 DEF RevisionsStep
<1> QED
  BY <1>1, <1>2

LEMMA InsertStep ==
  ASSUME StoreInv, NEW c \in Callers, S!InsertEvent(c)
  PROVE  ContentStep /\ BoundStep /\ RevisionsStep
<1> DEFINE b == call[c].in
           k1 == S!EventKey(b.id)
           k2 == S!PointerKey(b.id)
           k3 == S!ClaimKey(Identity(b.content))
<1>1. \A w \in S!Insertion(c) : (w.key = k1 /\ w.expect = 0) \/ w.key = k2 \/ w.key = k3
  BY DEF S!Insertion, S!TakeClaim, S!Write, Identity
<1>2. CASE UNCHANGED stored
  BY <1>2, StillStep
<1>3. CASE S!Holds(S!Insertion(c)) /\ stored' = S!Applied(S!Insertion(c))
  <2>1. \A k \in S!Keys : stored'[k] = stored[k] \/ (k = k1 /\ stored[k] = None) \/ k = k2 \/ k = k3
    <3> TAKE k \in S!Keys
    <3>1. CASE \E w \in S!Insertion(c) : w.key = k
      <4>1. PICK w \in S!Insertion(c) : w.key = k
        BY <3>1
      <4>2. w.expect = S!Version(k)
        BY <1>3, <4>1 DEF S!Holds
      <4> QED
        BY <1>1, <4>1, <4>2, VersionIs DEF StoreInv, TableInv
    <3>2. CASE ~\E w \in S!Insertion(c) : w.key = k
      BY <1>3, <3>2 DEF S!Applied
    <3> QED
      BY <3>1, <3>2
  <2>2. \A id \in Ids : S!Exists(id) => stored'[S!EventKey(id)] = stored[S!EventKey(id)]
    BY <2>1, KeysApart, KeysOf DEF S!Exists, S!EventOf
  <2>3. ContentStep
    BY <2>2 DEF ContentStep, S!EventOf, S!EventKey
  <2>4. \A e \in ProviderEvents : stored'[S!MappingKey(e)] = stored[S!MappingKey(e)]
    BY <2>1, KeysApart, KeysOf
  <2>5. BoundStep
    BY <2>4 DEF BoundStep
  <2>6. \A id \in Ids, p \in Providers : stored'[S!RevisionKey(id, p)] = stored[S!RevisionKey(id, p)]
    BY <2>1, KeysApart, KeysOf
  <2>7. RevisionsStep
    <3>1. MaxRevision \in Nat
      BY StoreConstants DEF S!StoreAssumption
    <3>2. \A id \in Ids, p \in Providers :
             stored[S!RevisionKey(id, p)] # None => stored[S!RevisionKey(id, p)].n \in Nat
      BY <3>1, TableRows DEF S!RevisionRow, StoreInv, TableInv
    <3> QED
      BY <2>6, <3>2 DEF RevisionsStep
  <2> QED
    BY <2>3, <2>5, <2>7
<1> QED
  BY <1>2, <1>3 DEF S!InsertEvent

LEMMA CommitStep ==
  ASSUME StoreInv, NEW c \in Callers, S!Commit(c)
  PROVE  ContentStep /\ BoundStep /\ RevisionsStep
<1>1. PICK l : l = call[c]
  OBVIOUS
<1>2. /\ l.pc = "transact" /\ Fit /\ Transacting(l)
      /\ IF S!Holds(l.plan) THEN stored' = S!Applied(l.plan) ELSE UNCHANGED stored
  BY <1>1, CallIs DEF S!Commit, CallInv
<1>3. CASE UNCHANGED stored
  BY <1>3, StillStep
<1>4. CASE S!Holds(l.plan) /\ stored' = S!Applied(l.plan)
  <2>1. PICK plan : plan = l.plan
    OBVIOUS
  <2>2. Plan(plan) /\ Justified(l, plan) /\ S!Holds(plan) /\ stored' = S!Applied(plan)
    BY <1>2, <1>4, <2>1 DEF Transacting
  <2>3. Carried(plan) /\ Raised
    BY <1>2, <2>2, Applies
  <2>4. ContentStep
    <3> SUFFICES ASSUME NEW id \in Ids, S!Exists(id),
                        S!EventOf(id)'.content # S!EventOf(id).content
                 PROVE  S!Above(S!EventOf(id)'.auth, S!EventOf(id).auth)
      BY DEF ContentStep
    <3>1. PICK w \in plan : w.key = S!EventKey(id) /\ w.row # None /\ S!EventOf(id)' = w.row
      BY <1>2, <2>2, <2>3, CommitEvents
    <3> QED
      BY <2>2, <3>1 DEF Justified, EventsJust
  <2>5. BoundStep
    <3> SUFFICES ASSUME NEW e \in ProviderEvents,
                        stored'[S!MappingKey(e)] # stored[S!MappingKey(e)]
                 PROVE  /\ stored[S!MappingKey(e)] = None
                        /\ l.op = "ingest" /\ l.in.event = e
                        /\ S!Candidates(stored[S!ClaimKey(IdentityOf[l.in.content])])
                              = {stored'[S!MappingKey(e)].event}
      BY <1>1 DEF BoundStep
    <3>1. Writes(plan, S!MappingKey(e))
      BY <2>3, KeysOf DEF Carried
    <3>2. PICK w \in plan : w.key = S!MappingKey(e) /\ w.row # None
      BY <3>1 DEF Writes
    <3>3. stored'[S!MappingKey(e)] = w.row
      BY <2>3, <3>2 DEF Carried
    <3> QED
      BY <2>2, <3>2, <3>3 DEF Justified, MappingsJust, Identity
  <2>6. RevisionsStep
    <3> SUFFICES ASSUME NEW id \in Ids, NEW p \in Providers, stored[S!RevisionKey(id, p)] # None
                 PROVE  /\ stored'[S!RevisionKey(id, p)] # None
                        /\ stored'[S!RevisionKey(id, p)].n >= stored[S!RevisionKey(id, p)].n
      BY DEF RevisionsStep
    <3> DEFINE k == S!RevisionKey(id, p)
    <3>1. k \in S!Keys /\ MaxRevision \in Nat
      BY KeysOf, StoreConstants DEF S!StoreAssumption
    <3>2. stored'[k] # None
      BY <1>2, <2>3, <3>1, RaisedRow
    <3>3. Fit'
      BY <1>2, <2>3, RaisedFits
    <3>4. stored[k] \in S!RevisionRow
      BY <1>2, TableRows
    <3>5. stored[k].n \in Nat
      BY <3>1, <3>4 DEF S!RevisionRow
    <3>6. stored'[k].n \in Nat
      <4>1. Fits(k, stored'[k])
        BY <3>1, <3>2, <3>3 DEF Fit, Fits
      <4>2. stored'[k] \in S!RevisionRow
        BY <4>1 DEF Fits
      <4> QED
        BY <3>1, <4>2 DEF S!RevisionRow
    <3>7. CASE Writes(plan, k)
      <4>1. PICK w \in plan : w.key = k /\ w.row # None
        BY <3>7 DEF Writes
      <4>2. stored[k].n <= w.row.n /\ stored'[k] = w.row
        BY <2>2, <2>3, <4>1 DEF Justified, RevisionsJust, Carried
      <4> QED
        BY <3>2, <3>5, <3>6, <4>2
    <3>8. CASE ~Writes(plan, k)
      <4>1. stored'[k] = stored[k]
        BY <2>3, <3>1, <3>8 DEF Carried
      <4> QED
        BY <3>2, <3>5, <4>1
    <3> QED
      BY <3>7, <3>8
  <2> QED
    BY <2>4, <2>5, <2>6
<1> QED
  BY <1>2, <1>3, <1>4

LEMMA StoreSteps ==
  ASSUME StoreInv, [S!Next]_storeVars
  PROVE  ContentStep /\ BoundStep /\ RevisionsStep
<1>1. ASSUME NEW c \in Callers,
             \/ S!CallIngest(c) \/ S!ResolveIdentity(c) \/ S!ReadEvent(c) \/ S!Weigh(c)
             \/ S!Prepare(c) \/ S!CallBootstrap(c) \/ S!ReadExisting(c) \/ S!ReadOwner(c)
             \/ S!ReadPrevious(c)
      PROVE  UNCHANGED stored
  BY <1>1 DEF S!CallIngest, S!Begin, S!ResolveIdentity, S!ReadEvent, S!Weigh, S!Prepare,
              S!CallBootstrap, S!ReadExisting, S!ReadOwner, S!ReadPrevious
<1>2. CASE UNCHANGED storeVars
  BY <1>2, StillStep DEF storeVars
<1>3. CASE S!Next
  BY <1>1, <1>3, StillStep, InsertStep, CommitStep DEF S!Next
<1> QED
  BY <1>2, <1>3

-----------------------------------------------------------------------------
\* The store's invariant holds beside the walk and by itself.
LEMMA StoreInvariantHolds == MCSpec => []StoreInv
<1>1. MCInit => StoreInv
  BY StoreInitEstablishes DEF MCInit
<1>2. StoreInv /\ [MCNext]_<<part, vars, storeVars>> => StoreInv'
  <2> SUFFICES ASSUME StoreInv, [MCNext]_<<part, vars, storeVars>> PROVE StoreInv'
    OBVIOUS
  <2>1. CASE UNCHANGED storeVars
    BY <2>1, StoreRests
  <2>2. CASE S!Next
    BY <2>2, StoreNextKeeps
  <2> QED
    BY <2>1, <2>2 DEF MCNext, vars
<1> QED
  BY <1>1, <1>2, PTL DEF MCSpec

\* However reports, moves and bootstraps of any number of callers interleave, every event is
\* the one candidate of its identity and of no other, stands under the highest authority it
\* has accepted, and has its projection at its version unless a bootstrap has rewritten it
\* (ingestEvent and bootstrapCanonicalEvent).
THEOREM EventsAlwaysAgree == MCSpec => []EventsAgree
<1>1. StoreInv => EventsAgree
  BY StoreTypes, StoreAgrees DEF EventsAgree
<1> QED
  BY <1>1, StoreInvariantHolds, PTL

\* Every step of the store rewrites content only under a higher authority, binds a provider
\* event once and to the owner of the identity it was reported under, and never takes a
\* provider's revision back (compareAuthority and the version conditions of transactions).
THEOREM EventsAlwaysRise == MCSpec => EventsRise
<1>1. StoreInv /\ [MCNext]_<<part, vars, storeVars>> =>
         [ContentStep]_S!vars /\ [BoundStep]_S!vars /\ [RevisionsStep]_S!vars
  <2> SUFFICES ASSUME StoreInv, [MCNext]_<<part, vars, storeVars>>
               PROVE  ContentStep /\ BoundStep /\ RevisionsStep
    OBVIOUS
  <2>1. [S!Next]_storeVars
    BY DEF MCNext, storeVars
  <2> QED
    BY <2>1, StoreSteps
<1>2. MCSpec => /\ [][ContentStep]_S!vars /\ [][BoundStep]_S!vars /\ [][RevisionsStep]_S!vars
  BY <1>1, StoreInvariantHolds, PTL DEF MCSpec
<1> QED
  BY <1>2, PTL DEF EventsRise, S!ContentNeedsAuthority, S!BoundToOwner, S!RevisionsRise,
                   ContentStep, BoundStep, RevisionsStep
==============================================================================
