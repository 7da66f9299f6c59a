---------------------------- MODULE PipelineProofs ----------------------------
(***************************************************************************)
(* What the scheduled pipelines of MCPipelines guarantee for any clock,    *)
(* number of candidates, bets, runs and results, and for any rows, pages,  *)
(* plans, answers and numbers of sweeps and faults of the landing streams, *)
(* and workers, cursors and events of the upcoming walk.                   *)
(***************************************************************************)
EXTENDS MCPipelines, FiniteSetTheorems, SequenceTheorems, TLAPS

-----------------------------------------------------------------------------
(* The life of an opportunity.                                             *)

Busy == {"event", "head", "commit", "heal"}

RunType ==
  [pc : {"idle", "evaluate"} \cup Busy, asOf : H!Times, candidate : H!Candidate \cup {None},
   from : Nat, evidence : H!Evidence \cup {None}, read : H!Head \cup {None}, attempts : 0 .. 2]

\* What a run may rely on.
RunOK(r, saved) ==
  /\ r \in RunType
  /\ r.candidate \in saved \cup {None}
  /\ r.pc \in Busy => r.candidate \in saved
  /\ r.pc \in Busy \ {"event"} => r.evidence \in H!Evidence
  /\ r.pc = "heal" => r.read # None /\ r.read.candidate \in saved

\* The head a run is about to replace is not closed, and of an older candidate or, if the run
\* is a sweep, the same.
Overtakes(a, r) ==
  r.pc = "commit" /\ r.read # None =>
    /\ r.read.state # "closed"
    /\ \/ r.read.candidate.at < r.candidate.at
       \/ r.read.candidate = r.candidate /\ a = "sweep"

\* The head a sweep set out from is still there, active, or has a newer candidate.
Follows(r) ==
  r.pc \in Busy =>
    /\ head # None
    /\ \/ r.candidate.at < head.candidate.at
       \/ r.candidate = head.candidate /\ head.state = "active"

\* A candidate that was given up is an older one, or the head's while it is not active.
RetiredOK ==
  \A c \in retired :
    /\ c \in persisted /\ head # None
    /\ \/ c.at < head.candidate.at
       \/ c = head.candidate /\ head.state # "active"

LifeRows ==
  /\ now \in H!Times
  /\ event \in [version : {1, 2}, at : H!Times, over : BOOLEAN]
  /\ persisted \subseteq H!Candidate
  /\ head \in H!Head \cup {None} /\ (head # None => head.candidate \in persisted)
  /\ rank \in H!Rank \cup {None}
  /\ H!RankFollowsHead

LifeInv ==
  /\ LifeRows
  /\ work \in [H!Actors -> RunType]
  /\ \A a \in H!Actors : RunOK(work[a], persisted) /\ Overtakes(a, work[a])
  /\ work["sweep"].pc # "evaluate"
  /\ Follows(work["sweep"]) /\ RetiredOK

LEMMA LifeConstants ==
  /\ StartsAt \in Nat /\ PriceAge \in Nat /\ EventAge \in Nat /\ LastTime \in Nat
  /\ "qualified" \in Statuses
  /\ Statuses \subseteq {"qualified", "disqualified", "stale", "suspended"}
  /\ None \notin H!Candidate /\ None \notin H!Head /\ None \notin H!Rank
BY PipelinesAssumption DEF H!LifecycleAssumption, H!Candidate, H!Head, H!Rank, H!Times,
   H!Evidence, H!Actors, H!States


LEMMA LifeInit == ASSUME H!Init PROVE LifeInv
<1>1. LifeRows
  <2> DEFINE c == [at |-> 0, prices |-> 0, status |-> "qualified"]
  <2>1. c \in H!Candidate /\ 0 \in H!Times
    BY LifeConstants DEF H!Candidate, H!Times
  <2>2. H!Expires(c) \in 0 .. LastTime + StartsAt + 1
    BY LifeConstants DEF H!Expires, H!Min2
  <2>3. [kind |-> "current", version |-> 1, at |-> 0] \in H!Evidence
    BY <2>1 DEF H!Evidence
  <2>4. head # None => persisted = {c} /\ head.candidate = c /\ head \in H!Head
    BY <2>1, <2>2, <2>3 DEF H!Init, H!Head, H!States
  <2> HIDE DEF c
  <2>5. persisted \subseteq H!Candidate
    BY <2>1, <2>4 DEF H!Init, c
  <2> QED
    BY <2>1, <2>4, <2>5 DEF H!Init, LifeRows, H!RankFollowsHead
<1>2. work = [a \in H!Actors |-> H!Idle] /\ retired = {}
  BY DEF H!Init
<1>3. RunOK(H!Idle, persisted)
  BY LifeConstants DEF RunOK, RunType, H!Idle, H!Times, Busy
<1>4. ASSUME NEW a \in H!Actors PROVE RunOK(work[a], persisted) /\ Overtakes(a, work[a])
  BY <1>2, <1>3 DEF Overtakes, H!Idle
<1>5. work["sweep"].pc = "idle"
  BY <1>2 DEF H!Actors, H!Idle
<1> QED
  BY <1>1, <1>2, <1>3, <1>4, <1>5 DEF LifeInv, Follows, RetiredOK, RunOK, Busy

\* A run moves on, and no row does.
LEMMA RunMoves ==
  ASSUME LifeInv, NEW a \in H!Actors, NEW r,
         persisted \subseteq persisted', persisted' \subseteq H!Candidate,
         RunOK(r, persisted'), Overtakes(a, r),
         a = "sweep" => r.pc # "evaluate" /\ Follows(r),
         H!Become(a, r), UNCHANGED <<now, event, head, rank, retired>>
  PROVE  LifeInv'
<1>1. /\ work' \in [H!Actors -> RunType]
      /\ work'[a] = r /\ \A b \in H!Actors \ {a} : work'[b] = work[b]
  BY DEF LifeInv, H!Become, RunOK
<1>2. ASSUME NEW b \in H!Actors PROVE RunOK(work'[b], persisted') /\ Overtakes(b, work'[b])
  <2>1. CASE b = a
    BY <1>1, <2>1
  <2>2. CASE b # a
    <3>1. work'[b] = work[b] /\ RunOK(work[b], persisted) /\ Overtakes(b, work[b])
      BY <1>1, <2>2 DEF LifeInv
    <3>2. RunOK(work[b], persisted')
      BY <3>1 DEF RunOK
    <3> QED
      BY <3>1, <3>2
  <2> QED
    BY <2>1, <2>2
<1>3. LifeRows'
  <2>1. LifeRows
    BY DEF LifeInv
  <2> QED
    BY <2>1 DEF LifeRows, H!RankFollowsHead
<1>4. RetiredOK'
  <2>1. RetiredOK
    BY DEF LifeInv
  <2> QED
    BY <2>1 DEF RetiredOK
<1>5. work'["sweep"].pc # "evaluate" /\ Follows(work'["sweep"])
  BY <1>1 DEF LifeInv, H!Actors
<1>6. Follows(work["sweep"])'
  BY <1>5 DEF Follows
<1> QED
  BY <1>1, <1>2, <1>3, <1>4, <1>5, <1>6 DEF LifeInv, Overtakes

\* A run is over.
LEMMA RunReturns ==
  ASSUME LifeInv, NEW a \in H!Actors, H!Return(a),
         UNCHANGED <<now, event, persisted, head, rank, retired>>
  PROVE  LifeInv'
<1>1. RunOK(H!Idle, persisted)
  BY LifeConstants DEF RunOK, RunType, H!Idle, H!Times, Busy
<1>2. Overtakes(a, H!Idle) /\ Follows(H!Idle) /\ H!Idle.pc = "idle"
  BY DEF Overtakes, Follows, H!Idle, Busy
<1>3. persisted \subseteq H!Candidate /\ H!Become(a, H!Idle)
  BY DEF H!Return, LifeInv, LifeRows
<1> QED
  BY <1>1, <1>2, <1>3, RunMoves

LEMMA WorldMoves ==
  ASSUME LifeInv, H!Tick \/ H!ChangeEvent
  PROVE  LifeInv'
<1>1. now' \in H!Times /\ event' \in [version : {1, 2}, at : H!Times, over : BOOLEAN]
  <2>1. now \in H!Times /\ event \in [version : {1, 2}, at : H!Times, over : BOOLEAN]
    BY DEF LifeInv, LifeRows
  <2>2. CASE H!Tick
    BY <2>1, <2>2, LifeConstants DEF H!Tick, H!Times
  <2>3. CASE H!ChangeEvent
    BY <2>1, <2>3 DEF H!ChangeEvent
  <2> QED
    BY <2>2, <2>3
<1>2. UNCHANGED <<persisted, head, rank, retired, work>>
  BY DEF H!Tick, H!ChangeEvent, H!rows
<1>3. LifeRows'
  BY <1>1, <1>2 DEF LifeInv, LifeRows, H!RankFollowsHead
<1>4. RetiredOK' /\ Follows(work["sweep"])'
  BY <1>2 DEF LifeInv, RetiredOK, Follows
<1> QED
  BY <1>2, <1>3, <1>4 DEF LifeInv, RunOK, Overtakes

LEMMA StartGenerationLife == ASSUME LifeInv, H!StartGeneration PROVE LifeInv'
<1>1. PICK asOf \in H!Times :
        H!Become("generate", [H!Idle EXCEPT !.pc = "evaluate", !.asOf = asOf])
  BY DEF H!StartGeneration
<1> DEFINE r == [H!Idle EXCEPT !.pc = "evaluate", !.asOf = asOf]
<1>2. RunOK(r, persisted) /\ Overtakes("generate", r)
  <2>1. H!Idle \in RunType /\ H!Idle.candidate = None
    BY LifeConstants DEF RunType, H!Idle, H!Times
  <2>2. r \in RunType /\ r.pc = "evaluate" /\ r.candidate = None
    BY <2>1 DEF RunType
  <2> QED
    BY <2>2 DEF RunOK, Overtakes, Busy
<1>3. UNCHANGED <<now, event, persisted, head, rank, retired>>
  BY DEF H!StartGeneration, H!rows
<1>4. persisted \subseteq H!Candidate /\ "generate" \in H!Actors
  BY DEF LifeInv, LifeRows, H!Actors
<1> HIDE DEF r
<1> QED
  BY <1>1, <1>2, <1>3, <1>4, RunMoves DEF r

LEMMA PersistCandidateLife == ASSUME LifeInv, H!PersistCandidate PROVE LifeInv'
<1> DEFINE w == work["generate"]
<1>1. PICK c \in [at : {w.asOf}, prices : 0 .. w.asOf, status : Statuses] :
        /\ persisted' = persisted \cup {c}
        /\ H!Become("generate", [w EXCEPT !.pc = "event", !.candidate = c])
  BY DEF H!PersistCandidate
<1> DEFINE r == [w EXCEPT !.pc = "event", !.candidate = c]
<1>2. w.pc = "evaluate" /\ UNCHANGED <<now, event, head, rank, retired>>
  BY DEF H!PersistCandidate, H!world, H!rows
<1>3. "generate" \in H!Actors /\ RunOK(w, persisted) /\ persisted \subseteq H!Candidate
  BY DEF LifeInv, LifeRows, H!Actors
<1>4. c \in H!Candidate
  BY <1>3, LifeConstants DEF RunOK, RunType, H!Candidate, H!Times
<1>5. persisted \subseteq persisted' /\ persisted' \subseteq H!Candidate /\ c \in persisted'
  BY <1>1, <1>3, <1>4
<1>6. RunOK(r, persisted') /\ Overtakes("generate", r)
  BY <1>2, <1>3, <1>5 DEF RunOK, RunType, Overtakes, Busy
<1> HIDE DEF r
<1> QED
  BY <1>1, <1>2, <1>3, <1>5, <1>6, RunMoves DEF r

LEMMA SweepStarts ==
  ASSUME LifeInv, head # None, head.state = "active", NEW r,
         r \in RunType, r.pc = "event", r.candidate = head.candidate, H!Become("sweep", r),
         UNCHANGED <<now, event, persisted, head, rank, retired>>
  PROVE  LifeInv'
<1>1. /\ head.candidate \in persisted /\ persisted \subseteq H!Candidate
      /\ "sweep" \in H!Actors
  BY DEF LifeInv, LifeRows, H!Actors
<1>3. RunOK(r, persisted) /\ Overtakes("sweep", r) /\ Follows(r)
  BY <1>1 DEF RunOK, Overtakes, Follows, Busy
<1> QED
  BY <1>1, <1>3, RunMoves

LEMMA SweepType ==
  ASSUME LifeInv, head # None, NEW asOf \in H!Times, NEW attempts \in 0 .. 2
  PROVE  /\ [H!Idle EXCEPT !.pc = "event", !.asOf = asOf, !.from = head.version,
                            !.candidate = head.candidate, !.attempts = attempts] \in RunType
         /\ [H!Idle EXCEPT !.pc = "event", !.asOf = asOf, !.from = head.version,
                            !.candidate = head.candidate] \in RunType
<1>1. head.candidate \in H!Candidate /\ head.version \in Nat
  BY DEF LifeInv, LifeRows, H!Head
<1>2. H!Idle \in RunType
  BY LifeConstants DEF RunType, H!Idle, H!Times
<1> QED
  BY <1>1, <1>2 DEF RunType, Busy

LEMMA DiscoverLife == ASSUME LifeInv, H!Discover PROVE LifeInv'
<1>1. PICK asOf \in H!Times :
        H!Become("sweep", [H!Idle EXCEPT !.pc = "event", !.asOf = asOf, !.from = head.version,
                                         !.candidate = head.candidate])
  BY DEF H!Discover
<1> DEFINE r == [H!Idle EXCEPT !.pc = "event", !.asOf = asOf, !.from = head.version,
                               !.candidate = head.candidate]
<1>2. r.pc = "event" /\ r.candidate = head.candidate
  BY DEF H!Idle
<1>3. head # None /\ head.state = "active" /\ UNCHANGED <<now, event, persisted, head, rank, retired>>
  BY DEF H!Discover, H!rows
<1>0. 0 \in 0 .. 2
  OBVIOUS
<1>4. H!Become("sweep", r) /\ r \in RunType
  BY <1>0, <1>1, <1>3, SweepType
<1> HIDE DEF r
<1> QED
  BY <1>2, <1>3, <1>4, SweepStarts

LEMMA ConflictLife ==
  ASSUME LifeInv, NEW a \in H!Actors, H!Conflict(a),
         UNCHANGED <<now, event, persisted, head, rank, retired>>
  PROVE  LifeInv'
<1> DEFINE w == work[a]
<1>1. CASE a = "sweep" /\ w.attempts < 2 /\ head # None /\ head.state = "active"
  <2>1. w.asOf \in H!Times /\ w.attempts \in 0 .. 2
    BY DEF LifeInv, RunOK, RunType
  <2>2. w.attempts + 1 \in 0 .. 2
    BY <1>1, <2>1
  <2> DEFINE r == [H!Idle EXCEPT !.pc = "event", !.asOf = w.asOf, !.from = head.version,
                                 !.candidate = head.candidate, !.attempts = w.attempts + 1]
  <2>3. H!Become("sweep", r)
    BY <1>1 DEF H!Conflict
  <2>4. r.pc = "event" /\ r.candidate = head.candidate
    BY DEF H!Idle
  <2>5. r \in RunType
    BY <1>1, <2>1, <2>2, SweepType
  <2> HIDE DEF r
  <2> QED
    BY <1>1, <2>3, <2>4, <2>5, SweepStarts
<1>2. CASE ~(a = "sweep" /\ w.attempts < 2 /\ head # None /\ head.state = "active")
  <2>1. H!Return(a)
    BY <1>2 DEF H!Conflict
  <2> QED
    BY <2>1, RunReturns
<1> QED
  BY <1>1, <1>2

LEMMA ReadEventLife == ASSUME LifeInv, NEW a \in H!Actors, H!ReadEvent(a) PROVE LifeInv'
<1> DEFINE w == work[a]
<1>1. w.pc = "event" /\ UNCHANGED <<now, event, persisted, head, rank, retired>>
  BY DEF H!ReadEvent, H!world, H!rows
<1>2. CASE event.at > w.asOf
  <2>1. H!Return(a)
    BY <1>2 DEF H!ReadEvent
  <2> QED
    BY <1>1, <2>1, RunReturns
<1>3. CASE ~(event.at > w.asOf)
  <2> DEFINE r == [w EXCEPT !.pc = "head", !.evidence = H!Read(w.asOf)]
  <2>1. H!Become(a, r)
    BY <1>3 DEF H!ReadEvent
  <2>2. /\ RunOK(w, persisted) /\ persisted \subseteq H!Candidate
        /\ event \in [version : {1, 2}, at : H!Times, over : BOOLEAN]
        /\ a = "sweep" => Follows(w)
    BY DEF LifeInv, LifeRows
  <2>3. H!Read(w.asOf) \in H!Evidence
    BY <2>2 DEF H!Read, H!Evidence
  <2>4. RunOK(r, persisted) /\ Overtakes(a, r) /\ r.pc = "head"
    BY <1>1, <2>2, <2>3 DEF RunOK, RunType, Overtakes, Busy
  <2>5. a = "sweep" => Follows(r)
    BY <1>1, <2>2 DEF Follows, Busy
  <2> HIDE DEF r
  <2> QED
    BY <1>1, <2>1, <2>2, <2>4, <2>5, RunMoves
<1> QED
  BY <1>2, <1>3

\* A command the reducer accepts overtakes the head.
LEMMA AcceptedOvertakes ==
  ASSUME NEW a \in H!Actors, ~H!Refused(a, head), head # None => ~H!Outrun(a, head),
         work[a].candidate \in H!Candidate, head # None => head.candidate \in H!Candidate,
         head # None => head.at \in Nat, work[a].asOf \in Nat
  PROVE  head # None =>
           /\ head.state # "closed"
           /\ \/ head.candidate.at < work[a].candidate.at
              \/ head.candidate = work[a].candidate /\ a = "sweep"
<1> SUFFICES ASSUME head # None
             PROVE /\ head.state # "closed"
                   /\ \/ head.candidate.at < work[a].candidate.at
                      \/ head.candidate = work[a].candidate /\ a = "sweep"
  OBVIOUS
<1> DEFINE w == work[a]
<1>1. w.candidate.at \in Nat /\ head.candidate.at \in Nat
  BY DEF H!Candidate, H!Times
<1>2. /\ head.command # H!Command(a) /\ head.state # "closed" /\ ~(w.asOf < head.at)
      /\ ~(w.candidate.at < head.candidate.at)
      /\ ~(a = "generate" /\ w.candidate = head.candidate)
  BY DEF H!Outrun
<1>3. ~(w.candidate.at = head.candidate.at /\ w.candidate # head.candidate)
  BY <1>2 DEF H!Refused
<1>4. a = "generate" \/ a = "sweep"
  BY DEF H!Actors
<1> QED
  BY <1>1, <1>2, <1>3, <1>4

LEMMA ReadHeadLife == ASSUME LifeInv, NEW a \in H!Actors, H!ReadHead(a) PROVE LifeInv'
<1> DEFINE w == work[a]
<1>1. w.pc = "head" /\ UNCHANGED <<now, event, persisted, head, rank, retired>>
  BY DEF H!ReadHead, H!world, H!rows
<1>2. /\ RunOK(w, persisted) /\ persisted \subseteq H!Candidate
      /\ head \in H!Head \cup {None} /\ (head # None => head.candidate \in persisted)
      /\ a = "sweep" => Follows(w)
  BY DEF LifeInv, LifeRows
<1>3. CASE H!Return(a)
  BY <1>1, <1>3, RunReturns
<1>4. ASSUME NEW r, r \in {[w EXCEPT !.pc = "heal", !.read = head],
                            [w EXCEPT !.pc = "commit", !.read = head]},
             H!Become(a, r), r.pc = "heal" => head # None, Overtakes(a, r)
      PROVE  LifeInv'
  <2>1. RunOK(r, persisted) /\ r.pc # "evaluate"
    BY <1>1, <1>2, <1>4 DEF RunOK, RunType, Busy
  <2>2. r.candidate = w.candidate /\ w.pc \in Busy
    BY <1>1, <1>2, <1>4 DEF RunOK, RunType, Busy
  <2>3. a = "sweep" => Follows(r)
    BY <1>2, <2>2 DEF Follows
  <2> QED
    BY <1>1, <1>2, <1>4, <2>1, <2>3, RunMoves
<1>5. CASE head # None /\ H!Become(a, [w EXCEPT !.pc = "heal", !.read = head])
  <2> DEFINE r == [w EXCEPT !.pc = "heal", !.read = head]
  <2>1. r.pc = "heal"
    BY <1>2 DEF RunOK
  <2>2. Overtakes(a, r)
    BY <2>1 DEF Overtakes
  <2> QED
    BY <1>4, <1>5, <2>2
<1>6. CASE /\ ~H!Refused(a, head) /\ (head # None => ~H!Outrun(a, head))
           /\ H!Become(a, [w EXCEPT !.pc = "commit", !.read = head])
  <2> DEFINE r == [w EXCEPT !.pc = "commit", !.read = head]
  <2>1. w.candidate \in H!Candidate /\ w.asOf \in Nat
    BY <1>1, <1>2 DEF RunOK, RunType, Busy, H!Times
  <2>2. head # None => head.candidate \in H!Candidate /\ head.at \in Nat
    BY <1>2 DEF H!Head, H!Times
  <2>3. head # None =>
           /\ head.state # "closed"
           /\ \/ head.candidate.at < w.candidate.at
              \/ head.candidate = w.candidate /\ a = "sweep"
    BY <1>6, <2>1, <2>2, AcceptedOvertakes
  <2>4. Overtakes(a, r) /\ r.pc = "commit"
    BY <1>1, <1>2, <2>3 DEF Overtakes, RunOK
  <2> QED
    BY <1>4, <1>6, <2>4
<1> QED
  BY <1>3, <1>5, <1>6 DEF H!ReadHead, H!Replayed

LEMMA HeadFields ==
  ASSUME NEW h \in H!Head
  PROVE  /\ h.state \in H!States /\ h.version \in Nat /\ h.candidate \in H!Candidate
         /\ h.at \in H!Times /\ h.evidence \in H!Evidence /\ h # None
BY LifeConstants DEF H!Head

LEMMA SuccessorIs ==
  ASSUME LifeInv, NEW a \in H!Actors, work[a].pc = "commit"
  PROVE  LET new == H!Successor(a, work[a].read) IN
         /\ new \in H!Head
         /\ new.candidate = work[a].candidate
         /\ new.at = work[a].asOf
         /\ new.version = IF work[a].read = None THEN 1 ELSE work[a].read.version + 1
         /\ new.state = H!Classified(work[a].candidate, work[a].evidence, work[a].asOf)
         /\ new.state = "active" => new.expires = H!Expires(work[a].candidate)
<1> DEFINE w == work[a]
           state == H!Classified(w.candidate, w.evidence, w.asOf)
           number == IF w.read = None THEN 1 ELSE w.read.version + 1
           expires == IF state = "active" THEN H!Expires(w.candidate) ELSE LastTime + 1
<1>1. RunOK(w, persisted) /\ persisted \subseteq H!Candidate
  BY DEF LifeInv, LifeRows
<1>2. /\ w.candidate \in H!Candidate /\ w.evidence \in H!Evidence /\ w.asOf \in H!Times
      /\ w.read \in H!Head \cup {None} /\ w.from \in Nat
  BY <1>1 DEF RunOK, RunType, Busy
<1>3. state \in H!States
  <2>1. w.candidate.status \in Statuses
    BY <1>2 DEF H!Candidate
  <2> QED
    BY <2>1, LifeConstants DEF H!Classified, H!States
<1>4. number \in Nat
  BY <1>2, HeadFields
<1>5. expires \in 0 .. LastTime + StartsAt + 1
  <2>1. w.candidate.prices \in Nat
    BY <1>2, LifeConstants DEF H!Candidate, H!Times
  <2>2. H!Expires(w.candidate) \in Nat /\ H!Expires(w.candidate) <= StartsAt
    BY <2>1, LifeConstants DEF H!Expires, H!Min2
  <2> QED
    BY <2>2, LifeConstants
<1>6. H!Command(a) \in [by : H!Actors, candidate : H!Candidate, evidence : H!Evidence,
                        from : Nat, asOf : H!Times]
  BY <1>2, LifeConstants DEF H!Command, H!Times
<1>7. H!Successor(a, w.read) = [state |-> state, version |-> number, candidate |-> w.candidate,
                                at |-> w.asOf, command |-> H!Command(a), expires |-> expires,
                                evidence |-> w.evidence]
  BY DEF H!Successor
<1> HIDE DEF state, number, expires
<1>8. H!Successor(a, w.read) \in H!Head
  BY <1>2, <1>3, <1>4, <1>5, <1>6, <1>7 DEF H!Head
<1> QED
  BY <1>7, <1>8 DEF state, number, expires

\* A commit that its conditions let through.
Replaces(a) ==
  /\ work[a].pc = "commit" /\ H!Fence(a) /\ H!HeadStands(a)
  /\ head' = H!Successor(a, work[a].read)
  /\ rank' = H!RankOf(head')
  /\ retired' = IF head # None /\ head.state = "active"
                   /\ (head'.state # "active" \/ head'.candidate # head.candidate)
                THEN retired \cup {head.candidate} ELSE retired
  /\ H!Return(a)
  /\ UNCHANGED <<now, event, persisted>>

LEMMA CommitIs ==
  ASSUME NEW a \in H!Actors, H!Commit(a)
  PROVE  \/ Replaces(a)
         \/ H!Conflict(a) /\ UNCHANGED <<now, event, persisted, head, rank, retired>>
BY DEF H!Commit, Replaces, H!world, H!rows

\* What a commit makes of the head.
LEMMA Replaced ==
  ASSUME LifeInv, NEW a \in H!Actors, Replaces(a)
  PROVE  /\ head' \in H!Head /\ head'.candidate \in persisted
         /\ head # None =>
              /\ head.state # "closed" /\ head'.version = head.version + 1
              /\ \/ head.candidate.at < head'.candidate.at
                 \/ head.candidate = head'.candidate /\ head.state = "active"
         /\ head'.state = "active" =>
              event.version = 1 /\ head'.at < StartsAt /\ head'.at < head'.expires
<1> DEFINE w == work[a]
<1>1. w.pc = "commit" /\ head = w.read /\ event.version = w.evidence.version
  BY DEF Replaces, H!Fence, H!HeadStands
<1>2. /\ RunOK(w, persisted) /\ Overtakes(a, w) /\ (a = "sweep" => Follows(w))
      /\ persisted \subseteq H!Candidate /\ head \in H!Head \cup {None}
      /\ head # None => head.candidate \in H!Candidate
  BY DEF LifeInv, LifeRows
<1>3. /\ head' \in H!Head /\ head'.candidate = w.candidate /\ head'.at = w.asOf
      /\ head'.version = IF w.read = None THEN 1 ELSE w.read.version + 1
      /\ head'.state = H!Classified(w.candidate, w.evidence, w.asOf)
      /\ head'.state = "active" => head'.expires = H!Expires(w.candidate)
  BY <1>1, SuccessorIs DEF Replaces
<1>4. w.candidate \in persisted /\ w.evidence \in H!Evidence /\ w.asOf \in H!Times
  BY <1>1, <1>2 DEF RunOK, RunType, Busy
<1>5. ASSUME head # None
      PROVE  /\ head.state # "closed" /\ head'.version = head.version + 1
             /\ \/ head.candidate.at < head'.candidate.at
                \/ head.candidate = head'.candidate /\ head.state = "active"
  <2>1. /\ head.state # "closed"
        /\ \/ head.candidate.at < w.candidate.at
           \/ head.candidate = w.candidate /\ a = "sweep"
    BY <1>1, <1>2, <1>5 DEF Overtakes
  <2>2. head.candidate.at \in Nat
    BY <1>2, <1>5, LifeConstants DEF H!Candidate, H!Times
  <2>3. a = "sweep" /\ head.candidate = w.candidate => head.state = "active"
    BY <1>1, <1>2, <2>2 DEF Follows, Busy
  <2> QED
    BY <1>1, <1>3, <1>5, <2>1, <2>3
<1>6. ASSUME head'.state = "active"
      PROVE  event.version = 1 /\ head'.at < StartsAt /\ head'.at < head'.expires
  <2>1. w.asOf \in Nat /\ w.evidence.version \in {1, 2} /\ w.evidence.kind \in {"current", "indeterminate"}
    BY <1>4, LifeConstants DEF H!Evidence, H!Times
  <2>2. H!Expires(w.candidate) \in Nat
    <3>1. w.candidate.prices \in Nat
      BY <1>2, <1>4, LifeConstants DEF H!Candidate, H!Times
    <3> QED
      BY <3>1, LifeConstants DEF H!Expires, H!Min2
  <2>0. w.candidate.status # "active"
    BY <1>2, <1>4, LifeConstants DEF H!Candidate
  <2>3. w.evidence.version = 1 /\ w.asOf < StartsAt /\ w.asOf < H!Expires(w.candidate)
    <3>1. H!Classified(w.candidate, w.evidence, w.asOf) = "active"
      BY <1>3, <1>6
    <3>2. w.evidence.kind = "current" /\ ~(w.evidence.version > 1 \/ w.asOf >= StartsAt)
      BY <2>0, <2>1, <3>1 DEF H!Classified
    <3>3. ~(w.asOf >= H!Expires(w.candidate))
      BY <2>0, <2>1, <3>1, <3>2 DEF H!Classified
    <3> QED
      BY <2>1, <2>2, <3>2, <3>3, LifeConstants
  <2> QED
    BY <1>1, <1>3, <1>6, <2>3
<1> QED
  BY <1>3, <1>4, <1>5, <1>6

LEMMA ReplacesLife == ASSUME LifeInv, NEW a \in H!Actors, Replaces(a) PROVE LifeInv'
<1>1. /\ head' \in H!Head /\ head' # None /\ head'.candidate \in persisted
      /\ head # None =>
              \/ head.candidate.at < head'.candidate.at
              \/ head.candidate = head'.candidate /\ head.state = "active"
  BY Replaced, HeadFields
<1>2. /\ LifeRows /\ work \in [H!Actors -> RunType] /\ persisted \subseteq H!Candidate
      /\ \A b \in H!Actors : RunOK(work[b], persisted) /\ Overtakes(b, work[b])
      /\ Follows(work["sweep"]) /\ RetiredOK
  BY DEF LifeInv, LifeRows
<1>3. work' = [work EXCEPT ![a] = H!Idle] /\ UNCHANGED <<now, event, persisted>>
  BY DEF Replaces, H!Return, H!Become
<1>4. H!Idle \in RunType /\ RunOK(H!Idle, persisted) /\ H!Idle.pc = "idle"
  BY LifeConstants DEF RunOK, RunType, H!Idle, H!Times, Busy
<1>5. LifeRows'
  <2>1. rank' = H!RankOf(head') /\ rank' \in H!Rank \cup {None}
    BY <1>1, HeadFields DEF Replaces, H!RankOf, H!Rank
  <2>2. H!RankFollowsHead'
    BY <1>1, <2>1 DEF H!RankFollowsHead, H!RankOf
  <2> QED
    BY <1>1, <1>2, <1>3, <2>1, <2>2 DEF LifeRows
<1>6. \A b \in H!Actors : work'[b] = IF b = a THEN H!Idle ELSE work[b]
  BY <1>2, <1>3
<1>7. ASSUME NEW b \in H!Actors PROVE RunOK(work'[b], persisted') /\ Overtakes(b, work'[b])
  BY <1>2, <1>3, <1>4, <1>6 DEF Overtakes
<1>8. work'["sweep"].pc # "evaluate" /\ Follows(work["sweep"])'
  <2>1. "sweep" \in H!Actors
    BY DEF H!Actors
  <2>2. CASE a = "sweep"
    BY <1>4, <1>6, <2>1, <2>2 DEF Follows, Busy
  <2>3. CASE a # "sweep"
    <3>1. work'["sweep"] = work["sweep"] /\ work["sweep"].pc # "evaluate"
      BY <1>6, <2>1, <2>3 DEF LifeInv
    <3>2. ASSUME work["sweep"].pc \in Busy
          PROVE  work["sweep"].candidate.at < head'.candidate.at
      <4>1. /\ head # None
            /\ \/ work["sweep"].candidate.at < head.candidate.at
               \/ work["sweep"].candidate = head.candidate
        BY <1>2, <3>2 DEF Follows
      <4>2. head.candidate.at < head'.candidate.at
        <5>1. Overtakes(a, work[a]) /\ work[a].pc = "commit" /\ head = work[a].read
          BY <1>2 DEF Replaces, H!HeadStands
        <5>2. head'.candidate = work[a].candidate
          BY <5>1, SuccessorIs DEF Replaces
        <5> QED
          BY <2>3, <4>1, <5>1, <5>2 DEF Overtakes
      <4>3. /\ work["sweep"].candidate \in H!Candidate /\ head.candidate \in H!Candidate
            /\ head'.candidate \in H!Candidate
        BY <1>1, <1>2, <2>1, <3>2, <4>1 DEF RunOK, LifeRows
      <4> QED
        BY <4>1, <4>2, <4>3, LifeConstants DEF H!Candidate, H!Times
    <3> QED
      BY <1>1, <3>1, <3>2 DEF Follows
  <2> QED
    BY <2>2, <2>3
<1>9. RetiredOK'
  <2> SUFFICES ASSUME NEW c \in retired'
               PROVE  /\ c \in persisted'
                      /\ \/ c.at < head'.candidate.at
                         \/ c = head'.candidate /\ head'.state # "active"
    BY <1>1 DEF RetiredOK
  <2>1. head'.candidate \in H!Candidate /\ head'.candidate.at \in Nat
    BY <1>1, <1>2, LifeConstants DEF H!Candidate, H!Times
  <2>2. CASE c \in retired
    <3>1. /\ c \in persisted /\ head # None
          /\ \/ c.at < head.candidate.at
             \/ c = head.candidate /\ head.state # "active"
      BY <1>2, <2>2 DEF RetiredOK
    <3>2. c.at \in Nat /\ head.candidate.at \in Nat
      BY <1>2, <3>1, LifeConstants DEF LifeRows, H!Candidate, H!Times
    <3> QED
      BY <1>1, <1>3, <2>1, <3>1, <3>2
  <2>3. CASE c \notin retired
    <3>1. /\ c = head.candidate /\ head # None
          /\ head'.state # "active" \/ head'.candidate # head.candidate
      BY <2>3 DEF Replaces
    <3> QED
      BY <1>1, <1>2, <1>3, <3>1 DEF LifeRows
  <2> QED
    BY <2>2, <2>3
<1>10. work' \in [H!Actors -> RunType]
  BY <1>2, <1>3, <1>4
<1> QED
  BY <1>5, <1>7, <1>8, <1>9, <1>10 DEF LifeInv, RunOK, Overtakes

LEMMA HealLife == ASSUME LifeInv, NEW a \in H!Actors, H!Heal(a) PROVE LifeInv'
<1> DEFINE w == work[a]
<1>1. CASE H!Conflict(a) /\ UNCHANGED <<now, event, persisted, head, rank, retired>>
  BY <1>1, ConflictLife
<1>2. CASE /\ H!MayHeal(a) /\ rank' = H!RankOf(w.read) /\ H!Return(a)
           /\ UNCHANGED <<now, event, persisted, head, retired>>
  <2>1. w.pc = "heal" /\ head = w.read
    BY <1>2 DEF H!Heal, H!MayHeal, H!HeadStands
  <2>2. RunOK(w, persisted) /\ LifeRows /\ RetiredOK
    BY DEF LifeInv
  <2>3. head # None /\ head \in H!Head
    BY <2>1, <2>2 DEF RunOK, LifeRows
  <2>4. rank' = H!RankOf(head) /\ rank' \in H!Rank \cup {None}
    BY <1>2, <2>1, <2>3, HeadFields DEF H!RankOf, H!Rank
  <2>5. H!RankFollowsHead'
    BY <1>2, <2>3, <2>4 DEF H!RankFollowsHead, H!RankOf
  <2>6. LifeRows'
    BY <1>2, <2>2, <2>4, <2>5 DEF LifeRows
  <2>7. H!Idle \in RunType /\ RunOK(H!Idle, persisted) /\ H!Idle.pc = "idle"
    BY LifeConstants DEF RunOK, RunType, H!Idle, H!Times, Busy
  <2>8. work' = [work EXCEPT ![a] = H!Idle]
    BY <1>2 DEF H!Return, H!Become
  <2>9. /\ work' \in [H!Actors -> RunType]
        /\ \A b \in H!Actors : work'[b] = IF b = a THEN H!Idle ELSE work[b]
    BY <2>7, <2>8 DEF LifeInv
  <2>10. ASSUME NEW b \in H!Actors PROVE RunOK(work'[b], persisted') /\ Overtakes(b, work'[b])
    BY <1>2, <2>7, <2>9 DEF LifeInv, Overtakes
  <2>11. work'["sweep"].pc # "evaluate" /\ Follows(work["sweep"])' /\ RetiredOK'
    BY <1>2, <2>2, <2>7, <2>9 DEF LifeInv, Follows, RetiredOK, Busy, H!Actors
  <2> QED
    BY <2>6, <2>9, <2>10, <2>11 DEF LifeInv, RunOK, Overtakes
<1> QED
  BY <1>1, <1>2 DEF H!Heal, H!world, H!rows

LEMMA LifeNext == ASSUME LifeInv, H!Next PROVE LifeInv'
<1>1. CASE H!Tick \/ H!ChangeEvent
  BY <1>1, WorldMoves
<1>2. CASE H!StartGeneration \/ H!PersistCandidate \/ H!Discover
  BY <1>2, StartGenerationLife, PersistCandidateLife, DiscoverLife
<1>3. ASSUME NEW a \in H!Actors, H!Project(a) PROVE LifeInv'
  <2>1. CASE H!Commit(a)
    BY <2>1, CommitIs, ReplacesLife, ConflictLife
  <2> QED
    BY <1>3, <2>1, ReadEventLife, ReadHeadLife, HealLife DEF H!Project
<1>4. ASSUME NEW a \in H!Actors, H!Die(a) PROVE LifeInv'
  BY <1>4, RunReturns DEF H!Die, H!rows
<1> QED
  BY <1>1, <1>2, <1>3, <1>4 DEF H!Next

\* The head moves by a commit only.
LEMMA HeadMoves ==
  ASSUME H!Next, head' # head \/ retired' # retired
  PROVE  \E a \in H!Actors : Replaces(a)
<1>1. PICK a \in H!Actors : H!Commit(a)
  BY DEF H!Next, H!Project, H!Tick, H!ChangeEvent, H!StartGeneration,
         H!PersistCandidate, H!Discover, H!ReadEvent, H!ReadHead, H!Heal, H!Die, H!rows, H!world
<1> QED
  BY <1>1, CommitIs

LEMMA LifeSteps ==
  ASSUME LifeInv, H!Next
  PROVE  /\ H!Opens => event.version = 1 /\ head'.at < StartsAt /\ head'.at < head'.expires
         /\ head # None /\ head.state = "closed" => head' = head
         /\ head # None /\ head' # head =>
               /\ head'.version = head.version + 1
               /\ head.candidate.at <= head'.candidate.at
         /\ H!Opens => head'.candidate \notin retired
<1>1. CASE head' = head
  BY <1>1 DEF H!Opens
<1>2. CASE head' # head
  <2>1. PICK a \in H!Actors : Replaces(a)
    BY <1>2, HeadMoves
  <2>2. /\ head' \in H!Head /\ head'.candidate \in persisted
        /\ head # None =>
              /\ head.state # "closed" /\ head'.version = head.version + 1
              /\ \/ head.candidate.at < head'.candidate.at
                 \/ head.candidate = head'.candidate /\ head.state = "active"
        /\ head'.state = "active" =>
              event.version = 1 /\ head'.at < StartsAt /\ head'.at < head'.expires
    BY <2>1, Replaced
  <2>3. persisted \subseteq H!Candidate /\ RetiredOK /\ (head # None => head.candidate \in persisted)
    BY DEF LifeInv, LifeRows
  <2>4. \A c \in persisted : c.at \in Nat
    BY <2>3, LifeConstants DEF H!Candidate, H!Times
  <2>5. head'.candidate \in retired => head'.state # "active"
    <3> SUFFICES ASSUME head'.candidate \in retired, head'.state = "active" PROVE FALSE
      OBVIOUS
    <3>1. /\ head # None
          /\ \/ head'.candidate.at < head.candidate.at
             \/ head'.candidate = head.candidate /\ head.state # "active"
      BY <2>3 DEF RetiredOK
    <3> QED
      BY <2>2, <2>3, <2>4, <3>1
  <2> QED
    BY <2>2, <2>3, <2>4, <2>5 DEF H!Opens
<1> QED
  BY <1>1, <1>2

-----------------------------------------------------------------------------
(* Results and grades.                                                     *)

Fetched  == {"persist", "history", "exact", "current", "check", "bet", "grade", "compare", "write"}
Betting == {"bet", "grade", "compare", "write"}
InHand   == {"grade", "compare", "write"}

GradingRun ==
  [pc : {"idle", "fetch", "advance"} \cup Fetched, page : G!Events, result : 0 .. MaxResult,
   version : {1, 2}, seen : 0 .. MaxResult, todo : SUBSET Bets, read : G!Grade \cup {None},
   prior : G!Grade \cup {None}, failed : BOOLEAN]

\* The grade a run makes of its bet.
MadeBy(r) ==
  IF r.read # None /\ r.read.result = r.result THEN r.read
  ELSE [result |-> r.result, ordinal |-> IF r.read = None THEN 0 ELSE r.read.ordinal + 1,
        supersedes |-> G!Authority(r.read)]

\* What a run knows of the rows: the result it carries is on record, current results have not
\* fallen behind what it saw, and unless it failed the bets it is done with are graded.
Knows(r, hist, ex, cur, gr) ==
  /\ r.pc \in Fetched => r.result \in G!Results
  /\ r.pc \in Fetched \ {"persist"} => r.seen <= cur[r.page]
  /\ r.pc \in Fetched \ {"persist", "history"} => hist[r.page][r.result] # 0
  /\ r.pc = "exact" => r.version = hist[r.page][r.result]
  /\ r.pc \in Fetched \ {"persist", "history", "exact"} => ex[r.page][r.result] # 0
  /\ r.pc \in Betting /\ ~r.failed =>
       \A b \in G!BetsOf(r.page) \ r.todo : r.result <= G!Authority(gr[b])
  /\ r.pc \in InHand => r.todo # {}
  /\ r.pc = "write" => G!Follows(MadeBy(r), r.prior) /\ G!Authority(r.prior) < r.result

\* The grades rows of a bet, the last of which is g, are one chain.
Chain(rows, g) ==
  /\ rows \subseteq G!Grade /\ IsFiniteSet(rows)
  /\ g = None <=> rows = {}
  /\ g # None => /\ g \in rows /\ g.ordinal + 1 = Cardinality(rows)
                 /\ \A h \in rows : h.result <= g.result
  /\ \A h \in rows : /\ h.ordinal < Cardinality(rows) /\ h.ordinal < h.result
                     /\ h.ordinal = 0 => h.supersedes = 0
  /\ \A h, k \in rows : /\ h.ordinal = k.ordinal => h = k
                        /\ k.ordinal = h.ordinal + 1 =>
                             k.supersedes = h.result /\ h.result < k.result
  /\ \A n \in Nat : n < Cardinality(rows) => \E h \in rows : h.ordinal = n

GradingRows ==
  /\ feed \in [G!Events -> 0 .. MaxResult] /\ version \in [G!Events -> {1, 2}]
  /\ history \in [G!Events -> [G!Results -> 0 .. 2]]
  /\ exact \in [G!Events -> [G!Results -> 0 .. 2]]
  /\ \A e \in G!Events, r \in G!Results : exact[e][r] \in {0, history[e][r]}
  /\ current \in [G!Events -> 0 .. MaxResult]
  /\ checkpoint \in G!Events
  /\ settled \in [G!Events -> 0 .. MaxResult]

GradeRows ==
  /\ DOMAIN grades = Bets /\ grade \in [Bets -> G!Grade \cup {None}]
  /\ grades \in [Bets -> SUBSET G!Grade]
  /\ \A b \in Bets : Chain(grades[b], grade[b])

GradingInv ==
  /\ GradingRows /\ GradeRows
  /\ G!CurrentIsExact /\ G!SettledStaysGraded
  /\ run \in [Runs -> GradingRun]
  /\ \A w \in Runs : Knows(run[w], history, exact, current, grade)

LEMMA GradingConstants ==
  /\ LastPage \in Nat \ {0} /\ MaxResult \in Nat
  /\ MaxResultOf \in [G!Events -> 0 .. MaxResult]
  /\ EventOf \in [Bets -> G!Events]
  /\ None \notin G!Grade
BY PipelinesAssumption DEF G!GradingAssumption, G!Events, G!Grade, G!Results

LEMMA GradingInit == ASSUME G!Init PROVE GradingInv
<1>1. 1 \in G!Events /\ 0 \in 0 .. MaxResult
  BY GradingConstants DEF G!Events
<1>2. G!Idle \in GradingRun /\ G!Idle.pc = "idle"
  BY <1>1 DEF GradingRun, G!Idle
<1>3. Chain({}, None)
  BY FS_EmptySet DEF Chain
<1>4. GradingRows
  BY <1>1 DEF G!Init, GradingRows
<1>5. GradeRows
  BY <1>3 DEF G!Init, GradeRows
<1>6. G!CurrentIsExact /\ G!SettledStaysGraded
  BY GradingConstants DEF G!Init, G!CurrentIsExact, G!SettledStaysGraded, G!Authority
<1>7. run \in [Runs -> GradingRun]
      /\ \A w \in Runs : Knows(run[w], history, exact, current, grade)
  BY <1>2 DEF G!Init, Knows, Fetched, Betting, InHand
<1> QED
  BY <1>4, <1>5, <1>6, <1>7 DEF GradingInv

\* Rows only rise: what a run knows of them stays true.
RowsRise ==
  /\ \A e \in G!Events :
       /\ current[e] <= current'[e]
       /\ \A r \in G!Results : /\ history[e][r] # 0 => history'[e][r] = history[e][r]
                               /\ exact[e][r] # 0 => exact'[e][r] # 0
  /\ \A b \in Bets : G!Authority(grade[b]) <= G!Authority(grade'[b])

LEMMA AuthorityType ==
  ASSUME NEW g \in G!Grade \cup {None}
  PROVE  /\ G!Authority(g) \in 0 .. MaxResult
         /\ g # None => G!Authority(g) = g.result /\ g.result \in 1 .. MaxResult /\ g.ordinal \in Nat
         /\ g = None => G!Authority(g) = 0
BY GradingConstants DEF G!Authority, G!Grade, G!Results

LEMMA KnownStays ==
  ASSUME GradingInv, GradingRows', grade' \in [Bets -> G!Grade \cup {None}], RowsRise,
         NEW r \in GradingRun, Knows(r, history, exact, current, grade)
  PROVE  Knows(r, history', exact', current', grade')
<1>1. /\ current \in [G!Events -> 0 .. MaxResult] /\ current' \in [G!Events -> 0 .. MaxResult]
      /\ grade \in [Bets -> G!Grade \cup {None}]
  BY DEF GradingInv, GradingRows, GradeRows
<1>2. /\ r.page \in G!Events /\ r.seen \in Nat /\ r.result \in Nat /\ r.todo \subseteq Bets
  BY GradingConstants DEF GradingRun
<1>3. r.pc \in Fetched \ {"persist"} => r.seen <= current'[r.page]
  <2>1. current[r.page] \in Nat /\ current'[r.page] \in Nat /\ current[r.page] <= current'[r.page]
    BY <1>1, <1>2, GradingConstants DEF RowsRise
  <2> QED
    BY <1>2, <2>1 DEF Knows
<1>4. r.pc \in Betting /\ ~r.failed =>
        \A b \in G!BetsOf(r.page) \ r.todo : r.result <= G!Authority(grade'[b])
  <2> SUFFICES ASSUME r.pc \in Betting, ~r.failed, NEW b \in G!BetsOf(r.page) \ r.todo
               PROVE  r.result <= G!Authority(grade'[b])
    OBVIOUS
  <2>1. b \in Bets /\ r.result <= G!Authority(grade[b])
    BY DEF Knows, G!BetsOf
  <2>2. G!Authority(grade[b]) <= G!Authority(grade'[b])
    BY <2>1 DEF RowsRise
  <2>3. G!Authority(grade[b]) \in Nat /\ G!Authority(grade'[b]) \in Nat
    BY <1>1, <2>1, AuthorityType, GradingConstants
  <2> QED
    BY <1>2, <2>1, <2>2, <2>3
<1>5. r.pc \in Fetched => r.result \in G!Results
  BY DEF Knows
<1>7. r.result \in G!Results =>
        /\ history[r.page][r.result] # 0 => history'[r.page][r.result] = history[r.page][r.result]
        /\ exact[r.page][r.result] # 0 => exact'[r.page][r.result] # 0
  BY <1>2 DEF RowsRise
<1>8. r.pc \in Fetched \ {"persist", "history"} =>
        /\ history'[r.page][r.result] # 0
        /\ r.pc = "exact" => r.version = history'[r.page][r.result]
  BY <1>5, <1>7 DEF Knows
<1>9. "exact" \in Fetched \ {"persist", "history"}
  BY DEF Fetched
<1>10. r.pc \in Fetched \ {"persist", "history", "exact"} => exact'[r.page][r.result] # 0
  BY <1>5, <1>7 DEF Knows
<1>6. /\ r.pc \in InHand => r.todo # {}
      /\ r.pc = "write" => G!Follows(MadeBy(r), r.prior) /\ G!Authority(r.prior) < r.result
  BY DEF Knows
<1> QED
  BY <1>3, <1>4, <1>5, <1>6, <1>8, <1>9, <1>10 DEF Knows

\* One run moves, and the rows stay or rise.
LEMMA GradingMoves ==
  ASSUME GradingInv, GradingRows', GradeRows', (G!CurrentIsExact)', (G!SettledStaysGraded)', RowsRise,
         NEW w \in Runs, NEW r \in GradingRun, Knows(r, history', exact', current', grade'),
         run' = [run EXCEPT ![w] = r]
  PROVE  GradingInv'
<1>1. run \in [Runs -> GradingRun] /\ \A v \in Runs : Knows(run[v], history, exact, current, grade)
  BY DEF GradingInv
<1>2. run' \in [Runs -> GradingRun] /\ \A v \in Runs : run'[v] = IF v = w THEN r ELSE run[v]
  BY <1>1
<1>3. grade' \in [Bets -> G!Grade \cup {None}]
  BY DEF GradeRows
<1>4. ASSUME NEW v \in Runs PROVE Knows(run'[v], history', exact', current', grade')
  <2>1. CASE v = w
    BY <1>2, <2>1
  <2>2. CASE v # w
    BY <1>1, <1>2, <1>3, <2>2, KnownStays
  <2> QED
    BY <2>1, <2>2
<1> QED
  BY <1>2, <1>4 DEF GradingInv

\* Nothing but a run's locals changes.
LEMMA OnlyRunMoves ==
  ASSUME GradingInv, NEW w \in Runs, NEW r \in GradingRun,
         Knows(r, history, exact, current, grade), run' = [run EXCEPT ![w] = r],
         UNCHANGED <<feed, version, history, exact, current, grades, grade, settled>>,
         checkpoint' \in G!Events
  PROVE  GradingInv'
<1>1. GradingRows' /\ GradeRows'
  BY DEF GradingInv, GradingRows, GradeRows
<1>2. (G!CurrentIsExact)' /\ (G!SettledStaysGraded)'
  BY DEF GradingInv, G!CurrentIsExact, G!SettledStaysGraded
<1>3. RowsRise
  <2>1. \A e \in G!Events : current[e] \in Nat
    BY GradingConstants DEF GradingInv, GradingRows
  <2>2. \A b \in Bets : G!Authority(grade[b]) \in Nat
    BY AuthorityType, GradingConstants DEF GradingInv, GradeRows
  <2> QED
    BY <2>1, <2>2 DEF RowsRise
<1>4. Knows(r, history', exact', current', grade')
  OBVIOUS
<1> QED
  BY <1>1, <1>2, <1>3, <1>4, GradingMoves

LEMMA GotoIs ==
  ASSUME GradingInv, NEW w \in Runs, NEW pc, G!Goto(w, pc)
  PROVE  run' = [run EXCEPT ![w] = [run[w] EXCEPT !.pc = pc]]
<1>1. run \in [Runs -> GradingRun]
  BY DEF GradingInv
<1> QED
  BY <1>1 DEF G!Goto, GradingRun

LEMMA RunOf ==
  ASSUME GradingInv, NEW w \in Runs
  PROVE  /\ run[w] \in GradingRun /\ G!On(w) = run[w].page /\ run[w].page \in G!Events
         /\ Knows(run[w], history, exact, current, grade)
         /\ feed[run[w].page] \in 0 .. MaxResult /\ version[run[w].page] \in {1, 2}
         /\ current[run[w].page] \in 0 .. MaxResult /\ checkpoint \in G!Events
BY DEF GradingInv, GradingRows, GradingRun, G!On

LEMMA Unaware ==
  ASSUME NEW r, r.pc \notin Fetched
  PROVE  Knows(r, history, exact, current, grade)
BY DEF Knows, Fetched, Betting, InHand

LEMMA StopIs ==
  ASSUME GradingInv, NEW w \in Runs, G!Stop(w), checkpoint' \in G!Events,
         UNCHANGED <<feed, version, history, exact, current, grades, grade, settled>>
  PROVE  GradingInv'
<1>1. G!Idle \in GradingRun /\ G!Idle.pc \notin Fetched
  BY GradingConstants DEF GradingRun, G!Idle, G!Events, Fetched
<1> QED
  BY <1>1, Unaware, OnlyRunMoves DEF G!Stop

LEMMA WorldGrading ==
  ASSUME GradingInv, G!Announce \/ G!MoveEvent
  PROVE  GradingInv'
<1>1. UNCHANGED <<history, exact, current, grades, grade, settled, checkpoint, run>>
  BY DEF G!Announce, G!MoveEvent, G!resultRows, G!gradeRows
<1>2. feed' \in [G!Events -> 0 .. MaxResult] /\ version' \in [G!Events -> {1, 2}]
  <2>1. feed \in [G!Events -> 0 .. MaxResult] /\ version \in [G!Events -> {1, 2}]
    BY DEF GradingInv, GradingRows
  <2>2. CASE G!Announce
    <3>1. PICK e \in G!Events : feed[e] < MaxResultOf[e] /\ feed' = [feed EXCEPT ![e] = feed[e] + 1]
      BY <2>2 DEF G!Announce
    <3>2. feed[e] + 1 \in 0 .. MaxResult
      <4>1. feed[e] \in Nat /\ MaxResultOf[e] \in Nat /\ MaxResultOf[e] <= MaxResult
        BY <2>1, GradingConstants
      <4> QED
        BY <3>1, <4>1, GradingConstants
    <3> QED
      BY <2>1, <2>2, <3>1, <3>2 DEF G!Announce
  <2>3. CASE G!MoveEvent
    BY <2>1, <2>3 DEF G!MoveEvent
  <2> QED
    BY <2>2, <2>3
<1> QED
  BY <1>1, <1>2 DEF GradingInv, GradingRows, GradeRows, G!CurrentIsExact, G!SettledStaysGraded

LEMMA BeginGrading == ASSUME GradingInv, NEW w \in Runs, G!Begin(w) PROVE GradingInv'
<1> DEFINE r == [G!Idle EXCEPT !.pc = "fetch", !.page = checkpoint]
<1>1. checkpoint \in G!Events
  BY RunOf
<1>2. G!Idle \in GradingRun
  BY GradingConstants DEF GradingRun, G!Idle, G!Events
<1>3. r \in GradingRun /\ r.pc \notin Fetched
  BY <1>1, <1>2 DEF GradingRun, Fetched
<1>4. /\ run' = [run EXCEPT ![w] = r]
      /\ UNCHANGED <<feed, version, history, exact, current, grades, grade, settled, checkpoint>>
  BY DEF G!Begin, G!world, G!resultRows, G!gradeRows
<1> HIDE DEF r
<1> QED
  BY <1>1, <1>3, <1>4, Unaware, OnlyRunMoves

LEMMA FetchGrading == ASSUME GradingInv, NEW w \in Runs, G!FetchPage(w) PROVE GradingInv'
<1> DEFINE e == run[w].page
           r == [run[w] EXCEPT !.pc = IF feed[e] = 0 THEN "advance" ELSE "persist",
                               !.result = feed[e], !.version = version[e]]
<1>1. /\ run[w] \in GradingRun /\ feed[e] \in 0 .. MaxResult /\ version[e] \in {1, 2}
      /\ checkpoint \in G!Events
  BY RunOf
<1>2. r \in GradingRun /\ r.result = feed[e] /\ r.pc = IF feed[e] = 0 THEN "advance" ELSE "persist"
  BY <1>1 DEF GradingRun, Fetched
<1>3. Knows(r, history, exact, current, grade)
  BY <1>1, <1>2, GradingConstants DEF Knows, Fetched, Betting, InHand, G!Results
<1>4. /\ run' = [run EXCEPT ![w] = r]
      /\ UNCHANGED <<feed, version, history, exact, current, grades, grade, settled, checkpoint>>
  BY DEF G!FetchPage, G!On, G!world, G!resultRows, G!gradeRows
<1> HIDE DEF r
<1> QED
  BY <1>1, <1>2, <1>3, <1>4, OnlyRunMoves

LEMMA ReadCurrentGrading == ASSUME GradingInv, NEW w \in Runs, G!ReadCurrent(w) PROVE GradingInv'
<1> DEFINE e == run[w].page
           r == [run[w] EXCEPT !.pc = "history", !.seen = current[e]]
<1>1. /\ run[w] \in GradingRun /\ current[e] \in 0 .. MaxResult /\ checkpoint \in G!Events
      /\ run[w].pc = "persist" /\ Knows(run[w], history, exact, current, grade)
  BY RunOf DEF G!ReadCurrent
<1>2. /\ r \in GradingRun /\ r.result = run[w].result /\ r.pc = "history"
      /\ r.seen = current[e] /\ r.page = e
  BY <1>1 DEF GradingRun, Fetched
<1>3. Knows(r, history, exact, current, grade)
  BY <1>1, <1>2, GradingConstants DEF Knows, Fetched, Betting, InHand
<1>4. /\ run' = [run EXCEPT ![w] = r]
      /\ UNCHANGED <<feed, version, history, exact, current, grades, grade, settled, checkpoint>>
  BY DEF G!ReadCurrent, G!On, G!world, G!resultRows, G!gradeRows
<1> HIDE DEF r
<1> QED
  BY <1>1, <1>2, <1>3, <1>4, OnlyRunMoves

LEMMA RowsAs ==
  ASSUME GradingInv
  PROVE  /\ \A e \in G!Events : /\ history[e] \in [G!Results -> 0 .. 2] /\ current[e] \in Nat
                                /\ exact[e] \in [G!Results -> 0 .. 2]
         /\ \A b \in Bets : /\ grades[b] \subseteq G!Grade /\ grade[b] \in G!Grade \cup {None}
                            /\ Chain(grades[b], grade[b]) /\ G!Authority(grade[b]) \in Nat
BY AuthorityType, GradingConstants DEF GradingInv, GradingRows, GradeRows

LEMMA GradesStay ==
  ASSUME GradingInv, UNCHANGED <<grades, grade, settled>>
  PROVE  /\ GradeRows' /\ (G!SettledStaysGraded)'
         /\ \A b \in Bets : G!Authority(grade[b]) <= G!Authority(grade'[b])
BY RowsAs DEF GradingInv, GradeRows, G!SettledStaysGraded

LEMMA PutHistoryGrading == ASSUME GradingInv, NEW w \in Runs, G!PutHistory(w) PROVE GradingInv'
<1> DEFINE e == run[w].page
           n == run[w].result
           was == history[e][n]
           kept == G!First(was, run[w].version)
           r == [run[w] EXCEPT !.pc = "exact", !.version = kept]
<1>1. /\ run[w] \in GradingRun /\ run[w].pc = "history" /\ e \in G!Events
      /\ Knows(run[w], history, exact, current, grade)
  BY RunOf DEF G!PutHistory
<1>2. n \in G!Results /\ run[w].version \in {1, 2}
  BY <1>1 DEF Knows, Fetched, GradingRun
<1>3. /\ history \in [G!Events -> [G!Results -> 0 .. 2]]
      /\ \A d \in G!Events, m \in G!Results : exact[d][m] \in {0, history[d][m]}
  BY DEF GradingInv, GradingRows
<1>4. was \in 0 .. 2
  BY <1>1, <1>2, <1>3
<1>5. kept \in {1, 2} /\ kept # 0 /\ (was # 0 => kept = was)
  BY <1>2, <1>4 DEF G!First
<1>6. /\ r \in GradingRun /\ r.pc = "exact" /\ r.page = e /\ r.result = n
      /\ r.seen = run[w].seen /\ r.version = kept
  BY <1>1, <1>5 DEF GradingRun, Fetched
<1>7. /\ run' = [run EXCEPT ![w] = r]
      /\ history' = [history EXCEPT ![e][n] = kept]
      /\ UNCHANGED <<feed, version, exact, current, grades, grade, settled, checkpoint>>
  BY <1>1 DEF G!PutHistory, G!On, G!world, G!gradeRows
<1> HIDE DEF was, kept, r
<1>8. /\ history' \in [G!Events -> [G!Results -> 0 .. 2]]
      /\ history'[e][n] = kept
      /\ \A d \in G!Events, m \in G!Results : d # e \/ m # n => history'[d][m] = history[d][m]
  BY <1>1, <1>2, <1>3, <1>5, <1>7
<1>9. \A d \in G!Events, m \in G!Results : history[d][m] # 0 => history'[d][m] = history[d][m]
  BY <1>5, <1>8 DEF was
<1>10. GradingRows'
  <2>1. \A d \in G!Events, m \in G!Results : exact[d][m] \in {0, history'[d][m]}
    BY <1>3, <1>9
  <2> QED
    BY <1>7, <1>8, <2>1 DEF GradingInv, GradingRows
<1>11. (G!CurrentIsExact)'
  <2> SUFFICES ASSUME NEW d \in G!Events, current[d] # 0
               PROVE  exact[d][current[d]] # 0 /\ exact[d][current[d]] = history'[d][current[d]]
    BY <1>7 DEF G!CurrentIsExact
  <2>1. exact[d][current[d]] # 0 /\ exact[d][current[d]] = history[d][current[d]]
    BY DEF GradingInv, G!CurrentIsExact
  <2>2. current[d] \in G!Results
    BY GradingConstants DEF GradingInv, GradingRows, G!Results
  <2> QED
    BY <1>9, <2>1, <2>2
<1>12. RowsRise
  BY <1>7, <1>9, RowsAs, GradesStay DEF RowsRise
<1>13. Knows(r, history', exact', current', grade')
  BY <1>1, <1>2, <1>5, <1>6, <1>7, <1>8 DEF Knows, Fetched, Betting, InHand
<1> QED
  BY <1>6, <1>7, <1>10, <1>11, <1>12, <1>13, GradesStay, GradingMoves

LEMMA PutExactGrading == ASSUME GradingInv, NEW w \in Runs, G!PutExact(w) PROVE GradingInv'
<1> DEFINE e == run[w].page
           n == run[w].result
           pc == IF G!Behind(w) THEN "check" ELSE "current"
           r == [run[w] EXCEPT !.pc = pc]
<1>1. /\ run[w] \in GradingRun /\ run[w].pc = "exact" /\ e \in G!Events
      /\ Knows(run[w], history, exact, current, grade)
  BY RunOf DEF G!PutExact
<1>2. r \in GradingRun /\ r.pc = pc /\ r.page = e /\ r.result = n /\ r.seen = run[w].seen
  BY <1>1 DEF GradingRun, Fetched
<1>3. n \in G!Results /\ run[w].version \in {1, 2}
  BY <1>1 DEF Knows, Fetched, GradingRun
<1>4. exact \in [G!Events -> [G!Results -> 0 .. 2]]
  BY DEF GradingInv, GradingRows
<1> DEFINE was == exact[e][n]
           now_ == G!First(was, run[w].version)
<1>5. /\ run' = [run EXCEPT ![w] = r]
      /\ exact' = [exact EXCEPT ![e][n] = now_]
      /\ UNCHANGED <<feed, version, history, current, grades, grade, settled, checkpoint>>
  BY GotoIs DEF G!PutExact, G!On, G!world, G!gradeRows
<1>6. now_ \in 1 .. 2 /\ was \in 0 .. 2 /\ (was # 0 => now_ = was) /\ now_ = history[e][n]
  <2>1. was \in 0 .. 2
    BY <1>1, <1>3, <1>4
  <2>2. was \in {0, history[e][n]} /\ run[w].version = history[e][n]
    BY <1>1, <1>3 DEF GradingInv, GradingRows, Knows
  <2> QED
    BY <1>3, <2>1, <2>2 DEF G!First
<1>7. /\ exact' \in [G!Events -> [G!Results -> 0 .. 2]]
      /\ exact'[e][n] = now_
      /\ \A d \in G!Events, m \in G!Results : d # e \/ m # n => exact'[d][m] = exact[d][m]
  BY <1>1, <1>3, <1>4, <1>5, <1>6
<1>8. \A d \in G!Events, m \in G!Results : exact[d][m] # 0 => exact'[d][m] = exact[d][m] /\ exact'[d][m] # 0
  BY <1>6, <1>7 DEF was
<1> HIDE DEF now_, was, pc, r
<1>9. GradingRows'
  <2>1. \A d \in G!Events, m \in G!Results : exact'[d][m] \in {0, history[d][m]}
    BY <1>6, <1>7 DEF GradingInv, GradingRows
  <2> QED
    BY <1>5, <1>7, <2>1 DEF GradingInv, GradingRows
<1>10. (G!CurrentIsExact)'
  <2> SUFFICES ASSUME NEW d \in G!Events, current[d] # 0
               PROVE  exact'[d][current[d]] # 0 /\ exact'[d][current[d]] = history[d][current[d]]
    BY <1>5 DEF G!CurrentIsExact
  <2>1. exact[d][current[d]] # 0 /\ exact[d][current[d]] = history[d][current[d]]
    BY DEF GradingInv, G!CurrentIsExact
  <2>2. current[d] \in G!Results
    BY GradingConstants DEF GradingInv, GradingRows, G!Results
  <2> QED
    BY <1>8, <2>1, <2>2
<1>11. RowsRise
  BY <1>5, <1>8, RowsAs, GradesStay DEF RowsRise
<1>12. Knows(r, history', exact', current', grade')
  <2>1. pc \in {"check", "current"}
    BY DEF pc
  <2>2. exact'[e][n] # 0
    BY <1>6, <1>7
  <2> QED
    BY <1>1, <1>2, <1>3, <1>5, <2>1, <2>2 DEF Knows, Fetched, Betting, InHand
<1> QED
  BY <1>2, <1>5, <1>9, <1>10, <1>11, <1>12, GradesStay, GradingMoves

LEMMA PutCurrentGrading ==
  ASSUME GradingInv, NEW w \in Runs, G!PutCurrent(w)
  PROVE  GradingInv' /\ \A e \in G!Events : current[e] <= current'[e]
<1> DEFINE e == run[w].page
           n == run[w].result
           r == [run[w] EXCEPT !.pc = "check"]
           new == IF G!Outranks(current[e], n) THEN n ELSE current[e]
<1>1. /\ run[w] \in GradingRun /\ run[w].pc = "current" /\ e \in G!Events
      /\ Knows(run[w], history, exact, current, grade)
  BY RunOf DEF G!PutCurrent
<1>2. r \in GradingRun /\ r.pc = "check" /\ r.page = e /\ r.result = n /\ r.seen = run[w].seen
  BY <1>1 DEF GradingRun, Fetched
<1>3. /\ n \in 1 .. MaxResult /\ exact[e][n] # 0 /\ exact[e][n] = history[e][n]
      /\ run[w].seen \in Nat /\ run[w].seen <= current[e]
  BY <1>1 DEF Knows, Fetched, GradingRun, G!Results, GradingInv, GradingRows
<1>4. current \in [G!Events -> 0 .. MaxResult]
  BY DEF GradingInv, GradingRows
<1>5. /\ run' = [run EXCEPT ![w] = r]
      /\ current' = [current EXCEPT ![e] = new]
      /\ UNCHANGED <<feed, version, history, exact, grades, grade, settled, checkpoint>>
  BY GotoIs DEF G!PutCurrent, G!On, G!world, G!gradeRows
<1>6. /\ new \in 0 .. MaxResult /\ current[e] <= new
      /\ new = n \/ new = current[e]
  BY <1>1, <1>3, <1>4, GradingConstants DEF G!Outranks
<1>7. /\ current' \in [G!Events -> 0 .. MaxResult] /\ current'[e] = new
      /\ \A d \in G!Events : d # e => current'[d] = current[d]
  BY <1>1, <1>4, <1>5, <1>6
<1> HIDE DEF new, r
<1>8. \A d \in G!Events : current[d] \in Nat /\ current[d] <= current'[d]
  BY <1>4, <1>6, <1>7, GradingConstants
<1>9. GradingRows'
  BY <1>5, <1>7 DEF GradingInv, GradingRows
<1>10. (G!CurrentIsExact)'
  <2> SUFFICES ASSUME NEW d \in G!Events, current'[d] # 0
               PROVE  exact[d][current'[d]] # 0 /\ exact[d][current'[d]] = history[d][current'[d]]
    BY <1>5 DEF G!CurrentIsExact
  <2>1. current[d] # 0 => exact[d][current[d]] # 0 /\ exact[d][current[d]] = history[d][current[d]]
    BY DEF GradingInv, G!CurrentIsExact
  <2> QED
    BY <1>3, <1>6, <1>7, <2>1
<1>11. RowsRise
  BY <1>5, <1>8, RowsAs, GradesStay DEF RowsRise
<1>12. Knows(r, history', exact', current', grade')
  <2>1. run[w].seen <= current'[e]
    BY <1>1, <1>3, <1>6, <1>7, <1>8
  <2> QED
    BY <1>2, <1>3, <1>5, <2>1 DEF Knows, Fetched, Betting, InHand, G!Results
<1> QED
  BY <1>2, <1>5, <1>8, <1>9, <1>10, <1>11, <1>12, GradesStay, GradingMoves

LEMMA CheckCurrentGrading == ASSUME GradingInv, NEW w \in Runs, G!CheckCurrent(w) PROVE GradingInv'
<1> DEFINE pc == IF G!Grades(w) THEN "bet" ELSE "advance"
           todo == IF G!Grades(w) THEN G!BetsOf(run[w].page) ELSE {}
           r == [run[w] EXCEPT !.pc = pc, !.todo = todo]
<1>1. /\ run[w] \in GradingRun /\ run[w].pc = "check"
      /\ Knows(run[w], history, exact, current, grade) /\ checkpoint \in G!Events
  BY RunOf DEF G!CheckCurrent
<1>2. /\ r \in GradingRun /\ r.pc = pc /\ r.page = run[w].page /\ r.result = run[w].result
      /\ r.seen = run[w].seen /\ r.todo = todo
  BY <1>1 DEF GradingRun, Fetched, G!BetsOf
<1>3. /\ run' = [run EXCEPT ![w] = r]
      /\ UNCHANGED <<feed, version, history, exact, current, grades, grade, settled, checkpoint>>
  BY DEF G!CheckCurrent, G!On, G!world, G!resultRows, G!gradeRows
<1>4. pc = "bet" => todo = G!BetsOf(run[w].page)
  OBVIOUS
<1>5. pc \in {"advance", "bet"}
  OBVIOUS
<1> HIDE DEF r, pc, todo
<1>6. Knows(r, history, exact, current, grade)
  BY <1>1, <1>2, <1>4, <1>5 DEF Knows, Fetched, Betting, InHand
<1> QED
  BY <1>1, <1>2, <1>3, <1>6, OnlyRunMoves

\* A run is done with the bet in hand, and unless it failed the bet is graded.
LEMMA DoneKnows ==
  ASSUME GradingInv, NEW w \in Runs, run[w].pc \in Betting, run[w].todo # {}, NEW ok \in BOOLEAN,
         NEW gr \in [Bets -> G!Grade \cup {None}],
         \A b \in Bets : G!Authority(grade[b]) <= G!Authority(gr[b]),
         ok => run[w].result <= G!Authority(gr[G!Bet(w)]), G!Done(w, ok)
  PROVE  \E r \in GradingRun : run' = [run EXCEPT ![w] = r] /\ Knows(r, history, exact, current, gr)
<1> DEFINE r == [run[w] EXCEPT !.pc = "bet", !.todo = run[w].todo \ {G!Bet(w)}, !.read = None,
                               !.prior = None, !.failed = run[w].failed \/ ~ok]
<1>1. run[w] \in GradingRun /\ Knows(run[w], history, exact, current, grade)
  BY RunOf
<1>2. /\ r \in GradingRun /\ r.pc = "bet" /\ r.todo = run[w].todo \ {G!Bet(w)}
      /\ r.failed = (run[w].failed \/ ~ok) /\ r.page = run[w].page /\ r.result = run[w].result
      /\ r.seen = run[w].seen
  BY <1>1 DEF GradingRun, Fetched
<1>3. run' = [run EXCEPT ![w] = r]
  BY DEF G!Done
<1> HIDE DEF r
<1>4. ~r.failed => \A b \in G!BetsOf(r.page) \ r.todo : r.result <= G!Authority(gr[b])
  <2> SUFFICES ASSUME ~r.failed, NEW b \in G!BetsOf(r.page) \ r.todo
               PROVE  r.result <= G!Authority(gr[b])
    OBVIOUS
  <2>1. CASE b = G!Bet(w)
    BY <1>2, <2>1
  <2>2. CASE b # G!Bet(w)
    <3>1. b \in Bets /\ run[w].result <= G!Authority(grade[b])
      BY <1>1, <1>2, <2>2 DEF Knows, G!BetsOf
    <3>2. /\ run[w].result \in Nat /\ G!Authority(grade[b]) \in Nat /\ G!Authority(gr[b]) \in Nat
      BY <1>1, <3>1, RowsAs, AuthorityType, GradingConstants DEF GradingRun
    <3> QED
      BY <1>2, <3>1, <3>2
  <2> QED
    BY <2>1, <2>2
<1>5. Knows(r, history, exact, current, gr)
  BY <1>1, <1>2, <1>4 DEF Knows, Fetched, Betting, InHand
<1> QED
  BY <1>2, <1>3, <1>5

LEMMA DoneGrading ==
  ASSUME GradingInv, NEW w \in Runs, run[w].pc \in Betting, run[w].todo # {}, NEW ok \in BOOLEAN,
         ok => run[w].result <= G!Authority(grade[G!Bet(w)]), G!Done(w, ok),
         UNCHANGED <<feed, version, history, exact, current, grades, grade, settled, checkpoint>>
  PROVE  GradingInv'
<1>1. grade \in [Bets -> G!Grade \cup {None}] /\ checkpoint \in G!Events
  BY DEF GradingInv, GradeRows, GradingRows
<1>2. \A b \in Bets : G!Authority(grade[b]) <= G!Authority(grade[b])
  BY RowsAs
<1>3. PICK r \in GradingRun : run' = [run EXCEPT ![w] = r] /\ Knows(r, history, exact, current, grade)
  BY <1>1, <1>2, DoneKnows
<1> QED
  BY <1>1, <1>3, OnlyRunMoves

LEMMA BetInHand ==
  ASSUME GradingInv, NEW w \in Runs, run[w].todo # {}
  PROVE  /\ G!Bet(w) \in run[w].todo /\ G!Bet(w) \in Bets
         /\ grade[G!Bet(w)] \in G!Grade \cup {None} /\ grades[G!Bet(w)] \subseteq G!Grade
         /\ Chain(grades[G!Bet(w)], grade[G!Bet(w)])
<1>1. G!Bet(w) \in run[w].todo
  BY DEF G!Bet
<1>2. run[w].todo \subseteq Bets
  BY RunOf DEF GradingRun
<1> QED
  BY <1>1, <1>2, RowsAs

LEMMA ReadEvidenceGrading == ASSUME GradingInv, NEW w \in Runs, G!ReadEvidence(w) PROVE GradingInv'
<1>1. /\ run[w].pc = "bet" /\ run[w].todo # {} /\ run[w].pc \in Betting
      /\ UNCHANGED <<feed, version, history, exact, current, grades, grade, settled, checkpoint>>
  BY DEF G!ReadEvidence, G!world, G!resultRows, G!gradeRows, Betting
<1>2. CASE G!Done(w, FALSE)
  BY <1>1, <1>2, DoneGrading
<1>3. CASE G!Goto(w, "grade")
  <2> DEFINE r == [run[w] EXCEPT !.pc = "grade"]
  <2>1. run[w] \in GradingRun /\ Knows(run[w], history, exact, current, grade) /\ checkpoint \in G!Events
    BY RunOf
  <2>2. /\ r \in GradingRun /\ r.pc = "grade" /\ r.page = run[w].page /\ r.result = run[w].result
        /\ r.seen = run[w].seen /\ r.todo = run[w].todo /\ r.failed = run[w].failed
    BY <2>1 DEF GradingRun, Fetched
  <2>3. run' = [run EXCEPT ![w] = r]
    BY <1>3, GotoIs
  <2> HIDE DEF r
  <2>4. Knows(r, history, exact, current, grade)
    BY <1>1, <2>1, <2>2 DEF Knows, Fetched, Betting, InHand
  <2> QED
    BY <1>1, <2>1, <2>2, <2>3, <2>4, OnlyRunMoves
<1> QED
  BY <1>2, <1>3 DEF G!ReadEvidence

LEMMA ReadGradeGrading == ASSUME GradingInv, NEW w \in Runs, G!ReadGrade(w) PROVE GradingInv'
<1> DEFINE r == [run[w] EXCEPT !.pc = "compare", !.read = grade[G!Bet(w)]]
<1>1. /\ run[w] \in GradingRun /\ Knows(run[w], history, exact, current, grade)
      /\ run[w].pc = "grade" /\ checkpoint \in G!Events
  BY RunOf DEF G!ReadGrade
<1>2. run[w].todo # {}
  BY <1>1 DEF Knows, InHand
<1>3. /\ r \in GradingRun /\ r.pc = "compare" /\ r.page = run[w].page /\ r.result = run[w].result
      /\ r.seen = run[w].seen /\ r.todo = run[w].todo /\ r.failed = run[w].failed
  BY <1>1, <1>2, BetInHand DEF GradingRun, Fetched
<1>4. /\ run' = [run EXCEPT ![w] = r]
      /\ UNCHANGED <<feed, version, history, exact, current, grades, grade, settled, checkpoint>>
  BY DEF G!ReadGrade, G!world, G!resultRows, G!gradeRows
<1> HIDE DEF r
<1>5. Knows(r, history, exact, current, grade)
  BY <1>1, <1>2, <1>3 DEF Knows, Fetched, Betting, InHand
<1> QED
  BY <1>1, <1>3, <1>4, <1>5, OnlyRunMoves

LEMMA MadeByIs ==
  ASSUME GradingInv, NEW w \in Runs, run[w].pc \in Fetched
  PROVE  /\ G!Graded(w) = MadeBy(run[w])
         /\ MadeBy(run[w]) \in G!Grade /\ MadeBy(run[w]).result = run[w].result
<1> DEFINE r == run[w]
<1>1. r \in GradingRun /\ r.result \in G!Results
  BY RunOf DEF Knows
<1>2. G!Graded(w) = MadeBy(r)
  BY DEF G!Graded, MadeBy
<1>3. CASE r.read # None /\ r.read.result = r.result
  BY <1>1, <1>2, <1>3 DEF MadeBy, GradingRun
<1>4. CASE ~(r.read # None /\ r.read.result = r.result)
  <2>1. G!Authority(r.read) \in 0 .. MaxResult /\ (r.read # None => r.read.ordinal \in Nat)
    BY <1>1, AuthorityType DEF GradingRun
  <2>2. MadeBy(r) = [result |-> r.result, ordinal |-> IF r.read = None THEN 0 ELSE r.read.ordinal + 1,
                     supersedes |-> G!Authority(r.read)]
    BY <1>4 DEF MadeBy
  <2> QED
    BY <1>1, <1>2, <2>1, <2>2 DEF G!Grade
<1> QED
  BY <1>3, <1>4

\* A grade on record is of no more authority than the current one.
LEMMA ChainTop ==
  ASSUME NEW rows, NEW g \in G!Grade \cup {None}, Chain(rows, g), NEW h \in rows
  PROVE  h.result <= G!Authority(g)
BY AuthorityType DEF Chain

\* A grade that follows the current one extends the chain.
LEMMA ChainGrows ==
  ASSUME NEW rows, NEW p \in G!Grade \cup {None}, Chain(rows, p),
         NEW g \in G!Grade, G!Follows(g, p), G!Authority(p) < g.result
  PROVE  Chain(rows \cup {g}, g)
<1> DEFINE n == Cardinality(rows)
           new == rows \cup {g}
<1>1. rows \subseteq G!Grade /\ IsFiniteSet(rows) /\ n \in Nat
  BY FS_CardinalityType DEF Chain
<1>2. /\ g.result \in Nat /\ g.ordinal \in Nat
      /\ \A h \in rows : h.result \in Nat /\ h.ordinal \in Nat
      /\ p # None => p \in rows /\ p.ordinal \in Nat /\ p.result \in Nat /\ G!Authority(p) = p.result
      /\ p = None => G!Authority(p) = 0 /\ rows = {}
  BY <1>1, GradingConstants, AuthorityType DEF G!Grade, G!Results, Chain
<1>3. g.ordinal = n /\ g.ordinal < g.result
  <2>1. CASE p = None
    BY <1>2, <2>1, FS_EmptySet DEF G!Follows
  <2>2. CASE p # None
    <3>1. g.ordinal = p.ordinal + 1 /\ p.ordinal + 1 = n /\ p.ordinal < p.result
      BY <1>2, <2>2 DEF G!Follows, Chain
    <3>2. p.result < g.result
      BY <1>2, <2>2
    <3> QED
      BY <1>2, <2>2, <3>1, <3>2
  <2> QED
    BY <2>1, <2>2
<1>4. \A h \in rows : h.ordinal < n
  BY DEF Chain
<1>5. g \notin rows
  BY <1>1, <1>3, <1>4
<1>6. IsFiniteSet(new) /\ Cardinality(new) = n + 1
  BY <1>1, <1>5, FS_AddElement
<1>7. \A h \in rows : h.result <= g.result
  <2> SUFFICES ASSUME NEW h \in rows PROVE h.result <= g.result
    OBVIOUS
  <2>1. p # None /\ h.result <= p.result
    BY <1>2 DEF Chain
  <2> QED
    BY <1>2, <2>1
<1>8. \A h \in new : /\ h.ordinal < n + 1 /\ h.ordinal < h.result
                     /\ h.ordinal = 0 => h.supersedes = 0
  <2>1. \A h \in rows : h.ordinal < n /\ h.ordinal < h.result /\ (h.ordinal = 0 => h.supersedes = 0)
    BY DEF Chain
  <2>2. g.ordinal = 0 => g.supersedes = 0
    <3> SUFFICES ASSUME g.ordinal = 0 PROVE g.supersedes = 0
      OBVIOUS
    <3>1. p = None
      BY <1>2, <1>3, <1>4
    <3> QED
      BY <1>2, <3>1 DEF G!Follows
  <2>3. \A h \in rows : h.ordinal < n + 1
    BY <1>1, <1>2, <2>1
  <2>4. g.ordinal < n + 1
    BY <1>1, <1>3
  <2> QED
    BY <1>3, <2>1, <2>2, <2>3, <2>4
<1>9. ASSUME NEW h \in new, NEW k \in new
      PROVE  /\ h.ordinal = k.ordinal => h = k
             /\ k.ordinal = h.ordinal + 1 => k.supersedes = h.result /\ h.result < k.result
  <2>1. CASE h \in rows /\ k \in rows
    BY <2>1 DEF Chain
  <2>2. CASE h = g /\ k \in rows
    BY <1>1, <1>2, <1>3, <1>4, <2>2
  <2>3. CASE h = g /\ k = g
    BY <1>2, <2>3
  <2>4. CASE h \in rows /\ k = g
    <3>1. h.ordinal # k.ordinal
      BY <1>1, <1>2, <1>3, <1>4, <2>4
    <3>2. ASSUME k.ordinal = h.ordinal + 1 PROVE k.supersedes = h.result /\ h.result < k.result
      <4>1. p # None /\ p \in rows /\ p.ordinal + 1 = n
        BY <1>2, <2>4 DEF Chain
      <4>2. h.ordinal = p.ordinal
        BY <1>2, <1>3, <2>4, <3>2, <4>1
      <4>3. h = p
        BY <2>4, <4>1, <4>2 DEF Chain
      <4> QED
        BY <1>2, <2>4, <4>1, <4>3 DEF G!Follows
    <3> QED
      BY <3>1, <3>2
  <2> QED
    BY <2>1, <2>2, <2>3, <2>4
<1>10. \A m \in Nat : m < n + 1 => \E h \in new : h.ordinal = m
  <2> SUFFICES ASSUME NEW m \in Nat, m < n + 1 PROVE \E h \in new : h.ordinal = m
    OBVIOUS
  <2>1. CASE m = n
    BY <1>3, <2>1
  <2>2. CASE m # n
    <3>1. m < n
      BY <1>1, <2>2
    <3> QED
      BY <3>1 DEF Chain
  <2> QED
    BY <2>1, <2>2
<1>11. new \subseteq G!Grade /\ g \in new /\ new # {} /\ g # None
  BY <1>1, GradingConstants
<1> HIDE DEF n, new
<1>12. /\ \A h \in new : h.result <= g.result
       /\ g.ordinal + 1 = Cardinality(new)
  BY <1>2, <1>3, <1>6, <1>7 DEF new
<1>13. Chain(new, g)
  BY <1>6, <1>8, <1>9, <1>10, <1>11, <1>12 DEF Chain
<1> QED
  BY <1>13 DEF new

LEMMA CompareGradeGrading == ASSUME GradingInv, NEW w \in Runs, G!CompareGrade(w) PROVE GradingInv'
<1> DEFINE g == MadeBy(run[w])
           b == G!Bet(w)
           held == grade[b]
<1>1. /\ run[w] \in GradingRun /\ Knows(run[w], history, exact, current, grade)
      /\ run[w].pc = "compare" /\ checkpoint \in G!Events
  BY RunOf DEF G!CompareGrade
<1>2. run[w].todo # {} /\ run[w].pc \in Betting /\ run[w].pc \in Fetched
  BY <1>1 DEF Knows, InHand, Betting, Fetched
<1>3. /\ G!Graded(w) = g /\ g \in G!Grade /\ g.result = run[w].result
  BY <1>2, MadeByIs
<1>4. b \in Bets /\ held \in G!Grade \cup {None} /\ Chain(grades[b], held)
  BY <1>2, BetInHand
<1>5. UNCHANGED <<feed, version, history, exact, current, grades, grade, settled, checkpoint>>
  BY DEF G!CompareGrade, G!world, G!resultRows, G!gradeRows
<1> HIDE DEF g, b, held
<1>6. CASE g \in grades[b] /\ G!Done(w, TRUE)
  <2>1. run[w].result <= G!Authority(held)
    BY <1>3, <1>4, <1>6, ChainTop
  <2> QED
    BY <1>2, <1>5, <1>6, <2>1, DoneGrading DEF held, b
<1>7. CASE g.result <= G!Authority(held) /\ G!Done(w, TRUE)
  BY <1>2, <1>3, <1>5, <1>7, DoneGrading DEF held, b
<1>8. CASE G!Done(w, FALSE)
  BY <1>2, <1>5, <1>8, DoneGrading
<1>9. CASE /\ ~(held # None /\ g.result <= G!Authority(held)) /\ G!Follows(g, held)
           /\ run' = [run EXCEPT ![w] = [@ EXCEPT !.pc = "write", !.prior = held]]
  <2> DEFINE r == [run[w] EXCEPT !.pc = "write", !.prior = held]
  <2>1. G!Authority(held) < g.result
    BY <1>3, <1>4, <1>9, AuthorityType, GradingConstants DEF G!Grade, G!Results
  <2>2. /\ r \in GradingRun /\ r.pc = "write" /\ r.page = run[w].page /\ r.result = run[w].result
        /\ r.seen = run[w].seen /\ r.todo = run[w].todo /\ r.failed = run[w].failed
        /\ r.read = run[w].read /\ r.prior = held
    BY <1>1, <1>4 DEF GradingRun, Fetched
  <2>3. run' = [run EXCEPT ![w] = r]
    BY <1>9
  <2> HIDE DEF r
  <2>4. MadeBy(r) = g
    BY <2>2 DEF MadeBy, g
  <2>5. Knows(r, history, exact, current, grade)
    BY <1>1, <1>3, <1>9, <2>1, <2>2, <2>4 DEF Knows, Fetched, Betting, InHand
  <2> QED
    BY <1>1, <1>5, <2>2, <2>3, <2>5, OnlyRunMoves
<1> QED
  BY <1>3, <1>6, <1>7, <1>8, <1>9 DEF G!CompareGrade, held, b

LEMMA WriteGradeGrading == ASSUME GradingInv, NEW w \in Runs, G!WriteGrade(w) PROVE GradingInv'
<1> DEFINE g == MadeBy(run[w])
           b == G!Bet(w)
<1>1. /\ run[w] \in GradingRun /\ Knows(run[w], history, exact, current, grade)
      /\ run[w].pc = "write" /\ checkpoint \in G!Events
  BY RunOf DEF G!WriteGrade
<1>2. /\ run[w].todo # {} /\ run[w].pc \in Betting /\ run[w].pc \in Fetched
      /\ G!Follows(g, run[w].prior) /\ G!Authority(run[w].prior) < run[w].result
  BY <1>1 DEF Knows, InHand, Betting, Fetched
<1>3. G!Graded(w) = g /\ g \in G!Grade /\ g.result = run[w].result
  BY <1>2, MadeByIs
<1>4. b \in Bets /\ grade[b] \in G!Grade \cup {None} /\ Chain(grades[b], grade[b])
  BY <1>2, BetInHand
<1>5. UNCHANGED <<feed, version, history, exact, current, settled, checkpoint>>
  BY DEF G!WriteGrade, G!world, G!resultRows
<1>6. /\ grade \in [Bets -> G!Grade \cup {None}] /\ grades \in [Bets -> SUBSET G!Grade]
      /\ \A c \in Bets : Chain(grades[c], grade[c])
  BY DEF GradingInv, GradeRows
<1> HIDE DEF g, b
<1>7. CASE /\ grade[b] = run[w].prior
           /\ grades' = [grades EXCEPT ![b] = @ \cup {g}] /\ grade' = [grade EXCEPT ![b] = g]
           /\ G!Done(w, TRUE)
  <2>1. Chain(grades[b] \cup {g}, g)
    BY <1>2, <1>3, <1>4, <1>7, ChainGrows
  <2>2. /\ grade' \in [Bets -> G!Grade \cup {None}] /\ grades' \in [Bets -> SUBSET G!Grade]
        /\ grade'[b] = g /\ grades'[b] = grades[b] \cup {g}
        /\ \A c \in Bets : c # b => grade'[c] = grade[c] /\ grades'[c] = grades[c]
    BY <1>3, <1>4, <1>6, <1>7
  <2>3. \A c \in Bets : Chain(grades'[c], grade'[c])
    BY <1>6, <2>1, <2>2
  <2>4. GradeRows'
    BY <2>2, <2>3 DEF GradeRows
  <2>5. /\ G!Authority(grade'[b]) = g.result /\ g.result \in Nat /\ G!Authority(grade[b]) \in Nat
        /\ G!Authority(grade[b]) <= g.result
    BY <1>2, <1>3, <1>4, <1>7, <2>2, AuthorityType, GradingConstants
  <2>6. ASSUME NEW c \in Bets
        PROVE  /\ G!Authority(grade[c]) <= G!Authority(grade'[c])
               /\ G!Authority(grade[c]) \in Nat /\ G!Authority(grade'[c]) \in Nat
    <3>1. G!Authority(grade[c]) \in Nat
      BY RowsAs
    <3> QED
      BY <2>2, <2>5, <3>1
  <2>7. (G!SettledStaysGraded)'
    <3> SUFFICES ASSUME NEW c \in Bets PROVE settled[EventOf[c]] <= G!Authority(grade'[c])
      BY <1>5 DEF G!SettledStaysGraded
    <3>1. settled[EventOf[c]] \in Nat /\ settled[EventOf[c]] <= G!Authority(grade[c])
      BY GradingConstants DEF GradingInv, GradingRows, G!SettledStaysGraded
    <3> QED
      BY <2>6, <3>1
  <2>8. RowsRise
    BY <1>5, <2>6, RowsAs DEF RowsRise
  <2>9. GradingRows' /\ (G!CurrentIsExact)'
    BY <1>5 DEF GradingInv, GradingRows, G!CurrentIsExact
  <2>10. PICK r \in GradingRun : /\ run' = [run EXCEPT ![w] = r]
                                 /\ Knows(r, history, exact, current, grade')
    <3>1. run[w].result <= G!Authority(grade'[G!Bet(w)])
      BY <1>3, <2>5 DEF b
    <3> QED
      BY <1>2, <1>7, <2>2, <2>6, <3>1, DoneKnows
  <2>11. Knows(r, history', exact', current', grade')
    BY <1>5, <2>10
  <2> QED
    BY <2>4, <2>7, <2>8, <2>9, <2>10, <2>11, GradingMoves
<1>8. CASE /\ G!Done(w, IF g \in grades[b] THEN grade[b] = g ELSE g.result <= G!Authority(grade[b]))
           /\ UNCHANGED <<grades, grade>>
  <2> DEFINE ok == IF g \in grades[b] THEN grade[b] = g ELSE g.result <= G!Authority(grade[b])
  <2>1. CASE g \in grades[b]
    <3> DEFINE same == grade[b] = g
    <3>1. same => run[w].result <= G!Authority(grade[G!Bet(w)])
      BY <1>3, <1>4, <2>1, ChainTop DEF b
    <3>2. G!Done(w, same)
      BY <1>8, <2>1
    <3>3. same \in BOOLEAN
      OBVIOUS
    <3> HIDE DEF same
    <3> QED
      BY <1>2, <1>5, <1>8, <3>1, <3>2, <3>3, DoneGrading
  <2>2. CASE g \notin grades[b]
    <3> DEFINE over == g.result <= G!Authority(grade[b])
    <3>1. over => run[w].result <= G!Authority(grade[G!Bet(w)])
      BY <1>3 DEF b
    <3>2. G!Done(w, over)
      BY <1>8, <2>2
    <3>3. over \in BOOLEAN
      OBVIOUS
    <3> HIDE DEF over
    <3> QED
      BY <1>2, <1>5, <1>8, <3>1, <3>2, <3>3, DoneGrading
  <2> QED
    BY <2>1, <2>2
<1> QED
  BY <1>3, <1>7, <1>8 DEF G!WriteGrade, G!PriorStands, b

LEMMA EndBetsGrading == ASSUME GradingInv, NEW w \in Runs, G!EndBets(w) PROVE GradingInv'
<1> DEFINE e == run[w].page
           n == run[w].result
<1>1. /\ run[w] \in GradingRun /\ Knows(run[w], history, exact, current, grade)
      /\ run[w].pc = "bet" /\ run[w].todo = {} /\ e \in G!Events /\ checkpoint \in G!Events
      /\ UNCHANGED <<feed, version, history, exact, current, grades, grade, checkpoint>>
  BY RunOf DEF G!EndBets, G!world, G!resultRows
<1>2. CASE G!Stop(w) /\ UNCHANGED settled
  BY <1>1, <1>2, StopIs
<1>3. CASE /\ ~run[w].failed /\ G!Goto(w, "advance")
           /\ settled' = [settled EXCEPT ![e] = IF @ < n THEN n ELSE @]
  <2>1. settled \in [G!Events -> 0 .. MaxResult] /\ n \in 0 .. MaxResult
    BY <1>1 DEF GradingInv, GradingRows, GradingRun
  <2>2. /\ settled' \in [G!Events -> 0 .. MaxResult]
        /\ settled'[e] = settled[e] \/ settled'[e] = n
        /\ \A d \in G!Events : d # e => settled'[d] = settled[d]
    BY <1>1, <1>3, <2>1
  <2>3. \A b \in Bets : EventOf[b] = e => n <= G!Authority(grade[b])
    BY <1>1, <1>3 DEF Knows, Betting, G!BetsOf
  <2>4. (G!SettledStaysGraded)'
    <3> SUFFICES ASSUME NEW b \in Bets PROVE settled'[EventOf[b]] <= G!Authority(grade[b])
      BY <1>1 DEF G!SettledStaysGraded
    <3>1. EventOf[b] \in G!Events /\ settled[EventOf[b]] <= G!Authority(grade[b])
      BY GradingConstants DEF GradingInv, G!SettledStaysGraded
    <3> QED
      BY <2>2, <2>3, <3>1
  <2>5. GradingRows' /\ GradeRows' /\ (G!CurrentIsExact)'
    BY <1>1, <2>2 DEF GradingInv, GradingRows, GradeRows, G!CurrentIsExact
  <2>6. RowsRise
    BY <1>1, RowsAs DEF RowsRise
  <2> DEFINE r == [run[w] EXCEPT !.pc = "advance"]
  <2>7. r \in GradingRun /\ r.pc = "advance"
    BY <1>1 DEF GradingRun
  <2>8. run' = [run EXCEPT ![w] = r]
    BY <1>3, GotoIs
  <2> HIDE DEF r
  <2>9. Knows(r, history', exact', current', grade')
    BY <2>7 DEF Knows, Fetched, Betting, InHand
  <2> QED
    BY <2>4, <2>5, <2>6, <2>7, <2>8, <2>9, GradingMoves
<1> QED
  BY <1>2, <1>3 DEF G!EndBets, G!MayAdvance, G!On

LEMMA AdvanceGrading == ASSUME GradingInv, NEW w \in Runs, G!Advance(w) PROVE GradingInv'
<1>1. /\ run[w] \in GradingRun /\ run[w].page \in G!Events /\ G!On(w) = run[w].page
      /\ UNCHANGED <<feed, version, history, exact, current, grades, grade, settled>>
  BY RunOf DEF G!Advance, G!world, G!resultRows, G!gradeRows
<1>2. checkpoint' \in G!Events /\ (run[w].page < LastPage => run[w].page + 1 \in G!Events)
  <2>1. 1 \in G!Events /\ (run[w].page < LastPage => run[w].page + 1 \in G!Events)
    BY <1>1, GradingConstants DEF G!Events
  <2> QED
    BY <1>1, <2>1 DEF G!Advance
<1>3. CASE G!Stop(w)
  BY <1>1, <1>2, <1>3, StopIs
<1>4. CASE /\ run[w].page < LastPage
           /\ run' = [run EXCEPT ![w] = [G!Idle EXCEPT !.pc = "fetch", !.page = run[w].page + 1]]
  <2> DEFINE r == [G!Idle EXCEPT !.pc = "fetch", !.page = run[w].page + 1]
  <2>1. G!Idle \in GradingRun
    BY GradingConstants DEF GradingRun, G!Idle, G!Events
  <2>2. r \in GradingRun /\ r.pc \notin Fetched
    BY <1>2, <1>4, <2>1 DEF GradingRun, Fetched
  <2>3. run' = [run EXCEPT ![w] = r]
    BY <1>4
  <2> HIDE DEF r
  <2> QED
    BY <1>1, <1>2, <2>2, <2>3, Unaware, OnlyRunMoves
<1> QED
  BY <1>1, <1>3, <1>4 DEF G!Advance

LEMMA GradingNext ==
  ASSUME GradingInv, G!Next
  PROVE  GradingInv' /\ \A e \in G!Events : current[e] <= current'[e]
<1>1. \A e \in G!Events : current[e] <= current[e]
  BY RowsAs
<1>2. CASE G!Announce \/ G!MoveEvent
  BY <1>1, <1>2, WorldGrading DEF G!Announce, G!MoveEvent, G!resultRows
<1>3. ASSUME NEW w \in Runs, G!Die(w)
      PROVE  GradingInv' /\ \A e \in G!Events : current[e] <= current'[e]
  <2>1. UNCHANGED <<feed, version, history, exact, current, grades, grade, settled, checkpoint>>
    BY <1>3 DEF G!Die, G!resultRows, G!gradeRows
  <2>2. checkpoint \in G!Events /\ G!Stop(w)
    BY <1>3, RunOf DEF G!Die
  <2> QED
    BY <1>1, <2>1, <2>2, StopIs
<1>4. ASSUME NEW w \in Runs, G!Work(w)
      PROVE  GradingInv' /\ \A e \in G!Events : current[e] <= current'[e]
  <2>1. CASE G!PutCurrent(w)
    BY <2>1, PutCurrentGrading
  <2>2. CASE ~G!PutCurrent(w)
    <3>1. current' = current
      BY <1>4, <2>2 DEF G!Work, G!Begin, G!FetchPage, G!ReadCurrent, G!PutHistory, G!PutExact,
            G!CheckCurrent, G!ReadEvidence, G!ReadGrade, G!CompareGrade, G!WriteGrade, G!EndBets,
            G!Advance, G!resultRows
    <3>2. GradingInv'
      BY <1>4, <2>2, BeginGrading, FetchGrading, ReadCurrentGrading, PutHistoryGrading,
         PutExactGrading, CheckCurrentGrading, ReadEvidenceGrading, ReadGradeGrading,
         CompareGradeGrading, WriteGradeGrading, EndBetsGrading, AdvanceGrading DEF G!Work
    <3> QED
      BY <1>1, <3>1, <3>2
  <2> QED
    BY <2>1, <2>2
<1> QED
  BY <1>2, <1>3, <1>4 DEF G!Next

LEMMA GradesChained == ASSUME GradingInv PROVE G!GradesAreAChain
<1> SUFFICES ASSUME NEW b \in Bets
             PROVE  /\ {g.ordinal : g \in grades[b]} = {n \in 0 .. MaxResult : n < Cardinality(grades[b])}
                    /\ \A g, h \in grades[b] :
                          /\ h.ordinal = g.ordinal + 1 => h.supersedes = g.result /\ g.result < h.result
                          /\ g.ordinal = 0 => g.supersedes = 0
                    /\ grade[b] = None <=> grades[b] = {}
                    /\ grade[b] # None => grade[b] \in grades[b]
                                          /\ \A g \in grades[b] : g.ordinal <= grade[b].ordinal
  <2>1. \A T : G!Cardinality(T) = Cardinality(T)
    BY DEF G!Cardinality, Cardinality
  <2> QED
    BY <2>1 DEF G!GradesAreAChain
<1> DEFINE rows == grades[b]
           n == Cardinality(rows)
<1>1. Chain(rows, grade[b]) /\ rows \subseteq G!Grade /\ n \in Nat
  BY RowsAs, FS_CardinalityType DEF Chain
<1>2. \A g \in rows : g.ordinal \in 0 .. MaxResult /\ g.ordinal < n
  <2> SUFFICES ASSUME NEW g \in rows PROVE g.ordinal \in 0 .. MaxResult /\ g.ordinal < n
    OBVIOUS
  <2>1. g.ordinal \in Nat /\ g.result \in 1 .. MaxResult
    BY <1>1 DEF G!Grade, G!Results
  <2>2. g.ordinal < g.result /\ g.ordinal < n
    BY <1>1 DEF Chain
  <2> QED
    BY <2>1, <2>2, GradingConstants
<1>3. \A m \in 0 .. MaxResult : m < n => \E g \in rows : g.ordinal = m
  BY <1>1 DEF Chain
<1>4. {g.ordinal : g \in rows} = {m \in 0 .. MaxResult : m < n}
  BY <1>2, <1>3
<1>5. grade[b] # None => grade[b] \in rows /\ \A g \in rows : g.ordinal <= grade[b].ordinal
  <2> SUFFICES ASSUME grade[b] # None, NEW g \in rows
               PROVE  grade[b] \in rows /\ g.ordinal <= grade[b].ordinal
    BY <1>1 DEF Chain
  <2>1. grade[b] \in rows /\ grade[b].ordinal + 1 = n
    BY <1>1 DEF Chain
  <2> QED
    BY <1>1, <1>2, <2>1
<1>6. /\ grade[b] = None <=> rows = {}
      /\ \A g, h \in rows : /\ h.ordinal = g.ordinal + 1 => h.supersedes = g.result /\ g.result < h.result
                            /\ g.ordinal = 0 => g.supersedes = 0
  BY <1>1 DEF Chain
<1> QED
  BY <1>4, <1>5, <1>6

-----------------------------------------------------------------------------
(* The generation that is read of a stream, and the pages that land.       *)

Generation == IF cp = None THEN 0 ELSE IF cp.last = None THEN 0 ELSE cp.last.sweep

\* What a step does to what is read: nothing, or it is of a later generation.
Publishes(view, after) == (UNCHANGED Generation /\ after = view) \/ Generation' > Generation

\* The rows landed in a slot by a sweep up to a page, and under a page.
Upto(R, landed, s, w, n) ==
  {r \in R : landed[s][r] # None /\ landed[s][r].sweep = w /\ landed[s][r].page <= n}
Under(R, landed, s, w, n) ==
  {r \in R : landed[s][r] # None /\ landed[s][r].sweep = w /\ landed[s][r].page = n}
Of(R, landed, s, w) == {r \in R : landed[s][r] # None /\ landed[s][r].sweep = w}

Records(R, n) == [{0, 1} -> [R -> {None} \cup [sweep : 1 .. n, page : Nat \ {0}]]]

\* After the pages counted there is only what an invocation landed of the page that is sealed.
PagesOK(R, landed, s, w, n, count, rows) ==
  /\ Cardinality(Upto(R, landed, s, w, n)) = count
  /\ Of(R, landed, s, w) = Upto(R, landed, s, w, n + 1)
  /\ Under(R, landed, s, w, n + 1) \subseteq rows

\* A page that is about to be counted is landed, less the rows of earlier pages.
LandedOK(R, landed, s, w, n, dups, rows) ==
  /\ Under(R, landed, s, w, n + 1) = rows \ Upto(R, landed, s, w, n)
  /\ dups = Cardinality(rows \cap Upto(R, landed, s, w, n))

\* Some rows of a page are written.
Stores(R, landed, s, w, p, put, after) ==
  after = [landed EXCEPT ![s] =
             [r \in R |-> IF r \in put THEN [sweep |-> w, page |-> p + 1] ELSE @[r]]]

\* A sweep stands at a page of a stream.
AtPage(R, n, landed, s, w, p, count, rows) ==
  /\ IsFiniteSet(R) /\ None \notin [sweep : Nat, page : Nat \ {0}]
  /\ n \in Nat /\ landed \in Records(R, n) /\ s \in {0, 1} /\ w \in 1 .. n /\ p \in Nat
  /\ count \in Nat /\ rows \in SUBSET R
  /\ PagesOK(R, landed, s, w, p, count, rows)

LEMMA RowFacts ==
  ASSUME NEW R, IsFiniteSet(R), NEW n \in Nat, NEW landed \in Records(R, n),
         NEW s \in {0, 1}, NEW w, NEW p \in Nat
  PROVE  /\ Upto(R, landed, s, w, p + 1) = Upto(R, landed, s, w, p) \cup Under(R, landed, s, w, p + 1)
         /\ Upto(R, landed, s, w, p) \cap Under(R, landed, s, w, p + 1) = {}
         /\ IsFiniteSet(Upto(R, landed, s, w, p)) /\ Upto(R, landed, s, w, p) \subseteq R
         /\ Cardinality(Upto(R, landed, s, w, p)) \in Nat
<1>1. ASSUME NEW r \in R, landed[s][r] # None
      PROVE  landed[s][r].page \in Nat
  BY <1>1 DEF Records
<1>2. Upto(R, landed, s, w, p + 1) = Upto(R, landed, s, w, p) \cup Under(R, landed, s, w, p + 1)
  BY <1>1 DEF Upto, Under
<1>3. Upto(R, landed, s, w, p) \cap Under(R, landed, s, w, p + 1) = {}
  BY <1>1 DEF Upto, Under
<1>4. Upto(R, landed, s, w, p) \subseteq R
  BY DEF Upto
<1> QED
  BY <1>2, <1>3, <1>4, FS_Subset, FS_CardinalityType

\* A sweep that begins has landed nothing.
LEMMA NothingLanded ==
  ASSUME NEW R, NEW n \in Nat, NEW landed \in Records(R, n), NEW s \in {0, 1}
  PROVE  landed \in Records(R, n + 1) /\ PagesOK(R, landed, s, n + 1, 0, 0, {})
<1>1. landed \in Records(R, n + 1)
  <2>1. {None} \cup [sweep : 1 .. n, page : Nat \ {0}]
           \subseteq {None} \cup [sweep : 1 .. n + 1, page : Nat \ {0}]
    OBVIOUS
  <2> QED
    BY <2>1 DEF Records
<1>2. Of(R, landed, s, n + 1) = {}
  <2> SUFFICES ASSUME NEW r \in R, landed[s][r] # None PROVE landed[s][r].sweep # n + 1
    BY DEF Of
  <2>1. landed[s][r].sweep \in 1 .. n
    BY DEF Records
  <2> QED
    BY <2>1
<1>3. \A p : Upto(R, landed, s, n + 1, p) = {} /\ Under(R, landed, s, n + 1, p) = {}
  BY <1>2 DEF Of, Upto, Under
<1>4. Cardinality({}) = 0
  BY FS_EmptySet
<1> QED
  BY <1>1, <1>2, <1>3, <1>4 DEF PagesOK

LEMMA DuplicatesAre ==
  ASSUME NEW R, NEW n \in Nat, NEW landed \in Records(R, n), NEW s \in {0, 1}, NEW w,
         NEW p \in Nat, NEW rows \in SUBSET R,
         Of(R, landed, s, w) = Upto(R, landed, s, w, p + 1)
  PROVE  {r \in rows : landed[s][r] # None /\ landed[s][r].sweep = w /\ landed[s][r].page # p + 1}
           = rows \cap Upto(R, landed, s, w, p)
<1>1. ASSUME NEW r \in R, landed[s][r] # None, landed[s][r].sweep = w
      PROVE  landed[s][r].page \in Nat /\ landed[s][r].page <= p + 1
  <2>1. landed[s][r].page \in Nat
    BY <1>1 DEF Records
  <2>2. r \in Of(R, landed, s, w)
    BY <1>1 DEF Of
  <2> QED
    BY <2>1, <2>2 DEF Upto
<1> QED
  BY <1>1 DEF Upto

\* Writing rows of the sealed page, none of them of an earlier page, is no more than the page.
LEMMA Storing ==
  ASSUME NEW R, NEW n, NEW landed, NEW s, NEW w, NEW p, NEW count, NEW rows,
         AtPage(R, n, landed, s, w, p, count, rows),
         NEW put \in SUBSET (rows \ Upto(R, landed, s, w, p)),
         NEW after, Stores(R, landed, s, w, p, put, after)
  PROVE  /\ after \in Records(R, n)
         /\ \A x \in {0, 1} : x # s => \A v : Of(R, after, x, v) = Of(R, landed, x, v)
         /\ Upto(R, after, s, w, p) = Upto(R, landed, s, w, p)
         /\ Under(R, after, s, w, p + 1) = Under(R, landed, s, w, p + 1) \cup put
         /\ PagesOK(R, after, s, w, p, count, rows)
<1>0. /\ None \notin [sweep : Nat, page : Nat \ {0}] /\ n \in Nat /\ landed \in Records(R, n)
      /\ s \in {0, 1} /\ w \in 1 .. n /\ p \in Nat /\ rows \in SUBSET R
      /\ PagesOK(R, landed, s, w, p, count, rows)
  BY DEF AtPage
<1> USE <1>0
<1> DEFINE new == [sweep |-> w, page |-> p + 1]
<1>1. /\ \A r \in R : after[s][r] = IF r \in put THEN new ELSE landed[s][r]
      /\ \A x \in {0, 1} : x # s => after[x] = landed[x]
  BY DEF Records, Stores
<1>2. new \in [sweep : 1 .. n, page : Nat \ {0}] /\ new # None
  OBVIOUS
<1>3. after \in Records(R, n)
  BY <1>2 DEF Records, Stores
<1>4. new.sweep = w /\ new.page = p + 1
  OBVIOUS
<1> HIDE DEF new
<1>5. \A x \in {0, 1} : x # s => \A v : Of(R, after, x, v) = Of(R, landed, x, v)
  BY <1>1 DEF Of
<1>6. \A r \in put : r \in R /\ r \in rows /\ r \notin Upto(R, landed, s, w, p)
  OBVIOUS
<1>7. Upto(R, after, s, w, p) = Upto(R, landed, s, w, p)
  <2>1. ~(p + 1 <= p)
    OBVIOUS
  <2> QED
    BY <1>1, <1>2, <1>4, <1>6, <2>1 DEF Upto
<1>8. Under(R, after, s, w, p + 1) = Under(R, landed, s, w, p + 1) \cup put
  BY <1>1, <1>2, <1>4, <1>6 DEF Under
<1>9. Of(R, after, s, w) = Of(R, landed, s, w) \cup put
  BY <1>1, <1>2, <1>4, <1>6 DEF Of
<1>10. Upto(R, after, s, w, p + 1) = Upto(R, landed, s, w, p + 1) \cup put
  <2>1. p + 1 <= p + 1
    OBVIOUS
  <2> QED
    BY <1>1, <1>2, <1>4, <1>6, <2>1 DEF Upto
<1> QED
  BY <1>3, <1>5, <1>6, <1>7, <1>8, <1>9, <1>10 DEF PagesOK

\* With a whole page landed, and its duplicates counted off, the next count is of all rows.
LEMMA Counting ==
  ASSUME NEW R, NEW n, NEW landed, NEW s, NEW w, NEW p, NEW count, NEW rows,
         AtPage(R, n, landed, s, w, p, count, rows),
         NEW dups, LandedOK(R, landed, s, w, p, dups, rows)
  PROVE  /\ PagesOK(R, landed, s, w, p + 1, count + Cardinality(rows) - dups, {})
         /\ Cardinality(Of(R, landed, s, w)) = count + Cardinality(rows) - dups
         /\ Cardinality(rows) \in Nat /\ dups \in 0 .. Cardinality(rows)
<1>0. /\ IsFiniteSet(R) /\ n \in Nat /\ landed \in Records(R, n) /\ s \in {0, 1} /\ p \in Nat
      /\ count \in Nat /\ rows \in SUBSET R /\ PagesOK(R, landed, s, w, p, count, rows)
  BY DEF AtPage
<1> USE <1>0
<1> DEFINE U == Upto(R, landed, s, w, p)
           V == Upto(R, landed, s, w, p + 1)
<1>1. /\ V = U \cup Under(R, landed, s, w, p + 1)
      /\ IsFiniteSet(U) /\ IsFiniteSet(rows)
  <2>1. V = U \cup Under(R, landed, s, w, p + 1) /\ IsFiniteSet(U)
    BY RowFacts
  <2> QED
    BY <2>1, FS_Subset
<1>2. V = U \cup rows
  BY <1>1 DEF LandedOK
<1>3. /\ Cardinality(V) = Cardinality(U) + Cardinality(rows) - Cardinality(U \cap rows)
      /\ Cardinality(rows) \in Nat
      /\ Cardinality(rows \cap U) \in Nat /\ Cardinality(rows \cap U) <= Cardinality(rows)
  BY <1>1, <1>2, FS_Union, FS_CardinalityType, FS_Intersection
<1>4. U \cap rows = rows \cap U /\ dups = Cardinality(rows \cap U) /\ Cardinality(U) = count
  BY DEF LandedOK, PagesOK
<1>5. Cardinality(V) = count + Cardinality(rows) - dups
  BY <1>3, <1>4
<1>6. Of(R, landed, s, w) = V
  BY DEF PagesOK
<1>7. Upto(R, landed, s, w, p + 2) = V /\ Under(R, landed, s, w, p + 2) = {}
  <2>1. ASSUME NEW r \in R, landed[s][r] # None, landed[s][r].sweep = w
        PROVE  landed[s][r].page \in Nat /\ landed[s][r].page <= p + 1
    <3>1. landed[s][r].page \in Nat
      BY <2>1 DEF Records
    <3>2. r \in Of(R, landed, s, w)
      BY <2>1 DEF Of
    <3> QED
      BY <1>6, <3>1, <3>2 DEF Upto
  <2>2. \A r \in R : landed[s][r] # None /\ landed[s][r].sweep = w =>
           landed[s][r].page <= p + 2 /\ landed[s][r].page # p + 2
    BY <2>1
  <2> QED
    BY <2>1, <2>2 DEF Upto, Under
<1>8. p + 1 + 1 = p + 2
  OBVIOUS
<1> QED
  BY <1>3, <1>4, <1>5, <1>6, <1>7, <1>8 DEF PagesOK

\* An attempt that is counted and lands nothing leaves the counts right.
LEMMA Passing ==
  ASSUME NEW R, NEW n, NEW landed, NEW s, NEW w, NEW p, NEW count,
         AtPage(R, n, landed, s, w, p, count, {})
  PROVE  PagesOK(R, landed, s, w, p + 1, count, {})
<1>1. LandedOK(R, landed, s, w, p, 0, {})
  <2>1. {} \ Upto(R, landed, s, w, p) = {} /\ {} \cap Upto(R, landed, s, w, p) = {}
    OBVIOUS
  <2> QED
    BY <2>1, FS_EmptySet DEF LandedOK, PagesOK, AtPage
<1>2. PagesOK(R, landed, s, w, p + 1, count + Cardinality({}) - 0, {})
  BY <1>1, Counting
<1>3. count + Cardinality({}) - 0 = count
  BY FS_EmptySet DEF AtPage
<1> QED
  BY <1>2, <1>3

-----------------------------------------------------------------------------
(* The landing of the catalog.                                             *)

\* The rows landed in a slot by a sweep, and the first rows of a snapshot.
Written(landed, s, w) == {r \in CatalogRows : landed[s][r] = w}
FirstRows(snap, n)    == {SnapshotRows[snap][i] : i \in 1 .. n}
RowsIn(chunk)         == {chunk[i] : i \in DOMAIN chunk}
IsNextChunk(snap, n, m, chunk) ==
  m = C!Min2(n + Chunk, Len(SnapshotRows[snap])) /\ chunk = SubSeq(SnapshotRows[snap], n + 1, m)

\* What a completed sweep left behind is one snapshot, all of it.
WholeIn(snap, done, landed) ==
  /\ done.rows = Len(SnapshotRows[snap])
  /\ Written(landed, done.slot, done.sweep) = FirstRows(snap, done.rows)

\* Nothing is landed before a snapshot is sealed; after that the chunks counted, and of the next
\* chunk what an invocation may have written before it died.
CatalogPage(c, landed) ==
  LET written == Written(landed, c.slot, c.sweep) IN
  /\ c.pending = None => c.counted = 0 /\ written = {}
  /\ c.pending # None =>
        /\ c.counted <= Len(SnapshotRows[c.pending])
        /\ FirstRows(c.pending, c.counted) \subseteq written
        /\ written \subseteq
             FirstRows(c.pending, C!Min2(c.counted + Chunk, Len(SnapshotRows[c.pending])))

CatalogCheckpoint(c, n, landed) ==
  /\ c.sweep = n /\ n > 0
  /\ c.last # None => c.last.sweep \in 1 .. n /\ \E snap \in Snapshots : WholeIn(snap, c.last, landed)
  /\ c.status = "running" =>
        /\ CatalogPage(c, landed)
        /\ c.last # None => c.last.slot # c.slot /\ c.last.sweep # n
  /\ c.status = "complete" =>
        /\ c.plan \in Snapshots /\ c.last # None
        /\ c.last.sweep = n /\ c.last.slot = c.slot /\ WholeIn(c.plan, c.last, landed)

\* An invocation holds the snapshot that is sealed; the chunk it is about to count is written.
CatalogInvocation(i, c, landed) ==
  /\ i.pc # "idle" => c.status = "running"
  /\ i.pc \in {"write", "count"} => c.pending # None /\ i.snap = c.pending
  /\ i.pc = "count" =>
        /\ c.counted < Len(SnapshotRows[c.pending])
        /\ FirstRows(c.pending, C!Min2(c.counted + Chunk, Len(SnapshotRows[c.pending])))
             \subseteq Written(landed, c.slot, c.sweep)

CatalogWorker == [pc : {"idle", "fetch", "write", "count"}, snap : Snapshots \cup {None}]
CatalogRecords(n) == [C!Slots -> [CatalogRows -> {None} \cup 1 .. n]]

CatalogInv ==
  /\ sweeps \in Nat
  /\ cp \in C!Checkpoint \cup {None}
  /\ rec \in CatalogRecords(sweeps)
  /\ inv \in CatalogWorker
  /\ cp = None => sweeps = 0 /\ inv = C!Idle
  /\ cp # None => CatalogCheckpoint(cp, sweeps, rec) /\ CatalogInvocation(inv, cp, rec)

LEMMA CatalogConstants ==
  /\ SnapshotRows \in [Snapshots -> Seq(CatalogRows)]
  /\ Chunk \in Nat \ {0}
  /\ None \notin Snapshots \cup Nat /\ None \notin C!Checkpoint /\ None \notin C!Published
BY PipelinesAssumption DEF C!CatalogAssumption

\* The next chunk of a snapshot takes its first rows a chunk further.
LEMMA ChunkFacts ==
  ASSUME NEW snap \in Snapshots, NEW n \in Nat, n < Len(SnapshotRows[snap]),
         NEW m, NEW chunk, IsNextChunk(snap, n, m, chunk)
  PROVE  /\ m \in Nat /\ n < m /\ m <= Len(SnapshotRows[snap])
         /\ Len(chunk) = m - n
         /\ FirstRows(snap, m) = FirstRows(snap, n) \cup RowsIn(chunk)
<1> DEFINE s == SnapshotRows[snap]
<1>1. s \in Seq(CatalogRows) /\ Len(s) \in Nat
  BY CatalogConstants
<1>2. m \in Nat /\ n < m /\ m <= Len(s)
  BY <1>1, CatalogConstants DEF C!Min2, IsNextChunk
<1>3. /\ chunk \in Seq(CatalogRows) /\ Len(chunk) = m - n
      /\ \A i \in 1 .. m - n : chunk[i] = s[n + i]
  <2>1. \A i \in n + 1 .. m : s[i] \in CatalogRows
    BY <1>1, <1>2
  <2>2. PICK a \in Int, b \in Int : a = n + 1 /\ b = m
    BY <1>2
  <2>3. /\ SubSeq(s, a, b) \in Seq(CatalogRows)
        /\ Len(SubSeq(s, a, b)) = IF a <= b THEN b - a + 1 ELSE 0
        /\ \A i \in 1 .. b - a + 1 : SubSeq(s, a, b)[i] = s[a + i - 1]
    <3> HIDE DEF s
    <3> QED
      BY <2>1, <2>2, SubSeqProperties
  <2>4. chunk = SubSeq(s, a, b)
    BY <2>2 DEF IsNextChunk
  <2>5. a <= b /\ b - a + 1 = m - n /\ \A i \in 1 .. m - n : a + i - 1 = n + i
    BY <1>2, <2>2
  <2> QED
    BY <2>3, <2>4, <2>5
<1>4. DOMAIN chunk = 1 .. m - n
  BY <1>3
<1>5. ASSUME NEW r \in FirstRows(snap, m)
      PROVE  r \in FirstRows(snap, n) \cup RowsIn(chunk)
  <2>1. PICK i \in 1 .. m : r = s[i]
    BY DEF FirstRows
  <2>2. CASE i <= n
    BY <2>1, <2>2, <1>2 DEF FirstRows
  <2>3. CASE i > n
    <3>1. i - n \in 1 .. m - n /\ n + (i - n) = i
      BY <2>3, <1>2
    <3> QED
      BY <3>1, <2>1, <1>3, <1>4 DEF RowsIn
  <2> QED
    BY <2>2, <2>3, <1>2
<1>6. ASSUME NEW r \in FirstRows(snap, n) PROVE r \in FirstRows(snap, m)
  BY <1>2 DEF FirstRows
<1>7. ASSUME NEW i \in DOMAIN chunk PROVE chunk[i] \in FirstRows(snap, m)
  <2>1. i \in 1 .. m - n
    BY <1>4
  <2>2. n + i \in 1 .. m
    BY <2>1, <1>2
  <2>3. chunk[i] = SnapshotRows[snap][n + i]
    BY <2>1, <1>3
  <2> QED
    BY <2>2, <2>3 DEF FirstRows
<1> QED
  BY <1>2, <1>3, <1>5, <1>6, <1>7 DEF RowsIn

LEMMA FirstRowsGrow ==
  ASSUME NEW snap, NEW m \in Nat, NEW n \in Nat, m <= n
  PROVE  FirstRows(snap, m) \subseteq FirstRows(snap, n)
BY DEF FirstRows

\* What is read stays when the last sweep is the same and its rows are.
LEMMA CatalogKept ==
  ASSUME cp # None, cp' # None, cp'.last = cp.last,
         cp.last # None =>
            Written(rec', cp.last.slot, cp.last.sweep) = Written(rec, cp.last.slot, cp.last.sweep)
  PROVE  Publishes(C!Current, C!Current')
<1>1. Generation' = Generation
  BY DEF Generation
<1>2. C!Current' = C!Current
  BY DEF C!Current, Written
<1> QED
  BY <1>1, <1>2 DEF Publishes

\* A sweep that begins has landed nothing: no row is of its number yet.
LEMMA CatalogBegins ==
  ASSUME CatalogInv, NEW slot \in C!Slots, NEW last \in C!Published \cup {None},
         cp' = C!Fresh(slot, last), sweeps' = sweeps + 1, rec' = rec,
         inv' \in CatalogWorker, inv'.pc = "idle",
         last # None => /\ last.slot # slot /\ last.sweep \in 1 .. sweeps
                        /\ \E snap \in Snapshots : WholeIn(snap, last, rec)
  PROVE  CatalogInv' /\ cp' # None /\ cp'.last = last
<1> DEFINE n == sweeps + 1
<1>1. sweeps \in Nat /\ n \in Nat /\ n > 0 /\ sweeps' = n /\ sweeps < n
  BY DEF CatalogInv
<1>2. /\ cp' \in C!Checkpoint /\ cp' # None
      /\ cp'.sweep = n /\ cp'.slot = slot /\ cp'.status = "running" /\ cp'.pending = None
      /\ cp'.counted = 0 /\ cp'.last = last
  <2>1. cp' \in C!Checkpoint
    BY <1>1 DEF C!Fresh, C!Checkpoint
  <2>2. /\ cp'.sweep = n /\ cp'.slot = slot /\ cp'.status = "running" /\ cp'.pending = None
        /\ cp'.counted = 0 /\ cp'.last = last
    BY <1>1 DEF C!Fresh
  <2> QED
    BY <2>1, <2>2, CatalogConstants
<1>3. rec' \in CatalogRecords(n)
  BY <1>1 DEF CatalogInv, CatalogRecords
<1>4. Written(rec', slot, n) = {}
  <2> SUFFICES ASSUME NEW r \in CatalogRows PROVE rec[slot][r] # n
    BY DEF Written
  <2>1. rec[slot][r] \in {None} \cup 1 .. sweeps
    BY DEF CatalogInv, CatalogRecords
  <2> QED
    BY <2>1, <1>1, CatalogConstants
<1>5. CatalogPage(cp', rec')
  BY <1>2, <1>4 DEF CatalogPage
<1>6. CatalogCheckpoint(cp', n, rec')
  BY <1>1, <1>2, <1>5 DEF CatalogCheckpoint
<1>7. CatalogInvocation(inv', cp', rec')
  BY DEF CatalogInvocation
<1> QED
  BY <1>1, <1>2, <1>3, <1>6, <1>7 DEF CatalogInv

LEMMA CatalogStart ==
  ASSUME CatalogInv, C!StartSweep
  PROVE  CatalogInv' /\ Publishes(C!Current, C!Current')
<1>1. /\ rec' = rec /\ inv' = inv /\ sweeps' = sweeps + 1 /\ inv.pc = "idle"
      /\ cp' = IF cp = None THEN C!Fresh(0, None) ELSE C!Fresh(1 - cp.slot, cp.last)
      /\ ~C!Running
  BY DEF C!StartSweep
<1>2. CASE cp = None
  <2>1. cp' = C!Fresh(0, None)
    BY <1>1, <1>2
  <2>2. 0 \in C!Slots
    BY DEF C!Slots
  <2>3. inv' \in CatalogWorker /\ inv'.pc = "idle"
    BY <1>1 DEF CatalogInv
  <2>4. CatalogInv'
    BY <1>1, <2>1, <2>2, <2>3, CatalogBegins
  <2>5. cp' # None /\ cp'.last = None
    BY <1>1, <2>1, <2>2, <2>3, CatalogBegins
  <2>6. Generation = 0 /\ Generation' = 0 /\ C!Current = {} /\ C!Current' = {}
    BY <1>2, <2>5 DEF Generation, C!Current
  <2> QED
    BY <2>4, <2>6 DEF Publishes
<1>3. CASE cp # None
  <2>1. cp' = C!Fresh(1 - cp.slot, cp.last) /\ cp.status = "complete" /\ cp \in C!Checkpoint
    BY <1>1, <1>3 DEF CatalogInv, C!Running, C!Checkpoint
  <2>2. /\ cp.slot \in C!Slots /\ 1 - cp.slot \in C!Slots /\ 1 - cp.slot # cp.slot
        /\ cp.last \in C!Published \cup {None}
    BY <2>1 DEF C!Checkpoint, C!Slots
  <2>3. inv' \in CatalogWorker /\ inv'.pc = "idle"
    BY <1>1 DEF CatalogInv
  <2>4. CatalogCheckpoint(cp, sweeps, rec)
    BY <1>3 DEF CatalogInv
  <2>5. cp.last # None => /\ cp.last.slot # 1 - cp.slot /\ cp.last.sweep \in 1 .. sweeps
                          /\ \E snap \in Snapshots : WholeIn(snap, cp.last, rec)
    BY <2>1, <2>2, <2>4 DEF CatalogCheckpoint
  <2>6. CatalogInv'
    BY <1>1, <2>1, <2>2, <2>3, <2>5, CatalogBegins
  <2>7. cp' # None /\ cp'.last = cp.last
    BY <1>1, <2>1, <2>2, <2>3, <2>5, CatalogBegins
  <2> QED
    BY <1>1, <1>3, <2>6, <2>7, CatalogKept
<1> QED
  BY <1>2, <1>3

\* Steps that move the worker between its calls, and the pause of the stream.
LEMMA CatalogMoves ==
  ASSUME CatalogInv, cp # None, rec' = rec, sweeps' = sweeps,
         cp' = cp \/ \E b \in BOOLEAN : cp' = [cp EXCEPT !.paused = b],
         inv' \in CatalogWorker, CatalogInvocation(inv', cp, rec)
  PROVE  CatalogInv' /\ Publishes(C!Current, C!Current')
<1>1. cp \in C!Checkpoint /\ CatalogCheckpoint(cp, sweeps, rec)
  BY DEF CatalogInv
<1>2. /\ cp' \in C!Checkpoint /\ cp' # None
      /\ cp'.status = cp.status /\ cp'.sweep = cp.sweep /\ cp'.slot = cp.slot
      /\ cp'.counted = cp.counted /\ cp'.pending = cp.pending /\ cp'.plan = cp.plan
      /\ cp'.last = cp.last
  BY <1>1, CatalogConstants DEF C!Checkpoint
<1>3. CatalogPage(cp, rec) => CatalogPage(cp', rec')
  BY <1>2 DEF CatalogPage
<1>4. CatalogCheckpoint(cp', sweeps', rec')
  BY <1>1, <1>2, <1>3 DEF CatalogCheckpoint
<1>5. CatalogInvocation(inv', cp', rec')
  BY <1>2 DEF CatalogInvocation
<1>6. CatalogInv'
  BY <1>2, <1>4, <1>5 DEF CatalogInv
<1> QED
  BY <1>2, <1>6, CatalogKept

LEMMA CatalogInvoke == ASSUME CatalogInv, C!Invoke PROVE CatalogInv' /\ Publishes(C!Current, C!Current')
<1>1. /\ cp # None /\ cp.status = "running" /\ cp' = cp /\ rec' = rec /\ sweeps' = sweeps
      /\ inv' = [inv EXCEPT !.pc = "fetch"]
  BY DEF C!Invoke, C!Running
<1>2. inv' \in CatalogWorker /\ inv'.pc = "fetch"
  BY <1>1 DEF CatalogInv, CatalogWorker
<1>3. CatalogInvocation(inv', cp, rec)
  BY <1>1, <1>2 DEF CatalogInvocation
<1> QED
  BY <1>1, <1>2, <1>3, CatalogMoves

\* An invocation at rest relies on nothing.
LEMMA CatalogRest ==
  /\ C!Idle \in CatalogWorker /\ C!Idle.pc = "idle"
  /\ \A c, landed : CatalogInvocation(C!Idle, c, landed)
BY DEF C!Idle, CatalogWorker, CatalogInvocation

LEMMA CatalogPause == ASSUME CatalogInv, C!PauseStream PROVE CatalogInv' /\ Publishes(C!Current, C!Current')
<1>1. /\ cp' = [cp EXCEPT !.paused = TRUE] /\ rec' = rec /\ sweeps' = sweeps /\ inv' = C!Idle
      /\ inv.pc # "idle"
  BY DEF C!PauseStream, C!Return
<1>2. cp # None
  BY <1>1, CatalogRest DEF CatalogInv
<1> QED
  BY <1>1, <1>2, CatalogRest, CatalogMoves

LEMMA CatalogElapse == ASSUME CatalogInv, C!Elapse PROVE CatalogInv' /\ Publishes(C!Current, C!Current')
<1>1. /\ cp' = [cp EXCEPT !.paused = FALSE] /\ rec' = rec /\ sweeps' = sweeps /\ inv' = inv
      /\ cp # None
  BY DEF C!Elapse
<1>2. inv' \in CatalogWorker /\ CatalogInvocation(inv', cp, rec)
  BY <1>1 DEF CatalogInv
<1> QED
  BY <1>1, <1>2, CatalogMoves

LEMMA CatalogStop == ASSUME CatalogInv, C!Stop PROVE CatalogInv' /\ Publishes(C!Current, C!Current')
<1>1. cp' = cp /\ rec' = rec /\ sweeps' = sweeps /\ inv' = C!Idle /\ inv.pc # "idle"
  BY DEF C!Stop, C!Return
<1>2. cp # None
  BY <1>1, CatalogRest DEF CatalogInv
<1> QED
  BY <1>1, <1>2, CatalogRest, CatalogMoves

\* The first snapshot is sealed, the sealed one is met again, or another one ends the sweep.
LEMMA CatalogReceive ==
  ASSUME CatalogInv, NEW snap \in Snapshots, C!Receive(snap), inv.pc = "fetch", rec' = rec
  PROVE  CatalogInv' /\ Publishes(C!Current, C!Current')
<1>1. /\ cp # None /\ cp \in C!Checkpoint /\ cp.status = "running" /\ snap # None
      /\ CatalogCheckpoint(cp, sweeps, rec) /\ CatalogPage(cp, rec)
      /\ cp.last # None => cp.last.slot # cp.slot
  BY CatalogRest, CatalogConstants DEF CatalogInv, CatalogInvocation, CatalogCheckpoint
<1>2. CASE C!Contradicts(snap)
  <2>1. cp' = C!Fresh(cp.slot, cp.last) /\ sweeps' = sweeps + 1 /\ inv' = C!Idle
    BY <1>2 DEF C!Receive, C!Return
  <2>2. cp.slot \in C!Slots /\ cp.last \in C!Published \cup {None}
    BY <1>1 DEF C!Checkpoint
  <2>3. cp.last # None => /\ cp.last.slot # cp.slot /\ cp.last.sweep \in 1 .. sweeps
                          /\ \E s \in Snapshots : WholeIn(s, cp.last, rec)
    BY <1>1 DEF CatalogCheckpoint
  <2>4. CatalogInv'
    BY <2>1, <2>2, <2>3, CatalogRest, CatalogBegins
  <2>5. cp' # None /\ cp'.last = cp.last
    BY <2>1, <2>2, <2>3, CatalogRest, CatalogBegins
  <2> QED
    BY <1>1, <2>4, <2>5, CatalogKept
<1>3. CASE cp.pending # None /\ ~C!Contradicts(snap)
  <2>1. cp' = cp /\ sweeps' = sweeps /\ inv' = [pc |-> "write", snap |-> snap] /\ cp.pending = snap
    BY <1>3 DEF C!Receive, C!Contradicts
  <2>2. inv' \in CatalogWorker /\ CatalogInvocation(inv', cp, rec)
    BY <1>1, <2>1 DEF CatalogWorker, CatalogInvocation
  <2> QED
    BY <1>1, <2>1, <2>2, CatalogMoves
<1>4. CASE cp.pending = None
  <2> DEFINE c == [cp EXCEPT !.pending = snap, !.plan = snap]
             i == [pc |-> "write", snap |-> snap]
  <2>1. sweeps' = sweeps /\ ((cp' = c /\ inv' = i) \/ (cp' = cp /\ inv' = C!Idle))
    BY <1>4 DEF C!Receive, C!Contradicts, C!PutAndGo, C!Return
  <2>2. CASE cp' = cp /\ inv' = C!Idle
    BY <1>1, <2>1, <2>2, CatalogRest, CatalogMoves
  <2>3. CASE cp' = c /\ inv' = i
    <3>1. /\ c \in C!Checkpoint /\ c # None /\ c.status = "running" /\ c.sweep = cp.sweep
          /\ c.slot = cp.slot /\ c.counted = cp.counted /\ c.pending = snap /\ c.last = cp.last
      <4>1. cp \in C!Checkpoint /\ cp.status = "running" /\ snap \in Snapshots
        BY <1>1
      <4>2. c \in C!Checkpoint
        BY <4>1 DEF C!Checkpoint
      <4>3. /\ c.status = cp.status /\ c.sweep = cp.sweep /\ c.slot = cp.slot
            /\ c.counted = cp.counted /\ c.pending = snap /\ c.last = cp.last
        BY <4>1 DEF C!Checkpoint
      <4> HIDE DEF c
      <4> QED
        BY <4>1, <4>2, <4>3, CatalogConstants
    <3> HIDE DEF c
    <3>2. cp.counted = 0 /\ Written(rec, cp.slot, cp.sweep) = {}
      BY <1>1, <1>4 DEF CatalogPage
    <3>3. Len(SnapshotRows[snap]) \in Nat /\ FirstRows(snap, 0) = {}
      BY CatalogConstants DEF FirstRows
    <3>4. CatalogPage(c, rec)
      BY <1>1, <3>1, <3>2, <3>3 DEF CatalogPage
    <3>5. CatalogCheckpoint(c, sweeps, rec)
      BY <1>1, <3>1, <3>4 DEF CatalogCheckpoint
    <3>6. i \in CatalogWorker /\ CatalogInvocation(i, c, rec)
      BY <1>1, <3>1 DEF CatalogWorker, CatalogInvocation
    <3> HIDE DEF i
    <3>7. CatalogInv'
      BY <2>1, <2>3, <3>1, <3>5, <3>6 DEF CatalogInv
    <3> QED
      BY <1>1, <2>3, <3>1, <3>7, CatalogKept
  <2> QED
    BY <2>1, <2>2, <2>3
<1> QED
  BY <1>2, <1>3, <1>4

LEMMA CatalogFetch == ASSUME CatalogInv, C!FetchCatalog PROVE CatalogInv' /\ Publishes(C!Current, C!Current')
<1>1. inv.pc = "fetch" /\ rec' = rec /\ \E snap \in Snapshots : C!Receive(snap)
  BY PipelinesAssumption DEF C!FetchCatalog, C!CatalogAssumption
<1> QED
  BY <1>1, CatalogReceive

\* Writing a part of the next chunk, or all of it, leaves rows of that chunk alone.
LEMMA CatalogPut == ASSUME CatalogInv, C!PutRecords PROVE CatalogInv' /\ Publishes(C!Current, C!Current')
<1> DEFINE snap  == inv.snap
           n     == cp.counted
           m     == C!Min2(cp.counted + Chunk, Len(SnapshotRows[inv.snap]))
           chunk == SubSeq(SnapshotRows[inv.snap], cp.counted + 1, m)
           rows  == RowsIn(chunk)
<1>1. PICK written \in SUBSET rows :
        /\ \/ written = rows /\ inv' = [inv EXCEPT !.pc = "count"]
           \/ inv' = C!Idle
        /\ rec' = [rec EXCEPT ![cp.slot] =
                      [r \in CatalogRows |-> IF r \in written THEN cp.sweep ELSE @[r]]]
  BY DEF C!PutRecords, C!NextChunk, C!Records, C!Return, RowsIn
<1>2. inv.pc = "write" /\ n < Len(SnapshotRows[snap]) /\ cp' = cp /\ sweeps' = sweeps
  BY DEF C!PutRecords, C!Records
<1>3. /\ cp # None /\ cp \in C!Checkpoint /\ cp.status = "running"
      /\ cp.pending = snap /\ snap \in Snapshots
      /\ CatalogCheckpoint(cp, sweeps, rec) /\ CatalogPage(cp, rec)
      /\ cp.last # None => cp.last.slot # cp.slot
      /\ cp.sweep = sweeps /\ sweeps \in Nat /\ sweeps > 0 /\ cp.slot \in C!Slots
  BY <1>2, CatalogRest DEF CatalogInv, CatalogInvocation, CatalogCheckpoint, C!Checkpoint
<1>4. /\ m \in Nat /\ n \in Nat /\ n < m /\ m <= Len(SnapshotRows[snap])
      /\ FirstRows(snap, m) = FirstRows(snap, n) \cup rows
  <2>1. n \in Nat
    BY <1>3 DEF C!Checkpoint
  <2>2. IsNextChunk(snap, n, m, chunk)
    BY DEF IsNextChunk
  <2> HIDE DEF n, snap, m, chunk, rows
  <2>3. n < Len(SnapshotRows[snap]) /\ snap \in Snapshots
    BY <1>2, <1>3 DEF snap
  <2> QED
    BY <2>1, <2>2, <2>3, ChunkFacts DEF rows
<1> HIDE DEF m, chunk, rows
<1>5. /\ \A r \in CatalogRows :
            rec'[cp.slot][r] = IF r \in written THEN cp.sweep ELSE rec[cp.slot][r]
      /\ \A s \in C!Slots : s # cp.slot => rec'[s] = rec[s]
      /\ rec' \in CatalogRecords(sweeps)
  <2>1. rec \in CatalogRecords(sweeps)
    BY DEF CatalogInv
  <2>2. cp.sweep \in 1 .. sweeps
    BY <1>3
  <2> QED
    BY <1>1, <1>3, <2>1, <2>2 DEF CatalogRecords
<1>6. rows \subseteq CatalogRows
  BY <1>3, <1>4, CatalogConstants DEF FirstRows
<1>7. Written(rec', cp.slot, cp.sweep) = Written(rec, cp.slot, cp.sweep) \cup written
  BY <1>1, <1>5, <1>6 DEF Written
<1>8. CatalogPage(cp, rec')
  <2>1. /\ n <= Len(SnapshotRows[snap]) /\ FirstRows(snap, n) \subseteq Written(rec, cp.slot, cp.sweep)
        /\ Written(rec, cp.slot, cp.sweep) \subseteq FirstRows(snap, m)
    BY <1>3, CatalogConstants DEF CatalogPage, m
  <2> QED
    BY <1>3, <1>4, <1>7, <2>1, CatalogConstants DEF CatalogPage, m
<1>9. ASSUME cp.last # None
      PROVE  Written(rec', cp.last.slot, cp.last.sweep) = Written(rec, cp.last.slot, cp.last.sweep)
  <2>1. cp.last.slot \in C!Slots
    BY <1>3, <1>9 DEF C!Checkpoint, C!Published
  <2> QED
    BY <1>3, <1>5, <1>9, <2>1 DEF Written
<1>10. CatalogCheckpoint(cp, sweeps, rec')
  BY <1>3, <1>8, <1>9 DEF CatalogCheckpoint, WholeIn
<1>11. inv' \in CatalogWorker /\ CatalogInvocation(inv', cp, rec')
  <2>1. CASE inv' = C!Idle
    BY <2>1, CatalogRest
  <2>2. CASE written = rows /\ inv' = [inv EXCEPT !.pc = "count"]
    <3>1. inv' \in CatalogWorker /\ inv'.pc = "count" /\ inv'.snap = snap
      BY <2>2 DEF CatalogInv, CatalogWorker
    <3>2. FirstRows(snap, m) \subseteq Written(rec', cp.slot, cp.sweep)
      BY <1>3, <1>4, <1>7, <2>2, CatalogConstants DEF CatalogPage
    <3> QED
      BY <1>2, <1>3, <3>1, <3>2, CatalogConstants DEF CatalogInvocation, m
  <2> QED
    BY <1>1, <2>1, <2>2
<1>12. CatalogInv'
  BY <1>2, <1>3, <1>5, <1>10, <1>11 DEF CatalogInv
<1> QED
  BY <1>2, <1>3, <1>9, <1>12, CatalogKept

LEMMA CatalogCount == ASSUME CatalogInv, C!CountChunk PROVE CatalogInv' /\ Publishes(C!Current, C!Current')
<1> DEFINE snap  == inv.snap
           n     == cp.counted
           m     == C!Min2(cp.counted + Chunk, Len(SnapshotRows[inv.snap]))
           chunk == SubSeq(SnapshotRows[inv.snap], cp.counted + 1, m)
<1>1. /\ inv.pc = "count" /\ cp' = [cp EXCEPT !.counted = @ + Len(chunk)]
      /\ inv' = [inv EXCEPT !.pc = "write"] /\ rec' = rec /\ sweeps' = sweeps
  BY DEF C!CountChunk, C!NextChunk, C!Records
<1>2. /\ cp # None /\ cp \in C!Checkpoint /\ cp.status = "running"
      /\ cp.pending = snap /\ snap \in Snapshots /\ n < Len(SnapshotRows[snap])
      /\ CatalogCheckpoint(cp, sweeps, rec) /\ CatalogPage(cp, rec)
      /\ FirstRows(snap, m) \subseteq Written(rec, cp.slot, cp.sweep)
  BY <1>1, CatalogRest, CatalogConstants
     DEF CatalogInv, CatalogInvocation, CatalogCheckpoint, C!Checkpoint
<1>3. m \in Nat /\ n \in Nat /\ n < m /\ m <= Len(SnapshotRows[snap]) /\ Len(chunk) = m - n
  <2>1. n \in Nat
    BY <1>2 DEF C!Checkpoint
  <2>2. IsNextChunk(snap, n, m, chunk)
    BY DEF IsNextChunk
  <2> HIDE DEF n, snap, m, chunk
  <2> QED
    BY <1>2, <2>1, <2>2, ChunkFacts
<1>4. Written(rec, cp.slot, cp.sweep) \subseteq FirstRows(snap, m)
  BY <1>2, CatalogConstants DEF CatalogPage
<1> HIDE DEF m, chunk
<1>5. n + Len(chunk) = m
  BY <1>3
<1>6. /\ cp' \in C!Checkpoint /\ cp' # None /\ cp'.status = "running" /\ cp'.sweep = cp.sweep
      /\ cp'.slot = cp.slot /\ cp'.counted = m /\ cp'.pending = snap /\ cp'.last = cp.last
  BY <1>1, <1>2, <1>3, <1>5, CatalogConstants DEF C!Checkpoint
<1>7. CatalogPage(cp', rec')
  <2> DEFINE l == C!Min2(m + Chunk, Len(SnapshotRows[snap]))
  <2>1. Len(SnapshotRows[snap]) \in Nat
    BY <1>2, CatalogConstants
  <2>2. l \in Nat /\ m <= l
    BY <1>3, <2>1, CatalogConstants DEF C!Min2
  <2>3. Written(rec, cp.slot, cp.sweep) \subseteq FirstRows(snap, l)
    BY <1>3, <1>4, <2>2, FirstRowsGrow
  <2> QED
    BY <1>1, <1>2, <1>3, <1>6, <2>3, CatalogConstants DEF CatalogPage
<1>8. CatalogCheckpoint(cp', sweeps, rec')
  BY <1>1, <1>2, <1>6, <1>7 DEF CatalogCheckpoint
<1>9. inv' \in CatalogWorker /\ CatalogInvocation(inv', cp', rec')
  <2>1. inv' \in CatalogWorker /\ inv'.pc = "write" /\ inv'.snap = snap
    BY <1>1 DEF CatalogInv, CatalogWorker
  <2> QED
    BY <1>2, <1>6, <2>1, CatalogConstants DEF CatalogInvocation
<1>10. CatalogInv'
  BY <1>1, <1>6, <1>8, <1>9 DEF CatalogInv
<1> QED
  BY <1>1, <1>2, <1>6, <1>10, CatalogKept

\* A sweep is published with all rows of its snapshot: what was written lies between what was
\* counted and the end.
LEMMA CatalogComplete == ASSUME CatalogInv, C!Complete PROVE CatalogInv' /\ Publishes(C!Current, C!Current')
<1> DEFINE snap == inv.snap
           n == cp.counted
           done == [sweep |-> cp.sweep, slot |-> cp.slot, rows |-> cp.counted]
           c == [cp EXCEPT !.status = "complete", !.pending = None, !.plan = snap, !.last = done]
<1>1. /\ inv.pc = "write" /\ n = Len(SnapshotRows[snap]) /\ rec' = rec /\ sweeps' = sweeps
      /\ inv' = C!Idle /\ (cp' = c \/ cp' = cp)
  BY DEF C!Complete, C!Records, C!PutAndGo, C!Return
<1>2. /\ cp # None /\ cp \in C!Checkpoint /\ cp.status = "running" /\ cp.sweep = sweeps
      /\ cp.pending = snap /\ snap \in Snapshots /\ n \in Nat /\ sweeps \in Nat /\ sweeps > 0
      /\ CatalogCheckpoint(cp, sweeps, rec) /\ CatalogPage(cp, rec)
      /\ cp.last # None => cp.last.sweep \in 1 .. sweeps /\ cp.last.sweep # sweeps
  BY <1>1, CatalogRest DEF CatalogInv, CatalogInvocation, CatalogCheckpoint, C!Checkpoint
<1>3. CASE cp' = cp
  BY <1>1, <1>2, <1>3, CatalogRest, CatalogMoves
<1>4. CASE cp' = c
  <2>1. C!Min2(n + Chunk, n) = n
    BY <1>2, CatalogConstants DEF C!Min2
  <2>2. Written(rec, cp.slot, cp.sweep) = FirstRows(snap, n)
    BY <1>1, <1>2, <2>1, CatalogConstants DEF CatalogPage
  <2>3. done \in C!Published /\ done # None
    BY <1>2, CatalogConstants DEF C!Published, C!Checkpoint
  <2>4. done.sweep = sweeps /\ done.slot = cp.slot /\ WholeIn(snap, done, rec)
    BY <1>1, <1>2, <2>2 DEF WholeIn
  <2> HIDE DEF done
  <2>5. /\ c \in C!Checkpoint /\ c # None /\ c.status = "complete" /\ c.sweep = cp.sweep
        /\ c.slot = cp.slot /\ c.plan = snap /\ c.last = done
    <3>1. /\ c \in C!Checkpoint /\ c.status = "complete" /\ c.sweep = cp.sweep
          /\ c.slot = cp.slot /\ c.plan = snap /\ c.last = done
      BY <1>2, <2>3 DEF C!Checkpoint
    <3> HIDE DEF c
    <3> QED
      BY <3>1, CatalogConstants
  <2> HIDE DEF c
  <2>6. CatalogCheckpoint(c, sweeps, rec)
    BY <1>2, <2>3, <2>4, <2>5 DEF CatalogCheckpoint
  <2>7. CatalogInv'
    BY <1>1, <1>4, <2>5, <2>6, CatalogRest DEF CatalogInv
  <2>8. Generation' > Generation
    BY <1>2, <1>4, <2>3, <2>4, <2>5 DEF Generation
  <2> QED
    BY <2>7, <2>8 DEF Publishes
<1> QED
  BY <1>1, <1>3, <1>4

LEMMA CatalogNext == ASSUME CatalogInv, C!Next PROVE CatalogInv' /\ Publishes(C!Current, C!Current')
BY CatalogStart, CatalogInvoke, CatalogElapse, CatalogFetch, CatalogPut, CatalogCount,
   CatalogComplete, CatalogPause, CatalogStop DEF C!Next, C!Landing

LEMMA CatalogInit == ASSUME C!Init PROVE CatalogInv
<1>1. cp = None /\ inv = C!Idle /\ sweeps = 0
  BY DEF C!Init
<1>2. rec \in CatalogRecords(0)
  BY DEF C!Init, CatalogRecords
<1> QED
  BY <1>1, <1>2, CatalogRest DEF CatalogInv

LEMMA CatalogPublished ==
  ASSUME CatalogInv PROVE C!CatalogIsOneSnapshot /\ C!PlanMatchesRows
<1>1. ASSUME NEW snap \in Snapshots 
      PROVE  FirstRows(snap, Len(SnapshotRows[snap]))
               = {SnapshotRows[snap][i] : i \in DOMAIN SnapshotRows[snap]}
  BY CatalogConstants DEF FirstRows
<1>2. cp # None /\ cp.last # None => C!Current = Written(rec, cp.last.slot, cp.last.sweep)
  BY DEF C!Current, Written
<1>3. C!CatalogIsOneSnapshot
  BY <1>1, <1>2 DEF C!CatalogIsOneSnapshot, CatalogInv, CatalogCheckpoint, WholeIn
<1>4. C!PlanMatchesRows
  BY <1>1, <1>2 DEF C!PlanMatchesRows, CatalogInv, CatalogCheckpoint, WholeIn
<1> QED
  BY <1>3, <1>4

-----------------------------------------------------------------------------
(* The odds.                                                               *)

OddsCheckpoint(c, n, landed) ==
  /\ c.sweep = n /\ n > 0 /\ c.landed <= c.source
  /\ c.last # None =>
        /\ c.last.sweep \in 1 .. n
        /\ Cardinality(Of(OddsRows, landed, c.last.slot, c.last.sweep)) = c.last.landed
  /\ c.status = "running" =>
        /\ PagesOK(OddsRows, landed, c.slot, n, c.pages, c.landed,
                   IF c.pending = None THEN {} ELSE c.pending.rows)
        /\ c.last # None => c.last.slot # c.slot /\ c.last.sweep # n
  /\ c.status = "complete" => c.last # None /\ c.last.sweep = n /\ c.last.slot = c.slot

OddsInvocation(i, c, landed) ==
  /\ i.pc # "idle" => c.status = "running"
  /\ i.pc \in {"land", "commit"} => i.page # None /\ c.pending = i.page
  /\ i.pc = "commit" =>
        LandedOK(OddsRows, landed, c.slot, c.sweep, c.pages, i.dups, i.page.rows)

OddsWorker ==
  [pc : {"idle", "fetch", "land", "commit"}, page : O!Page \cup {None}, dups : Nat]

OddsInv ==
  /\ sweeps \in Nat
  /\ cp \in O!Checkpoint \cup {None}
  /\ rec \in Records(OddsRows, sweeps)
  /\ inv \in OddsWorker
  /\ claims \subseteq [cursor : O!Positions, page : Nat \ {0}] /\ paid \subseteq claims
  /\ \A a, b \in claims : a.cursor = b.cursor => a = b
  /\ cp = None => sweeps = 0 /\ inv = O!Idle
  /\ cp # None => OddsCheckpoint(cp, sweeps, rec) /\ OddsInvocation(inv, cp, rec)

LEMMA OddsSets == \A T : O!Cardinality(T) = Cardinality(T) /\ (O!IsFiniteSet(T) <=> IsFiniteSet(T))
BY DEF O!Cardinality, Cardinality, O!IsFiniteSet, IsFiniteSet

LEMMA OddsConstants ==
  /\ IsFiniteSet(OddsRows) /\ None \notin [sweep : Nat, page : Nat \ {0}]
  /\ None \notin O!Page /\ None \notin O!Checkpoint /\ None \notin O!Published
  /\ OddsFeed \in [O!Positions -> O!Page] /\ O!Slots = {0, 1} /\ Initial \in O!Positions
BY PipelinesAssumption, OddsSets DEF O!OddsAssumption, O!Record, O!Slots, O!Positions

LEMMA OddsRest ==
  /\ O!Idle \in OddsWorker /\ O!Idle.pc = "idle"
  /\ \A c, landed : OddsInvocation(O!Idle, c, landed)
BY DEF O!Idle, OddsWorker, OddsInvocation

LEMMA OddsKept ==
  ASSUME cp # None, cp' # None, cp'.last = cp.last,
         cp.last # None => Of(OddsRows, rec', cp.last.slot, cp.last.sweep)
                             = Of(OddsRows, rec, cp.last.slot, cp.last.sweep)
  PROVE  Publishes(O!Current, O!Current')
<1>1. Generation' = Generation
  BY DEF Generation
<1>2. O!Current' = O!Current
  BY DEF O!Current, Of
<1> QED
  BY <1>1, <1>2 DEF Publishes

LEMMA OddsBegins ==
  ASSUME OddsInv, NEW slot \in O!Slots, NEW last \in O!Published \cup {None},
         O!Begin(slot, last), rec' = rec, inv' \in OddsWorker, inv'.pc = "idle",
         last # None =>
            /\ last.slot # slot /\ last.sweep \in 1 .. sweeps
            /\ Cardinality(Of(OddsRows, rec, last.slot, last.sweep)) = last.landed
  PROVE  OddsInv' /\ cp' # None /\ cp'.last = last
<1> DEFINE n == sweeps + 1
<1>1. /\ sweeps \in Nat /\ n \in Nat /\ n > 0 /\ sweeps' = n /\ sweeps < n
      /\ claims' = {} /\ paid' = {} /\ rec \in Records(OddsRows, sweeps)
  BY DEF OddsInv, O!Begin
<1>2. /\ cp' \in O!Checkpoint /\ cp' # None
      /\ cp'.sweep = n /\ cp'.slot = slot /\ cp'.status = "running" /\ cp'.pending = None
      /\ cp'.pages = 0 /\ cp'.source = 0 /\ cp'.landed = 0 /\ cp'.last = last
  <2>1. cp' \in O!Checkpoint
    BY <1>1, OddsConstants DEF O!Begin, O!Checkpoint
  <2>2. /\ cp'.sweep = n /\ cp'.slot = slot /\ cp'.status = "running" /\ cp'.pending = None
        /\ cp'.pages = 0 /\ cp'.source = 0 /\ cp'.landed = 0 /\ cp'.last = last
    BY DEF O!Begin
  <2> QED
    BY <2>1, <2>2, OddsConstants
<1>3. rec' \in Records(OddsRows, n) /\ PagesOK(OddsRows, rec', slot, n, 0, 0, {})
  BY <1>1, OddsConstants, NothingLanded
<1>4. OddsCheckpoint(cp', n, rec')
  BY <1>1, <1>2, <1>3 DEF OddsCheckpoint
<1>5. OddsInvocation(inv', cp', rec')
  BY DEF OddsInvocation
<1> QED
  BY <1>1, <1>2, <1>3, <1>4, <1>5 DEF OddsInv

LEMMA OddsRestarts ==
  ASSUME OddsInv, cp # None, cp.status = "running", O!Restart, rec' = rec,
         inv' \in OddsWorker, inv'.pc = "idle"
  PROVE  OddsInv' /\ Publishes(O!Current, O!Current')
<1>1. cp.slot \in O!Slots /\ cp.last \in O!Published \cup {None} /\ OddsCheckpoint(cp, sweeps, rec)
  BY DEF OddsInv, O!Checkpoint
<1>2. OddsInv' /\ cp' # None /\ cp'.last = cp.last
  BY <1>1, OddsBegins DEF O!Restart, OddsCheckpoint
<1> QED
  BY <1>2, OddsKept

LEMMA OddsStart == ASSUME OddsInv, O!StartSweep PROVE OddsInv' /\ Publishes(O!Current, O!Current')
<1>1. /\ rec' = rec /\ inv' = inv /\ inv.pc = "idle" /\ inv' \in OddsWorker
      /\ IF cp = None THEN O!Begin(0, None) ELSE O!Begin(1 - cp.slot, cp.last)
      /\ cp # None => cp.status # "running"
  BY DEF O!StartSweep, O!Running, OddsInv, O!OtherSlot
<1>2. CASE cp = None
  <2>1. OddsInv' /\ cp' # None /\ cp'.last = None
    BY <1>1, <1>2, OddsConstants, OddsBegins
  <2>2. Generation = 0 /\ Generation' = 0 /\ O!Current = {} /\ O!Current' = {}
    BY <1>2, <2>1 DEF Generation, O!Current
  <2> QED
    BY <2>1, <2>2 DEF Publishes
<1>3. CASE cp # None
  <2>1. /\ cp.slot \in O!Slots /\ 1 - cp.slot \in O!Slots /\ 1 - cp.slot # cp.slot
        /\ cp.last \in O!Published \cup {None} /\ cp.status = "complete"
        /\ OddsCheckpoint(cp, sweeps, rec)
    BY <1>1, <1>3 DEF OddsInv, O!Checkpoint, O!Slots
  <2>2. OddsInv' /\ cp' # None /\ cp'.last = cp.last
    BY <1>1, <1>3, <2>1, OddsBegins DEF OddsCheckpoint
  <2> QED
    BY <1>1, <1>3, <2>2, OddsKept
<1> QED
  BY <1>2, <1>3

\* Steps that move the worker between its calls, claim a position or pause the stream.
LEMMA OddsMoves ==
  ASSUME OddsInv, cp # None, rec' = rec, sweeps' = sweeps,
         cp' = cp \/ \E b \in BOOLEAN : cp' = [cp EXCEPT !.paused = b],
         inv' \in OddsWorker, OddsInvocation(inv', cp, rec),
         claims' \subseteq [cursor : O!Positions, page : Nat \ {0}], paid' \subseteq claims',
         \A a, b \in claims' : a.cursor = b.cursor => a = b
  PROVE  OddsInv' /\ Publishes(O!Current, O!Current')
<1>1. cp \in O!Checkpoint /\ OddsCheckpoint(cp, sweeps, rec)
  BY DEF OddsInv
<1>2. /\ cp' \in O!Checkpoint /\ cp' # None
      /\ cp'.status = cp.status /\ cp'.sweep = cp.sweep /\ cp'.slot = cp.slot
      /\ cp'.pages = cp.pages /\ cp'.source = cp.source /\ cp'.landed = cp.landed
      /\ cp'.pending = cp.pending /\ cp'.last = cp.last
  BY <1>1, OddsConstants DEF O!Checkpoint
<1>3. OddsCheckpoint(cp', sweeps', rec')
  BY <1>1, <1>2 DEF OddsCheckpoint
<1>4. OddsInvocation(inv', cp', rec')
  BY <1>2 DEF OddsInvocation
<1>5. OddsInv'
  BY <1>2, <1>3, <1>4 DEF OddsInv
<1> QED
  BY <1>2, <1>5, OddsKept

LEMMA OddsClaims ==
  ASSUME OddsInv
  PROVE  /\ claims \subseteq [cursor : O!Positions, page : Nat \ {0}] /\ paid \subseteq claims
         /\ \A a, b \in claims : a.cursor = b.cursor => a = b
BY DEF OddsInv

LEMMA OddsClaim == ASSUME OddsInv, O!ClaimPosition PROVE OddsInv' /\ Publishes(O!Current, O!Current')
<1>1. cp # None /\ cp.status = "running" /\ rec' = rec /\ inv.pc = "idle" /\ inv \in OddsWorker
  BY DEF O!ClaimPosition, O!Running, OddsInv
<1>2. CASE O!Restart /\ inv' = inv
  BY <1>1, <1>2, OddsRestarts
<1>3. CASE ~O!Cycle /\ ~(O!Restart /\ inv' = inv)
  <2> DEFINE new == [cursor |-> cp.cursor, page |-> cp.pages + 1]
  <2>1. /\ claims' = claims \cup {new} /\ paid' = paid \cup {new}
        /\ inv' = [inv EXCEPT !.pc = "fetch"] /\ cp' = cp /\ sweeps' = sweeps
    BY <1>3 DEF O!ClaimPosition, O!PageNumber
  <2>2. new \in [cursor : O!Positions, page : Nat \ {0}]
    BY <1>1 DEF OddsInv, O!Checkpoint
  <2>3. \A k \in claims : k.cursor = cp.cursor => k.page = cp.pages + 1
    BY <1>3 DEF O!Cycle, O!PageNumber
  <2>4. ASSUME NEW k \in claims, k.cursor = new.cursor PROVE k = new
    <3>1. k \in [cursor : O!Positions, page : Nat \ {0}] /\ k.page = cp.pages + 1 /\ k.cursor = cp.cursor
      BY <2>3, <2>4, OddsClaims
    <3> QED
      BY <3>1
  <2>5. inv' \in OddsWorker /\ inv'.pc = "fetch"
    BY <1>1, <2>1 DEF OddsWorker
  <2>6. OddsInvocation(inv', cp, rec)
    BY <1>1, <2>5 DEF OddsInvocation
  <2> HIDE DEF new
  <2>7. \A a, b \in claims' : a.cursor = b.cursor => a = b
    BY <2>1, <2>4, OddsClaims
  <2> QED
    BY <1>1, <2>1, <2>2, <2>5, <2>6, <2>7, OddsClaims, OddsMoves
<1>4. (O!Restart /\ inv' = inv) \/ ~O!Cycle
  BY DEF O!ClaimPosition
<1> QED
  BY <1>2, <1>3, <1>4

LEMMA OddsPause == ASSUME OddsInv, O!PauseStream PROVE OddsInv' /\ Publishes(O!Current, O!Current')
<1>1. /\ cp' = [cp EXCEPT !.paused = TRUE] /\ rec' = rec /\ sweeps' = sweeps /\ inv' = O!Idle
      /\ inv.pc # "idle" /\ claims' = claims /\ paid' = paid
  BY DEF O!PauseStream, O!Return
<1>2. cp # None
  BY <1>1, OddsRest DEF OddsInv
<1> QED
  BY <1>1, <1>2, OddsRest, OddsClaims, OddsMoves

LEMMA OddsElapse == ASSUME OddsInv, O!Elapse PROVE OddsInv' /\ Publishes(O!Current, O!Current')
<1>1. /\ cp' = [cp EXCEPT !.paused = FALSE] /\ rec' = rec /\ sweeps' = sweeps /\ inv' = inv
      /\ cp # None /\ claims' = claims /\ paid' = paid
  BY DEF O!Elapse
<1>2. inv' \in OddsWorker /\ OddsInvocation(inv', cp, rec)
  BY <1>1 DEF OddsInv
<1> QED
  BY <1>1, <1>2, OddsClaims, OddsMoves

LEMMA OddsDie == ASSUME OddsInv, O!Die PROVE OddsInv' /\ Publishes(O!Current, O!Current')
<1>1. /\ cp' = cp /\ rec' = rec /\ sweeps' = sweeps /\ inv' = O!Idle /\ inv.pc # "idle"
      /\ claims' = claims /\ paid' = paid
  BY DEF O!Die, O!Return
<1>2. cp # None
  BY <1>1, OddsRest DEF OddsInv
<1> QED
  BY <1>1, <1>2, OddsRest, OddsClaims, OddsMoves

\* What an invocation knows while it runs.
LEMMA OddsKnows ==
  ASSUME OddsInv, inv.pc # "idle"
  PROVE  /\ cp # None /\ cp \in O!Checkpoint /\ cp.status = "running" /\ cp.sweep = sweeps
         /\ sweeps \in Nat /\ sweeps > 0 /\ rec \in Records(OddsRows, sweeps) /\ cp.slot \in {0, 1}
         /\ cp.pages \in Nat /\ cp.source \in Nat /\ cp.landed \in Nat /\ cp.landed <= cp.source
         /\ OddsCheckpoint(cp, sweeps, rec) /\ OddsInvocation(inv, cp, rec)
         /\ PagesOK(OddsRows, rec, cp.slot, sweeps, cp.pages, cp.landed,
                    IF cp.pending = None THEN {} ELSE cp.pending.rows)
         /\ cp.last # None => /\ cp.last.slot # cp.slot /\ cp.last.slot \in {0, 1}
                              /\ cp.last.sweep \in 1 .. sweeps /\ cp.last.sweep # sweeps
<1>1. cp # None
  BY OddsRest DEF OddsInv
<1>2. cp \in O!Checkpoint /\ OddsCheckpoint(cp, sweeps, rec) /\ OddsInvocation(inv, cp, rec)
  BY <1>1 DEF OddsInv
<1>3. cp.last # None => cp.last.slot \in {0, 1}
  BY <1>2 DEF O!Checkpoint, O!Published, O!Slots
<1>4. cp.slot \in {0, 1} /\ cp.pages \in Nat /\ cp.source \in Nat /\ cp.landed \in Nat
  BY <1>2 DEF O!Checkpoint, O!Slots
<1> QED
  BY <1>1, <1>2, <1>3, <1>4 DEF OddsInv, OddsCheckpoint, OddsInvocation

LEMMA OddsReject == ASSUME OddsInv, O!RejectCursor PROVE OddsInv' /\ Publishes(O!Current, O!Current')
<1>1. inv.pc # "idle" /\ O!Restart /\ rec' = rec /\ inv' = O!Idle
  BY DEF O!RejectCursor, O!Return
<1> QED
  BY <1>1, OddsKnows, OddsRest, OddsRestarts

LEMMA OddsMismatch == ASSUME OddsInv, O!MismatchTotal PROVE OddsInv' /\ Publishes(O!Current, O!Current')
<1>1. inv.pc # "idle" /\ O!Restart /\ rec' = rec /\ inv' = O!Idle
  BY DEF O!MismatchTotal, O!Return
<1> QED
  BY <1>1, OddsKnows, OddsRest, OddsRestarts

\* A page is sealed before its rows are landed, met again, or ends the sweep.
LEMMA OddsReceive ==
  ASSUME OddsInv, NEW page \in O!Page, O!Receive(page), inv.pc = "fetch", rec' = rec
  PROVE  OddsInv' /\ Publishes(O!Current, O!Current')
<1>1. CASE O!Contradicts(page)
  <2>1. O!Restart /\ inv' = O!Idle
    BY <1>1 DEF O!Receive, O!Return
  <2> QED
    BY <2>1, OddsKnows, OddsRest, OddsRestarts
<1>2. CASE ~O!Contradicts(page)
  <2> DEFINE c == [cp EXCEPT !.pending = page]
             i == [inv EXCEPT !.pc = "land", !.page = page]
  <2>1. /\ cp' = c /\ inv' = i /\ claims' = claims /\ paid' = paid /\ sweeps' = sweeps
        /\ cp.pending = None \/ cp.pending = page
    BY <1>2 DEF O!Receive, O!Contradicts
  <2>2. /\ c \in O!Checkpoint /\ c # None /\ c.status = "running" /\ c.sweep = cp.sweep
        /\ c.slot = cp.slot /\ c.pages = cp.pages /\ c.source = cp.source
        /\ c.landed = cp.landed /\ c.pending = page /\ c.last = cp.last
    BY OddsKnows, OddsConstants DEF O!Checkpoint
  <2>3. i \in OddsWorker /\ i.pc = "land" /\ i.page = page /\ page # None
    BY OddsConstants DEF OddsInv, OddsWorker
  <2> HIDE DEF c, i
  <2>4. PagesOK(OddsRows, rec, cp.slot, sweeps, cp.pages, cp.landed, page.rows)
    BY <2>1, <2>3, OddsKnows DEF PagesOK
  <2>5. OddsCheckpoint(c, sweeps, rec)
    BY <2>2, <2>3, <2>4, OddsKnows DEF OddsCheckpoint
  <2>6. OddsInvocation(i, c, rec)
    BY <2>2, <2>3 DEF OddsInvocation
  <2>7. OddsInv'
    BY <2>1, <2>2, <2>3, <2>5, <2>6 DEF OddsInv
  <2> QED
    BY <2>1, <2>2, <2>7, OddsKnows, OddsKept
<1> QED
  BY <1>1, <1>2

LEMMA OddsFetch == ASSUME OddsInv, O!FetchOdds PROVE OddsInv' /\ Publishes(O!Current, O!Current')
<1>1. inv.pc = "fetch" /\ rec' = rec
  BY DEF O!FetchOdds
<1>2. cp.cursor \in O!Positions
  BY <1>1, OddsKnows DEF O!Checkpoint
<1>3. \E page \in O!Page : O!Receive(page)
  BY <1>2, OddsConstants DEF O!FetchOdds
<1> QED
  BY <1>1, <1>3, OddsReceive

\* Rows of the sealed page are landed, all of them or a part, rows of earlier pages never.
LEMMA OddsLand == ASSUME OddsInv, O!Land PROVE OddsInv' /\ Publishes(O!Current, O!Current')
<1> DEFINE rows == inv.page.rows
           U == Upto(OddsRows, rec, cp.slot, sweeps, cp.pages)
<1>1. inv.pc = "land" /\ cp' = cp /\ claims' = claims /\ paid' = paid /\ sweeps' = sweeps
  BY DEF O!Land
<1>2. cp.pending = inv.page /\ inv.page # None /\ inv.page \in O!Page /\ rows \subseteq OddsRows
  <2>1. cp.pending = inv.page /\ inv.page # None /\ inv \in OddsWorker
    BY <1>1, OddsKnows DEF OddsInvocation, OddsInv
  <2>2. inv.page \in O!Page
    BY <2>1 DEF OddsWorker
  <2> QED
    BY <2>1, <2>2 DEF O!Page
<1>3. PagesOK(OddsRows, rec, cp.slot, sweeps, cp.pages, cp.landed, rows)
  BY <1>1, <1>2, OddsKnows
<1>4. O!Duplicates(rows) = rows \cap U
  BY <1>1, <1>2, <1>3, OddsKnows, DuplicatesAre DEF O!Duplicates, O!PageNumber, PagesOK
<1>5. PICK put \in SUBSET (rows \ O!Duplicates(rows)) :
        /\ \/ /\ put = rows \ O!Duplicates(rows)
              /\ inv' = [inv EXCEPT !.pc = "commit", !.dups = Cardinality(rows \ put)]
           \/ inv' = O!Idle
        /\ rec' = [rec EXCEPT ![cp.slot] = [r \in OddsRows |->
                      IF r \in put THEN [sweep |-> cp.sweep, page |-> cp.pages + 1] ELSE @[r]]]
  BY OddsSets DEF O!Land, O!PageNumber, O!Return
<1>6. put \in SUBSET (rows \ U)
  BY <1>4
<1>7. sweeps \in 1 .. sweeps /\ cp.sweep = sweeps
  BY <1>1, OddsKnows
<1>8. /\ rec' \in Records(OddsRows, sweeps)
      /\ \A x \in {0, 1} : x # cp.slot =>
            \A v : Of(OddsRows, rec', x, v) = Of(OddsRows, rec, x, v)
      /\ Upto(OddsRows, rec', cp.slot, sweeps, cp.pages) = U
      /\ Under(OddsRows, rec', cp.slot, sweeps, cp.pages + 1)
            = Under(OddsRows, rec, cp.slot, sweeps, cp.pages + 1) \cup put
      /\ PagesOK(OddsRows, rec', cp.slot, sweeps, cp.pages, cp.landed, rows)
  <2>1. Stores(OddsRows, rec, cp.slot, sweeps, cp.pages, put, rec')
    BY <1>5, <1>7 DEF Stores
  <2>2. /\ sweeps \in Nat /\ rec \in Records(OddsRows, sweeps) /\ cp.slot \in {0, 1}
        /\ cp.pages \in Nat /\ rows \in SUBSET OddsRows
    BY <1>1, <1>2, OddsKnows
  <2>3. AtPage(OddsRows, sweeps, rec, cp.slot, sweeps, cp.pages, cp.landed, rows)
    BY <1>1, <1>3, <1>7, <2>2, OddsKnows, OddsConstants DEF AtPage
  <2> HIDE DEF rows
  <2> QED
    BY <1>6, <2>1, <2>3, Storing
<1>9. cp.last # None => Of(OddsRows, rec', cp.last.slot, cp.last.sweep)
                          = Of(OddsRows, rec, cp.last.slot, cp.last.sweep)
  BY <1>1, <1>8, OddsKnows
<1>10. OddsCheckpoint(cp, sweeps, rec')
  BY <1>1, <1>2, <1>8, <1>9, OddsKnows DEF OddsCheckpoint
<1>11. inv' \in OddsWorker /\ OddsInvocation(inv', cp, rec')
  <2>1. CASE inv' = O!Idle
    BY <2>1, OddsRest
  <2>2. CASE /\ put = rows \ O!Duplicates(rows)
             /\ inv' = [inv EXCEPT !.pc = "commit", !.dups = Cardinality(rows \ put)]
    <3>1. put = rows \ U /\ rows \ put = rows \cap U
      BY <1>4, <2>2
    <3>2. Cardinality(rows \ put) \in Nat
      <4>1. IsFiniteSet(rows \ put)
        BY <1>2, OddsConstants, FS_Subset
      <4> QED
        BY <4>1, FS_CardinalityType
    <3>3. /\ inv' \in OddsWorker /\ inv'.pc = "commit" /\ inv'.page = inv.page
          /\ inv'.dups = Cardinality(rows \cap U)
      BY <2>2, <3>1, <3>2 DEF OddsInv, OddsWorker
    <3>4. Under(OddsRows, rec, cp.slot, sweeps, cp.pages + 1) \subseteq rows \ U
      BY <1>1, <1>3, OddsKnows, OddsConstants, RowFacts DEF PagesOK
    <3>5. LandedOK(OddsRows, rec', cp.slot, cp.sweep, cp.pages, inv'.dups, rows)
      BY <1>7, <1>8, <3>1, <3>3, <3>4 DEF LandedOK
    <3> QED
      BY <1>1, <1>2, <3>3, <3>5, OddsKnows DEF OddsInvocation
  <2> QED
    BY <1>5, <2>1, <2>2
<1>12. OddsInv'
  BY <1>1, <1>8, <1>10, <1>11, OddsKnows, OddsClaims DEF OddsInv
<1> QED
  BY <1>1, <1>9, <1>12, OddsKnows, OddsKept

LEMMA OddsCommit == ASSUME OddsInv, O!Commit PROVE OddsInv' /\ Publishes(O!Current, O!Current')
<1> DEFINE rows == inv.page.rows
           count == cp.landed + Cardinality(rows) - inv.dups
           done == [sweep |-> cp.sweep, slot |-> cp.slot, landed |-> O!Counted.landed]
<1>1. /\ inv.pc = "commit" /\ rec' = rec /\ claims' = claims /\ paid' = paid /\ sweeps' = sweeps
      /\ inv' = O!Idle
      /\ cp' = IF inv.page.next # End THEN [O!Counted EXCEPT !.cursor = inv.page.next]
               ELSE [O!Counted EXCEPT !.status = "complete", !.last = done]
  BY DEF O!Commit, O!Return
<1>2. cp.pending = inv.page /\ inv.page # None /\ inv.page \in O!Page /\ rows \subseteq OddsRows
  <2>1. cp.pending = inv.page /\ inv.page # None /\ inv \in OddsWorker
    BY <1>1, OddsKnows DEF OddsInvocation, OddsInv
  <2>2. inv.page \in O!Page
    BY <2>1 DEF OddsWorker
  <2> QED
    BY <2>1, <2>2 DEF O!Page
<1>3. /\ PagesOK(OddsRows, rec, cp.slot, sweeps, cp.pages, cp.landed, rows)
      /\ LandedOK(OddsRows, rec, cp.slot, sweeps, cp.pages, inv.dups, rows)
  BY <1>1, <1>2, OddsKnows DEF OddsInvocation
<1>4. /\ PagesOK(OddsRows, rec, cp.slot, sweeps, cp.pages + 1, count, {})
      /\ Cardinality(Of(OddsRows, rec, cp.slot, sweeps)) = count
      /\ Cardinality(rows) \in Nat /\ inv.dups \in 0 .. Cardinality(rows)
  <2>1. /\ sweeps \in Nat /\ rec \in Records(OddsRows, sweeps) /\ cp.slot \in {0, 1}
        /\ cp.pages \in Nat /\ cp.landed \in Nat /\ rows \in SUBSET OddsRows
    BY <1>1, <1>2, OddsKnows
  <2>2. AtPage(OddsRows, sweeps, rec, cp.slot, sweeps, cp.pages, cp.landed, rows)
    BY <1>1, <1>3, <2>1, OddsKnows, OddsConstants DEF AtPage
  <2> HIDE DEF rows
  <2> QED
    BY <1>3, <2>2, Counting
<1>5. count \in Nat /\ count <= cp.source + Cardinality(rows)
  BY <1>1, <1>4, OddsKnows
<1>6. /\ O!Counted \in O!Checkpoint /\ O!Counted.status = "running" /\ O!Counted.sweep = cp.sweep
      /\ O!Counted.slot = cp.slot /\ O!Counted.pages = cp.pages + 1 /\ O!Counted.pending = None
      /\ O!Counted.source = cp.source + Cardinality(rows) /\ O!Counted.landed = count
      /\ O!Counted.last = cp.last
  <2>1. PICK k \in Nat : k = Cardinality(rows)
    BY <1>4
  <2>2. PICK l \in Nat : l = count
    BY <1>5
  <2>3. PICK s \in Nat : s = cp.source + k
    BY <1>1, OddsKnows
  <2>4. PICK p \in Nat : p = cp.pages + 1
    BY <1>1, OddsKnows
  <2>5. O!Counted = [cp EXCEPT !.pages = p, !.pending = None, !.source = s, !.landed = l]
    BY <2>1, <2>2, <2>3, <2>4, OddsSets DEF O!Counted
  <2>6. cp \in O!Checkpoint /\ cp.status = "running"
    BY <1>1, OddsKnows
  <2> HIDE DEF count, rows
  <2> QED
    BY <2>1, <2>2, <2>3, <2>4, <2>5, <2>6 DEF O!Checkpoint
<1> HIDE DEF count
<1>7. CASE inv.page.next # End
  <2>1. inv.page.next \in O!Positions
    BY <1>2, <1>7 DEF O!Page, O!Positions
  <2>2. /\ cp' \in O!Checkpoint /\ cp' # None /\ cp'.status = "running" /\ cp'.sweep = cp.sweep
        /\ cp'.slot = cp.slot /\ cp'.pages = cp.pages + 1 /\ cp'.pending = None
        /\ cp'.source = cp.source + Cardinality(rows) /\ cp'.landed = count /\ cp'.last = cp.last
    BY <1>1, <1>6, <1>7, <2>1, OddsConstants DEF O!Checkpoint
  <2>3. OddsCheckpoint(cp', sweeps, rec)
    BY <1>1, <1>4, <1>5, <2>2, OddsKnows DEF OddsCheckpoint
  <2>4. OddsInv'
    BY <1>1, <2>2, <2>3, OddsKnows, OddsClaims, OddsRest DEF OddsInv
  <2> QED
    BY <1>1, <2>2, <2>4, OddsKnows, OddsKept
<1>8. CASE inv.page.next = End
  <2>1. done \in O!Published /\ done # None /\ done.sweep = sweeps /\ done.slot = cp.slot
    BY <1>1, <1>5, <1>6, OddsKnows, OddsConstants DEF O!Published
  <2>2. done.landed = count
    BY <1>6
  <2> HIDE DEF done
  <2>3. /\ cp' \in O!Checkpoint /\ cp' # None /\ cp'.status = "complete" /\ cp'.sweep = cp.sweep
        /\ cp'.slot = cp.slot /\ cp'.source = cp.source + Cardinality(rows)
        /\ cp'.landed = count /\ cp'.last = done
    <3>1. /\ cp' \in O!Checkpoint /\ cp'.status = "complete" /\ cp'.sweep = cp.sweep
          /\ cp'.slot = cp.slot /\ cp'.source = cp.source + Cardinality(rows)
          /\ cp'.landed = count /\ cp'.last = done
      BY <1>1, <1>6, <1>8, <2>1 DEF O!Checkpoint, done
    <3> QED
      BY <3>1, OddsConstants
  <2>4. OddsCheckpoint(cp', sweeps, rec)
    BY <1>1, <1>4, <1>5, <2>1, <2>2, <2>3, OddsKnows DEF OddsCheckpoint
  <2>5. OddsInv'
    BY <1>1, <2>3, <2>4, OddsKnows, OddsClaims, OddsRest DEF OddsInv
  <2>6. Generation' > Generation
    BY <1>1, <2>1, <2>3, OddsKnows DEF Generation
  <2> QED
    BY <2>5, <2>6 DEF Publishes
<1> QED
  BY <1>7, <1>8

LEMMA OddsNext == ASSUME OddsInv, O!Next PROVE OddsInv' /\ Publishes(O!Current, O!Current')
BY OddsStart, OddsClaim, OddsElapse, OddsFetch, OddsLand, OddsCommit, OddsPause, OddsReject, OddsMismatch, OddsDie
   DEF O!Next, O!Landing

LEMMA OddsInit == ASSUME O!Init PROVE OddsInv
<1>1. cp = None /\ inv = O!Idle /\ sweeps = 0 /\ claims = {} /\ paid = {}
  BY DEF O!Init
<1>2. rec \in Records(OddsRows, 0)
  BY OddsConstants DEF O!Init, Records
<1> QED
  BY <1>1, <1>2, OddsRest DEF OddsInv

LEMMA OddsPublished == ASSUME OddsInv PROVE O!OddsAreWhole /\ O!PaidUnderOnePage
<1>1. cp # None /\ cp.last # None => O!Current = Of(OddsRows, rec, cp.last.slot, cp.last.sweep)
  BY DEF O!Current, Of
<1>2. O!OddsAreWhole
  BY <1>1, OddsSets DEF O!OddsAreWhole, OddsInv, OddsCheckpoint
<1>3. O!PaidUnderOnePage
  BY OddsClaims DEF O!PaidUnderOnePage
<1> QED
  BY <1>2, <1>3

-----------------------------------------------------------------------------
(* The events.                                                             *)

Injective(s) == \A j, k \in DOMAIN s : s[j] = s[k] => j = k

\* Every partition of the plan is reconciled, put off or still ahead, all are reconciled in the
\* end, and the plan is the catalog's, however it was halved.
Covers(c, done) ==
  /\ UNION E!Ranged(c.plan) = UNION E!Ranged(PlanOf[c.of])
  /\ c.status = "running" =>
       /\ done \subseteq UNION E!Ranged(c.plan)
       /\ \A i \in DOMAIN c.plan :
            \/ c.plan[i] \subseteq done
            \/ i \in E!Ranged(c.deferred)
            \/ ~c.retrying /\ i >= c.part
  /\ c.status = "complete" => done = UNION E!Ranged(c.plan)

EventCheckpoint(c, n, landed) ==
  /\ c.sweep = n /\ n > 0
  /\ E!Valid(c) /\ Injective(c.deferred)
  /\ c.last # None =>
        /\ c.last.sweep \in 1 .. n
        /\ Cardinality(Of(EventRows, landed, c.last.slot, c.last.sweep)) = c.last.counts.landed
  /\ c.status = "running" =>
        PagesOK(EventRows, landed, c.slot, n, c.counts.pages, c.counts.landed,
                IF c.pending = None THEN {} ELSE c.pending.page.rows)
  /\ c.status = "complete" => c.last # None

EventInvocation(i, c, landed) ==
  /\ i.pc # "idle" => c.status = "running"
  /\ i.pc \in {"land", "commit"} => c.pending # None /\ c.pending.page = i.page
  /\ i.pc = "commit" =>
        LandedOK(EventRows, landed, c.slot, c.sweep, c.counts.pages, i.dups, i.page.rows)

EventWorker ==
  [pc : {"idle", "fetch", "land", "commit"}, page : E!Page \cup {None}, dups : Nat]

EventInv ==
  /\ sweeps \in Nat /\ ~refused
  /\ catalog \in Catalogs
  /\ cp \in E!Checkpoint \cup {None}
  /\ rec \in Records(EventRows, sweeps)
  /\ inv \in EventWorker
  /\ cp = None => sweeps = 0 /\ inv = E!Idle
  /\ cp # None => /\ EventCheckpoint(cp, sweeps, rec) /\ EventInvocation(inv, cp, rec)
                  /\ Covers(cp, walked)

-----------------------------------------------------------------------------
(* Partitions: halving one, putting one off, taking one up again.          *)

\* t is the part of s after its first i members, of length m; t is a and then b, of length m.
IsSlice(S, s, i, m, t) ==
  s \in Seq(S) /\ i \in Nat /\ m \in Nat /\ i + m <= Len(s) /\ t = SubSeq(s, i + 1, i + m)
IsJoin(S, a, b, t, m) == a \in Seq(S) /\ b \in Seq(S) /\ t = a \o b /\ m = Len(a) + Len(b)
SliceOf(S, s, i, m, t) == t \in Seq(S) /\ Len(t) = m /\ \A k \in 1 .. m : t[k] = s[i + k]
JoinOf(S, a, b, t, m) ==
  t \in Seq(S) /\ Len(t) = m /\ \A k \in 1 .. m : t[k] = IF k <= Len(a) THEN a[k] ELSE b[k - Len(a)]

\* h is the plan with the partition at i halved.
IsHalved(plan, i, h) ==
  /\ h \in Seq(SUBSET Leagues) /\ Len(h) = Len(plan) + 1
  /\ \A j \in 1 .. i - 1 : h[j] = plan[j]
  /\ h[i] = E!FirstHalf(plan[i]) /\ h[i + 1] = plan[i] \ E!FirstHalf(plan[i])
  /\ \A j \in i + 2 .. Len(plan) + 1 : h[j] = plan[j - 1]

\* The checkpoint a sweep begins with, at the first partition that is not deferred.
Begun(c, n, slot, plan, of, deferred, last) ==
  /\ c \in E!Checkpoint /\ c # None /\ c.status = "running" /\ c.sweep = n /\ c.slot = slot
  /\ c.plan = plan /\ c.of = of /\ c.deferred = deferred /\ c.pending = None
  /\ c.counts.pages = 0 /\ c.counts.source = 0 /\ c.counts.landed = 0 /\ c.last = last
  /\ c.part \in DOMAIN plan /\ (c.retrying => c.part \in E!Ranged(deferred))
  /\ \A i \in DOMAIN plan : i \in E!Ranged(deferred) \/ (~c.retrying /\ i >= c.part)

\* Where a sweep stands in its plan: every partition is reconciled, put off or still ahead.
Placed(plan, part, deferred, retrying, done) ==
  /\ plan \in Seq(SUBSET Leagues) /\ E!ValidPlan(plan) /\ part \in DOMAIN plan
  /\ deferred \in Seq(Nat) /\ Injective(deferred) /\ E!Ranged(deferred) \subseteq DOMAIN plan
  /\ retrying => part \in E!Ranged(deferred)
  /\ done \subseteq UNION E!Ranged(plan)
  /\ \A j \in DOMAIN plan :
        plan[j] \subseteq done \/ j \in E!Ranged(deferred) \/ (~retrying /\ j >= part)

\* A checkpoint of the same sweep with an attempt counted.
SameSweep(c, d) ==
  /\ d \in E!Checkpoint /\ d.status = "running" /\ d.sweep = c.sweep /\ d.slot = c.slot
  /\ d.of = c.of /\ d.last = c.last /\ d.pending = None
IsSettled(c, d) ==
  /\ SameSweep(c, d)
  /\ d.plan = c.plan /\ d.part = c.part /\ d.rev = c.rev /\ d.deferred = c.deferred
  /\ d.retrying = c.retrying /\ d.counts.pages = c.counts.pages + 1
  /\ d.counts.source = c.counts.source /\ d.counts.landed = c.counts.landed

\* A checkpoint at the first half of its partition, at a next partition, and at a deferred one.
AtHalf(c, h, v, q) == [c EXCEPT !.plan = h, !.offset = 0, !.rev = v, !.deferred = q]
AtNext(c, k, q)    == [c EXCEPT !.deferred = q, !.part = k, !.offset = 0]
AtHead(c, k, v, q, p) ==
  [c EXCEPT !.deferred = q, !.part = k, !.offset = 0, !.retrying = TRUE, !.rev = v, !.paused = p]

\* A partition is put off to the end of the queue q: o goes on with the next, l retries.
Defers(c, q) ==
  q = Append(E!Without(c.deferred, c.part), c.part) /\ q # <<>> /\ Head(q) \in Nat \ {0}
PutsOff(c, q, o, l) ==
  /\ SameSweep(c, o) /\ o.counts = E!Settled(c).counts /\ o.plan = c.plan /\ o.part = c.part + 1
  /\ o.deferred = q /\ o.retrying = c.retrying
  /\ SameSweep(c, l) /\ l.counts = E!Settled(c).counts /\ l.plan = c.plan /\ l.part = Head(q)
  /\ l.deferred = q /\ l.retrying = TRUE

\* The page is counted in d: k rows, l of them landed.
IsCounted(c, d, k, l) ==
  /\ SameSweep(c, d) /\ d.plan = c.plan /\ d.part = c.part /\ d.deferred = c.deferred
  /\ d.retrying = c.retrying /\ d.counts.pages = c.counts.pages + 1
  /\ d.counts.source = c.counts.source + k /\ d.counts.landed = l

\* The checkpoint of a completed sweep.
IsDone(d, e) ==
  /\ e \in E!Checkpoint /\ e.status = "complete" /\ e.sweep = d.sweep /\ e.slot = d.slot
  /\ e.plan = d.plan /\ e.of = d.of /\ e.counts = d.counts /\ e.deferred = <<>> /\ ~e.retrying
  /\ e.pending = None
  /\ e.last = [sweep |-> d.sweep, slot |-> d.slot, counts |-> d.counts] /\ e.last \in E!Published

\* The same counts at another place of the plan.
MovedTo(d, c, part, deferred, retrying) ==
  /\ SameSweep(d, c) /\ c.counts = d.counts /\ c.plan = d.plan /\ c.part = part
  /\ c.deferred = deferred /\ c.retrying = retrying

AtLeft(d, i, left) == [E!To(d, i) EXCEPT !.deferred = left, !.rev = @ + 1]
AtRetry(d, i)      == [E!To(d, i) EXCEPT !.retrying = TRUE, !.rev = @ + 1, !.paused = TRUE]

\* Wherever a sweep goes from a reconciled partition, nothing of the plan is left out.
MovesOn(plan, s, r, left, ahead, seen) ==
  /\ seen \subseteq UNION E!Ranged(plan)
  /\ r /\ left # <<>> => Placed(plan, Head(left), left, r, seen)
  /\ r /\ left = <<>> => seen = UNION E!Ranged(plan)
  /\ ~r /\ ahead # {} => Placed(plan, E!FirstOf(ahead), s, r, seen)
  /\ ~r /\ ahead = {} /\ s # <<>> => Placed(plan, Head(s), s, TRUE, seen)
  /\ ~r /\ ahead = {} /\ s = <<>> => seen = UNION E!Ranged(plan)

LEMMA EventSets == \A T : E!Cardinality(T) = Cardinality(T) /\ (E!IsFiniteSet(T) <=> IsFiniteSet(T))
BY DEF E!Cardinality, Cardinality, E!IsFiniteSet, IsFiniteSet

LEMMA EventConstants ==
  /\ Leagues \subseteq Nat /\ IsFiniteSet(Leagues) /\ IsFiniteSet(EventRows)
  /\ PlanOf \in [Catalogs -> Seq(SUBSET Leagues)]
  /\ \A c \in Catalogs : E!ValidPlan(PlanOf[c])
  /\ None \notin [sweep : Nat, page : Nat \ {0}]
  /\ None \notin E!Pending /\ None \notin E!Checkpoint /\ None \notin E!Published
  /\ E!Slots = {0, 1}
BY PipelinesAssumption, EventSets DEF E!LandingAssumption, E!Record, E!Slots

\* The numbers up to n are finitely many naturals, and there are n of them.
LEMMA UpToIsFinite ==
  ASSUME NEW n \in Nat
  PROVE  IsFiniteSet(1 .. n) /\ 1 .. n \in SUBSET Nat /\ Cardinality(1 .. n) = n
<1>1. 1 \in Int /\ n \in Int /\ n = IF 1 > n THEN 0 ELSE n - 1 + 1
  OBVIOUS
<1>2. 1 .. n \in SUBSET Nat
  OBVIOUS
<1>3. IsFiniteSet(1 .. n) /\ Cardinality(1 .. n) = IF 1 > n THEN 0 ELSE n - 1 + 1
  <2>1. 1 \in Int /\ n \in Int
    BY <1>1
  <2> QED
    BY <2>1, FS_Interval
<1> QED
  BY <1>1, <1>2, <1>3

\* The members of a finite set of numbers have as many ranks as there are members.
LEMMA Ranks ==
  ASSUME NEW S \in SUBSET Nat, IsFiniteSet(S), NEW k \in 0 .. Cardinality(S) - 1
  PROVE  \E l \in S : Cardinality({q \in S : q < l}) = k
<1> DEFINE n == Cardinality(S)
           below(l) == {q \in S : q < l}
           f == [l \in S |-> Cardinality(below(l))]
<1>1. n \in Nat
  BY FS_CardinalityType
<1>2. \A l \in S : IsFiniteSet(below(l)) /\ Cardinality(below(l)) \in 0 .. n - 1
  <2> TAKE l \in S
  <2>1. below(l) \in SUBSET (S \ {l})
    OBVIOUS
  <2>2. IsFiniteSet(S \ {l}) /\ Cardinality(S \ {l}) = n - 1
    BY FS_RemoveElement
  <2>3. IsFiniteSet(below(l)) /\ Cardinality(below(l)) <= n - 1
    BY <2>1, <2>2, FS_Subset
  <2> QED
    BY <1>1, <2>3, FS_CardinalityType
<1>3. \A l, m \in S : l < m => f[l] < f[m]
  <2> TAKE l, m \in S
  <2> HAVE l < m
  <2>0. l \in Nat /\ m \in Nat /\ \A q \in S : q \in Nat
    OBVIOUS
  <2>1. below(l) \cup {l} \in SUBSET below(m) /\ l \notin below(l)
    <3>1. \A q \in S : q < l => q < m
      BY <2>0
    <3>2. ~(l < l)
      BY <2>0
    <3> QED
      BY <3>1, <3>2
  <2>2. Cardinality(below(l) \cup {l}) = Cardinality(below(l)) + 1
    BY <1>2, <2>1, FS_AddElement
  <2>3. Cardinality(below(l) \cup {l}) <= Cardinality(below(m))
    BY <1>2, <2>1, FS_Subset
  <2> QED
    BY <1>2, <2>2, <2>3
<1>4. f \in [S -> 0 .. n - 1]
  BY <1>2
<1> HIDE DEF f
<1>5. \A l, m \in S : f[l] = f[m] => l = m
  <2> TAKE l, m \in S
  <2>1. f[l] \in Nat /\ f[m] \in Nat /\ l \in Nat /\ m \in Nat
    BY <1>1, <1>4
  <2>2. l < m \/ m < l \/ l = m
    BY <2>1
  <2> QED
    BY <1>3, <2>1, <2>2
<1>6. f \in Injection(S, 0 .. n - 1)
  BY <1>4, <1>5 DEF Injection, IsInjective
<1>7. IsFiniteSet(0 .. n - 1) /\ Cardinality(0 .. n - 1) = n
  BY <1>1, FS_Interval
<1>8. f \in Surjection(S, 0 .. n - 1)
  BY <1>6, <1>7, FS_Injection
<1>9. PICK l \in S : f[l] = k
  BY <1>8 DEF Surjection
<1> QED
  BY <1>9 DEF f

LEMMA Least ==
  ASSUME NEW S \in SUBSET Nat, IsFiniteSet(S), S # {}
  PROVE  \E i \in S : \A k \in S : i <= k
<1>1. Cardinality(S) \in Nat /\ Cardinality(S) # 0
  BY FS_CardinalityType, FS_EmptySet
<1>2. 0 \in 0 .. Cardinality(S) - 1
  BY <1>1
<1>3. PICK l \in S : Cardinality({q \in S : q < l}) = 0
  BY <1>2, Ranks
<1>4. IsFiniteSet({q \in S : q < l})
  BY FS_Subset
<1>5. {q \in S : q < l} = {}
  BY <1>3, <1>4, FS_EmptySet
<1>6. \A k \in S : l <= k
  BY <1>5
<1> QED
  BY <1>6

LEMMA Sliced ==
  ASSUME NEW S, NEW s, NEW i, NEW m, NEW t, IsSlice(S, s, i, m, t)
  PROVE  SliceOf(S, s, i, m, t)
<1> DEFINE f == i + 1
           l == i + m
<1>1. /\ Len(s) \in Nat /\ l <= Len(s) /\ t = SubSeq(s, f, l)
      /\ s \in Seq(S) /\ i \in Nat /\ m \in Nat
  BY DEF IsSlice
<1>2. f \in Int /\ l \in Int /\ \A k \in f .. l : s[k] \in S
  BY <1>1
<1>3. l - f + 1 = m /\ (f <= l <=> m # 0) /\ \A k \in 1 .. m : f + k - 1 = i + k
  BY <1>1
<1> HIDE DEF f, l
<1>4. /\ t \in Seq(S) /\ Len(t) = IF f <= l THEN l - f + 1 ELSE 0
      /\ \A k \in 1 .. l - f + 1 : t[k] = s[f + k - 1]
  BY <1>1, <1>2, SubSeqProperties
<1> QED
  BY <1>3, <1>4 DEF SliceOf

LEMMA Joined ==
  ASSUME NEW S, NEW a, NEW b, NEW t, NEW m, IsJoin(S, a, b, t, m)
  PROVE  JoinOf(S, a, b, t, m)
<1>1. a \in Seq(S) /\ b \in Seq(S) /\ t = a \o b /\ m = Len(a) + Len(b)
  BY DEF IsJoin
<1> QED
  BY <1>1, ConcatProperties DEF JoinOf

\* Both halves of a partition of more than one league have a league.
LEMMA Halves ==
  ASSUME NEW part \in SUBSET Leagues, Cardinality(part) > 1
  PROVE  E!FirstHalf(part) # {} /\ part \ E!FirstHalf(part) # {} /\ E!FirstHalf(part) \subseteq part
<1> DEFINE n == Cardinality(part)
           h == (n + 1) \div 2
<1>1. IsFiniteSet(part) /\ part \in SUBSET Nat /\ n \in Nat
  BY EventConstants, FS_Subset, FS_CardinalityType
<1>2. \A l \in part : l \in E!FirstHalf(part) <=> Cardinality({q \in part : q < l}) < h
  BY EventSets DEF E!FirstHalf, E!Before
<1>3. E!FirstHalf(part) \subseteq part
  BY DEF E!FirstHalf
<1>4. 0 \in 0 .. n - 1 /\ n - 1 \in 0 .. n - 1 /\ 0 < h /\ ~(n - 1 < h)
  BY <1>1
<1>5. PICK a \in part : Cardinality({q \in part : q < a}) = 0
  BY <1>1, <1>4, Ranks
<1>6. PICK b \in part : Cardinality({q \in part : q < b}) = n - 1
  BY <1>1, <1>4, Ranks
<1> HIDE DEF h, n
<1>7. a \in E!FirstHalf(part) /\ b \notin E!FirstHalf(part)
  BY <1>2, <1>4, <1>5, <1>6
<1> QED
  BY <1>3, <1>7

LEMMA HalvedFacts ==
  ASSUME NEW plan \in Seq(SUBSET Leagues), NEW i \in 1 .. Len(plan), NEW h, h = E!Halved(plan, i)
  PROVE  IsHalved(plan, i, h)
<1> DEFINE a == SubSeq(plan, 1, i - 1)
           b == <<E!FirstHalf(plan[i]), plan[i] \ E!FirstHalf(plan[i])>>
           c == SubSeq(plan, i + 1, Len(plan))
           n == Len(plan)
<1>1. n \in Nat /\ i \in Nat /\ 1 <= i /\ i <= n /\ \A j \in 1 .. n : plan[j] \in SUBSET Leagues
  OBVIOUS
<1>2. /\ a \in Seq(SUBSET Leagues) /\ Len(a) = i - 1
      /\ \A j \in 1 .. i - 1 : a[j] = plan[j]
  <2>1. 0 + (i - 1) = i - 1 /\ i - 1 \in Nat /\ \A j \in 1 .. i - 1 : 0 + j = j
    BY <1>1
  <2>2. IsSlice(SUBSET Leagues, plan, 0, i - 1, a)
    BY <1>1, <2>1 DEF IsSlice
  <2> QED
    BY <2>1, <2>2, Sliced DEF SliceOf
<1>3. /\ c \in Seq(SUBSET Leagues) /\ Len(c) = n - i
      /\ \A j \in 1 .. n - i : c[j] = plan[i + j]
  <2>1. i + (n - i) = Len(plan) /\ n - i \in Nat
    BY <1>1
  <2>2. IsSlice(SUBSET Leagues, plan, i, n - i, c)
    BY <1>1, <2>1 DEF IsSlice
  <2> HIDE DEF c, n
  <2> QED
    BY <2>2, Sliced DEF SliceOf
<1>4. /\ b \in Seq(SUBSET Leagues) /\ Len(b) = 2
      /\ b[1] = E!FirstHalf(plan[i]) /\ b[2] = plan[i] \ E!FirstHalf(plan[i])
  BY <1>1 DEF E!FirstHalf
<1> HIDE DEF a, b, c, n
<1>5. h = a \o b \o c
  BY DEF E!Halved, a, b, c, n
<1>6. /\ a \o b \in Seq(SUBSET Leagues) /\ Len(a \o b) = i + 1
      /\ \A j \in 1 .. i + 1 : (a \o b)[j] = IF j <= i - 1 THEN a[j] ELSE b[j - (i - 1)]
  <2>1. IsJoin(SUBSET Leagues, a, b, a \o b, i + 1)
    BY <1>1, <1>2, <1>4 DEF IsJoin
  <2>2. JoinOf(SUBSET Leagues, a, b, a \o b, i + 1)
    BY <2>1, Joined
  <2> QED
    BY <1>2, <2>2 DEF JoinOf
<1>7. /\ h \in Seq(SUBSET Leagues) /\ Len(h) = n + 1
      /\ \A j \in 1 .. n + 1 : h[j] = IF j <= i + 1 THEN (a \o b)[j] ELSE c[j - (i + 1)]
  <2>1. IsJoin(SUBSET Leagues, a \o b, c, h, n + 1)
    BY <1>1, <1>3, <1>5, <1>6 DEF IsJoin
  <2>2. JoinOf(SUBSET Leagues, a \o b, c, h, n + 1)
    BY <2>1, Joined
  <2> QED
    BY <1>6, <2>2 DEF JoinOf
<1>8. ASSUME NEW j \in 1 .. i - 1 PROVE h[j] = plan[j]
  <2>1. j \in 1 .. i + 1 /\ j \in 1 .. n + 1 /\ j <= i - 1 /\ j <= i + 1
    BY <1>1
  <2>2. h[j] = (a \o b)[j]
    BY <1>7, <2>1
  <2>3. (a \o b)[j] = a[j]
    BY <1>6, <2>1
  <2> QED
    BY <1>2, <2>2, <2>3
<1>9. h[i] = b[1] /\ h[i + 1] = b[2]
  <2>1. i \in 1 .. i + 1 /\ i + 1 \in 1 .. i + 1 /\ i \in 1 .. n + 1 /\ i + 1 \in 1 .. n + 1
    BY <1>1
  <2>2. i - (i - 1) = 1 /\ (i + 1) - (i - 1) = 2 /\ ~(i <= i - 1) /\ ~(i + 1 <= i - 1) /\ i <= i + 1
    BY <1>1
  <2>3. /\ h[i] = (a \o b)[i] /\ h[i + 1] = (a \o b)[i + 1]
        /\ (a \o b)[i] = b[i - (i - 1)] /\ (a \o b)[i + 1] = b[(i + 1) - (i - 1)]
    BY <1>6, <1>7, <2>1, <2>2
  <2> QED
    BY <2>2, <2>3
<1>10. \A j \in i + 2 .. n + 1 : h[j] = plan[j - 1]
  <2> TAKE j \in i + 2 .. n + 1
  <2>1. j \in 1 .. n + 1 /\ ~(j <= i + 1) /\ j - (i + 1) \in 1 .. n - i /\ i + (j - (i + 1)) = j - 1
    BY <1>1
  <2> QED
    BY <1>3, <1>7, <2>1
<1> QED
  BY <1>4, <1>7, <1>8, <1>9, <1>10 DEF n, IsHalved

LEMMA HalvedValid ==
  ASSUME NEW plan \in Seq(SUBSET Leagues), NEW i \in 1 .. Len(plan), E!ValidPlan(plan),
         Cardinality(plan[i]) > 1, NEW h, h = E!Halved(plan, i)
  PROVE  E!ValidPlan(h) /\ UNION E!Ranged(h) = UNION E!Ranged(plan)
<1> DEFINE n == Len(plan)
           from(j) == IF j <= i THEN j ELSE j - 1
<1>1. n \in Nat /\ i \in Nat /\ 1 <= i /\ i <= n /\ plan[i] \in SUBSET Leagues
  OBVIOUS
<1>2. /\ h \in Seq(SUBSET Leagues) /\ Len(h) = n + 1
      /\ \A j \in 1 .. i - 1 : h[j] = plan[j]
      /\ h[i] = E!FirstHalf(plan[i]) /\ h[i + 1] = plan[i] \ E!FirstHalf(plan[i])
      /\ \A j \in i + 2 .. n + 1 : h[j] = plan[j - 1]
  BY HalvedFacts DEF IsHalved
<1>3. h[i] # {} /\ h[i + 1] # {} /\ h[i] \cap h[i + 1] = {} /\ h[i] \cup h[i + 1] = plan[i]
  BY <1>1, <1>2, Halves
<1>4. DOMAIN h = 1 .. n + 1 /\ DOMAIN plan = 1 .. n /\ h # <<>>
  BY <1>1, <1>2
<1>5. /\ \A j \in 1 .. n : plan[j] # {}
      /\ \A j, k \in 1 .. n : j # k => plan[j] \cap plan[k] = {}
  BY <1>4 DEF E!ValidPlan
<1>6. \A j \in 1 .. n + 1 : from(j) \in 1 .. n /\ h[j] \subseteq plan[from(j)] /\ h[j] # {}
  <2> TAKE j \in 1 .. n + 1
  <2>1. CASE j < i
    BY <1>1, <1>2, <1>5, <2>1
  <2>2. CASE j = i
    BY <1>1, <1>3, <2>2
  <2>3. CASE j = i + 1
    <3>1. from(j) = i
      BY <1>1, <2>3
    <3> QED
      BY <1>1, <1>3, <2>3, <3>1
  <2>4. CASE j > i + 1
    <3>1. j \in i + 2 .. n + 1 /\ from(j) = j - 1 /\ j - 1 \in 1 .. n
      BY <1>1, <2>4
    <3> QED
      BY <1>2, <1>5, <3>1
  <2> QED
    BY <1>1, <2>1, <2>2, <2>3, <2>4
<1>7. \A j, k \in 1 .. n + 1 : j # k => h[j] \cap h[k] = {}
  <2> SUFFICES ASSUME NEW j \in 1 .. n + 1, NEW k \in 1 .. n + 1, j < k
               PROVE  h[j] \cap h[k] = {}
    BY <1>1
  <2>1. CASE from(j) = from(k)
    <3>1. j = i /\ k = i + 1
      BY <1>1, <2>1
    <3> QED
      BY <1>3, <3>1
  <2>2. CASE from(j) # from(k)
    BY <1>5, <1>6, <2>2
  <2> QED
    BY <2>1, <2>2
<1>8. E!ValidPlan(h)
  BY <1>4, <1>6, <1>7 DEF E!ValidPlan
<1>9. ASSUME NEW l \in UNION E!Ranged(h) PROVE l \in UNION E!Ranged(plan)
  BY <1>4, <1>6 DEF E!Ranged
<1>10. ASSUME NEW l \in UNION E!Ranged(plan) PROVE l \in UNION E!Ranged(h)
  <2>1. PICK j \in 1 .. n : l \in plan[j]
    BY <1>4 DEF E!Ranged
  <2>2. \E k \in 1 .. n + 1 : l \in h[k]
    <3>1. CASE j < i
      <4>1. j \in 1 .. n + 1 /\ h[j] = plan[j]
        BY <1>1, <1>2, <3>1
      <4> QED
        BY <2>1, <4>1
    <3>2. CASE j = i
      <4>1. i \in 1 .. n + 1 /\ i + 1 \in 1 .. n + 1
        BY <1>1
      <4> QED
        BY <1>3, <2>1, <3>2, <4>1
    <3>3. CASE j > i
      <4>1. j + 1 \in i + 2 .. n + 1 /\ j + 1 \in 1 .. n + 1 /\ j + 1 - 1 = j
        BY <1>1, <3>3
      <4>2. h[j + 1] = plan[j + 1 - 1]
        BY <1>2, <4>1
      <4> QED
        BY <2>1, <4>1, <4>2
    <3> QED
      BY <1>1, <3>1, <3>2, <3>3
  <2> QED
    BY <1>4, <2>2 DEF E!Ranged
<1> QED
  BY <1>8, <1>9, <1>10

LEMMA InjectiveCounts ==
  ASSUME NEW s \in Seq(Nat), Injective(s)
  PROVE  E!Cardinality(E!Ranged(s)) = Len(s)
<1> DEFINE n == Len(s)
           T == E!Ranged(s)
<1>1. n \in Nat /\ DOMAIN s = 1 .. n /\ s \in [1 .. n -> Nat]
  OBVIOUS
<1>2. s \in Surjection(1 .. n, T)
  BY <1>1 DEF Surjection, E!Ranged
<1>3. s \in Injection(1 .. n, T)
  BY <1>1, <1>2 DEF Injective, Injection, IsInjective, Surjection
<1>4. IsFiniteSet(1 .. n) /\ Cardinality(1 .. n) = n
  BY <1>1, UpToIsFinite
<1>5. Cardinality(T) = n
  BY <1>2, <1>3, <1>4, FS_Surjection
<1> QED
  BY <1>5, EventSets

LEMMA PlaceFacts ==
  ASSUME NEW s \in Seq(Nat), NEW i \in E!Ranged(s)
  PROVE  E!Place(s, i) \in 1 .. Len(s) /\ s[E!Place(s, i)] = i
<1>1. \E k \in DOMAIN s : s[k] = i
  BY DEF E!Ranged
<1>2. DOMAIN s = 1 .. Len(s)
  OBVIOUS
<1> QED
  BY <1>1, <1>2 DEF E!Place

LEMMA WithoutFacts ==
  ASSUME NEW s \in Seq(Nat), Injective(s), NEW i
  PROVE  /\ E!Without(s, i) \in Seq(Nat) /\ Injective(E!Without(s, i))
         /\ E!Ranged(E!Without(s, i)) = E!Ranged(s) \ {i}
<1>1. CASE i \notin E!Ranged(s)
  <2>1. E!Without(s, i) = s /\ E!Ranged(s) \ {i} = E!Ranged(s)
    BY <1>1 DEF E!Without
  <2> QED
    BY <2>1
<1>2. CASE i \in E!Ranged(s)
  <2> DEFINE n == Len(s)
             p == E!Place(s, i)
             a == SubSeq(s, 1, p - 1)
             b == SubSeq(s, p + 1, n)
             w == E!Without(s, i)
             old(k) == IF k < p THEN k ELSE k + 1
  <2>1. n \in Nat /\ p \in Nat /\ 1 <= p /\ p <= n /\ s[p] = i /\ DOMAIN s = 1 .. n
    BY <1>2, PlaceFacts
  <2>2. w = a \o b
    BY <1>2 DEF E!Without
  <2> HIDE DEF p, w
  <2>3. /\ a \in Seq(Nat) /\ Len(a) = p - 1
        /\ \A k \in 1 .. p - 1 : a[k] = s[k]
    <3>1. 0 + (p - 1) = p - 1 /\ p - 1 \in Nat /\ \A k \in 1 .. p - 1 : 0 + k = k
      BY <2>1
    <3>2. IsSlice(Nat, s, 0, p - 1, a)
      BY <2>1, <3>1 DEF IsSlice
    <3> QED
      BY <3>1, <3>2, Sliced DEF SliceOf
  <2>4. /\ b \in Seq(Nat) /\ Len(b) = n - p
        /\ \A k \in 1 .. n - p : b[k] = s[p + k]
    <3>1. p + (n - p) = n /\ n - p \in Nat
      BY <2>1
    <3>2. IsSlice(Nat, s, p, n - p, b)
      BY <2>1, <3>1 DEF IsSlice
    <3> HIDE DEF b, n
    <3> QED
      BY <3>2, Sliced DEF SliceOf
  <2> HIDE DEF a, b, n
  <2>5. /\ w \in Seq(Nat) /\ Len(w) = n - 1
        /\ \A k \in 1 .. n - 1 : w[k] = IF k <= p - 1 THEN a[k] ELSE b[k - (p - 1)]
    <3>1. IsJoin(Nat, a, b, w, n - 1)
      BY <2>1, <2>2, <2>3, <2>4 DEF IsJoin
    <3>2. JoinOf(Nat, a, b, w, n - 1)
      BY <3>1, Joined
    <3> QED
      BY <2>3, <3>2 DEF JoinOf
  <2>6. DOMAIN w = 1 .. n - 1
    BY <2>1, <2>5
  <2>7. \A k \in 1 .. n - 1 : w[k] = s[old(k)] /\ old(k) \in 1 .. n /\ old(k) # p
    <3> TAKE k \in 1 .. n - 1
    <3>1. CASE k < p
      BY <2>1, <2>3, <2>5, <3>1
    <3>2. CASE k >= p
      <4>1. k - (p - 1) \in 1 .. n - p /\ p + (k - (p - 1)) = k + 1 /\ ~(k <= p - 1)
        BY <2>1, <3>2
      <4>2. w[k] = s[k + 1]
        BY <2>4, <2>5, <4>1
      <4> QED
        BY <2>1, <3>2, <4>2
    <3> QED
      BY <2>1, <3>1, <3>2
  <2>8. \A k, j \in 1 .. n - 1 : old(k) = old(j) => k = j
    BY <2>1
  <2>9. \A k, j \in 1 .. n : s[k] = s[j] => k = j
    BY <2>1 DEF Injective
  <2>10. Injective(w)
    BY <2>6, <2>7, <2>8, <2>9 DEF Injective
  <2>11. ASSUME NEW x \in E!Ranged(w) PROVE x \in E!Ranged(s) \ {i}
    <3>1. PICK k \in 1 .. n - 1 : x = w[k]
      BY <2>6 DEF E!Ranged
    <3>2. x = s[old(k)] /\ old(k) \in 1 .. n /\ old(k) # p
      BY <2>7, <3>1
    <3>3. p \in 1 .. n
      BY <2>1
    <3> HIDE DEF old
    <3> QED
      BY <2>1, <2>9, <3>2, <3>3 DEF E!Ranged
  <2>12. ASSUME NEW x \in E!Ranged(s), x # i PROVE x \in E!Ranged(w)
    <3>1. PICK k \in 1 .. n : x = s[k]
      BY <2>1 DEF E!Ranged
    <3>2. k # p
      BY <2>1, <2>12, <3>1
    <3>3. \E j \in 1 .. n - 1 : old(j) = k
      <4>1. CASE k < p
        BY <2>1, <4>1
      <4>2. CASE k > p
        <5>1. k - 1 \in 1 .. n - 1 /\ old(k - 1) = k
          BY <2>1, <4>2
        <5> QED
          BY <5>1
      <4> QED
        BY <2>1, <3>2, <4>1, <4>2
    <3> QED
      BY <2>6, <2>7, <3>1, <3>3 DEF E!Ranged
  <2> QED
    BY <2>5, <2>10, <2>11, <2>12 DEF w
<1> QED
  BY <1>1, <1>2

\* Putting a partition at the end of the deferred ones.
LEMMA DeferFacts ==
  ASSUME NEW s \in Seq(Nat), Injective(s), NEW i \in Nat,
         NEW q, q = Append(E!Without(s, i), i)
  PROVE  /\ q \in Seq(Nat) /\ Injective(q) /\ q # <<>>
         /\ E!Ranged(q) = E!Ranged(s) \cup {i}
         /\ Head(q) \in E!Ranged(q)
<1>1. PICK w \in Seq(Nat) : /\ w = E!Without(s, i) /\ Injective(w)
                            /\ E!Ranged(w) = E!Ranged(s) \ {i}
  BY WithoutFacts
<1>2. /\ q \in Seq(Nat) /\ q # <<>> /\ Len(q) = Len(w) + 1
      /\ \A k \in 1 .. Len(w) : q[k] = w[k]
      /\ q[Len(w) + 1] = i
  BY <1>1, AppendProperties
<1>3. Len(w) \in Nat /\ DOMAIN w = 1 .. Len(w) /\ DOMAIN q = 1 .. Len(w) + 1
  BY <1>1, <1>2
<1>4. \A k \in 1 .. Len(w) : w[k] # i
  BY <1>1, <1>3 DEF E!Ranged
<1>5. Injective(q)
  <2> SUFFICES ASSUME NEW j \in 1 .. Len(w) + 1, NEW k \in 1 .. Len(w) + 1, q[j] = q[k]
               PROVE  j = k
    BY <1>3 DEF Injective
  <2>1. CASE j \in 1 .. Len(w) /\ k \in 1 .. Len(w)
    BY <1>1, <1>2, <1>3, <2>1 DEF Injective
  <2>2. CASE j = Len(w) + 1 /\ k # Len(w) + 1
    <3>1. k \in 1 .. Len(w) /\ q[j] = i
      BY <1>2, <1>3, <2>2
    <3> QED
      BY <1>2, <1>4, <3>1
  <2>3. CASE k = Len(w) + 1 /\ j # Len(w) + 1
    <3>1. j \in 1 .. Len(w) /\ q[k] = i
      BY <1>2, <1>3, <2>3
    <3> QED
      BY <1>2, <1>4, <3>1
  <2> QED
    BY <1>3, <2>1, <2>2, <2>3
<1>6. E!Ranged(q) = E!Ranged(w) \cup {i}
  <2>1. ASSUME NEW x \in E!Ranged(q) PROVE x \in E!Ranged(w) \cup {i}
    BY <1>2, <1>3 DEF E!Ranged
  <2>2. ASSUME NEW x \in E!Ranged(w) PROVE x \in E!Ranged(q)
    BY <1>2, <1>3 DEF E!Ranged
  <2>3. Len(w) + 1 \in DOMAIN q
    BY <1>3
  <2>4. i \in E!Ranged(q)
    BY <1>2, <2>3 DEF E!Ranged
  <2> QED
    BY <2>1, <2>2, <2>4
<1>7. Head(q) \in E!Ranged(q)
  <2>1. Head(q) = q[1]
    BY <1>2
  <2>2. 1 \in DOMAIN q
    BY <1>3
  <2> QED
    BY <2>1, <2>2 DEF E!Ranged
<1> QED
  BY <1>1, <1>2, <1>5, <1>6, <1>7

\* The deferred partitions are the same ones after partition i is halved.
LEMMA ShiftFacts ==
  ASSUME NEW s \in Seq(Nat), Injective(s), NEW i \in Nat, NEW t, t = E!ShiftedDeferral(s, i)
  PROVE  /\ t \in Seq(Nat) /\ Injective(t)
         /\ \A x \in E!Ranged(s) : x <= i => x \in E!Ranged(t)
         /\ \A x \in E!Ranged(s) : x >= i => x + 1 \in E!Ranged(t)
         /\ \A y \in E!Ranged(t) : (y \in E!Ranged(s) /\ y <= i) \/ (y - 1 \in E!Ranged(s) /\ y > i)
<1> DEFINE n == Len(s)
           up(x) == IF x > i THEN x + 1 ELSE x
           m == [k \in DOMAIN s |-> IF s[k] > i THEN s[k] + 1 ELSE s[k]]
<1>1. n \in Nat /\ DOMAIN s = 1 .. n /\ (\A k \in 1 .. n : s[k] \in Nat)
      /\ \A k, j \in 1 .. n : s[k] = s[j] => k = j
  BY DEF Injective
<1>2. /\ m \in Seq(Nat) /\ Len(m) = n
      /\ \A k \in 1 .. n : m[k] = up(s[k])
  BY <1>1
<1> HIDE DEF m
<1>3. CASE i \notin E!Ranged(s)
  <2>1. t = m
    BY <1>3 DEF E!ShiftedDeferral, m
  <2>2. DOMAIN m = 1 .. n
    BY <1>2
  <2>3. \A k \in 1 .. n : s[k] # i
    BY <1>1, <1>3 DEF E!Ranged
  <2>4. Injective(m)
    <3> SUFFICES ASSUME NEW j \in 1 .. n, NEW k \in 1 .. n, m[j] = m[k] PROVE j = k
      BY <2>2 DEF Injective
    <3>1. PICK x \in Nat : x = s[j]
      BY <1>1
    <3>2. PICK y \in Nat : y = s[k]
      BY <1>1
    <3>3. up(x) = up(y)
      BY <1>2, <3>1, <3>2
    <3>4. x = y
      BY <3>3
    <3> QED
      BY <1>1, <3>1, <3>2, <3>4
  <2>5. \A x \in E!Ranged(s) : up(x) \in E!Ranged(m)
    BY <1>1, <1>2, <2>2 DEF E!Ranged
  <2>6. \A x \in E!Ranged(s) : x \in Nat /\ x # i
    BY <1>1, <1>3 DEF E!Ranged
  <2>7. \A y \in E!Ranged(m) : \E x \in E!Ranged(s) : y = up(x)
    BY <1>1, <1>2, <2>2 DEF E!Ranged
  <2>8. \A x \in E!Ranged(s) : x <= i => x \in E!Ranged(m)
    BY <2>5, <2>6
  <2>9. \A x \in E!Ranged(s) : x >= i => x + 1 \in E!Ranged(m)
    BY <2>5, <2>6
  <2>10. \A y \in E!Ranged(m) : (y \in E!Ranged(s) /\ y <= i) \/ (y - 1 \in E!Ranged(s) /\ y > i)
    <3> TAKE y \in E!Ranged(m)
    <3>1. PICK x \in E!Ranged(s) : y = up(x)
      BY <2>7
    <3>2. x \in Nat
      BY <2>6
    <3>3. CASE x > i
      <4>1. y - 1 = x /\ y > i
        BY <3>1, <3>2, <3>3
      <4> QED
        BY <4>1
    <3>4. CASE ~(x > i)
      <4>1. y = x /\ y <= i
        BY <3>1, <3>2, <3>4
      <4> QED
        BY <4>1
    <3> QED
      BY <3>3, <3>4
  <2> QED
    BY <1>2, <2>1, <2>4, <2>8, <2>9, <2>10
<1>4. CASE i \in E!Ranged(s)
  <2> DEFINE p == E!Place(s, i)
             a == SubSeq(m, 1, p)
             b == SubSeq(m, p + 1, n)
             c == a \o <<i + 1>>
  <2>1. p \in Nat /\ 1 <= p /\ p <= n /\ s[p] = i
    BY <1>1, <1>4, PlaceFacts
  <2>2. t = c \o b
    BY <1>2, <1>4 DEF E!ShiftedDeferral, m
  <2> HIDE DEF p
  <2>3. /\ a \in Seq(Nat) /\ Len(a) = p
        /\ \A k \in 1 .. p : a[k] = m[k]
    <3>1. 0 + p = p /\ \A k \in 1 .. p : 0 + k = k
      BY <2>1
    <3>2. IsSlice(Nat, m, 0, p, a)
      BY <1>1, <1>2, <2>1, <3>1 DEF IsSlice
    <3> QED
      BY <3>1, <3>2, Sliced DEF SliceOf
  <2>4. /\ b \in Seq(Nat) /\ Len(b) = n - p
        /\ \A k \in 1 .. n - p : b[k] = m[p + k]
    <3>1. p + (n - p) = n /\ n - p \in Nat
      BY <1>1, <2>1
    <3>2. IsSlice(Nat, m, p, n - p, b)
      BY <1>1, <1>2, <2>1, <3>1 DEF IsSlice
    <3> HIDE DEF b, n
    <3> QED
      BY <3>2, Sliced DEF SliceOf
  <2> HIDE DEF a, b
  <2>5. /\ c \in Seq(Nat) /\ Len(c) = p + 1
        /\ \A k \in 1 .. p + 1 : c[k] = IF k <= p THEN m[k] ELSE i + 1
    <3>1. <<i + 1>> \in Seq(Nat) /\ Len(<<i + 1>>) = 1 /\ <<i + 1>>[1] = i + 1
      OBVIOUS
    <3>2. /\ c \in Seq(Nat) /\ Len(c) = p + 1
          /\ \A k \in 1 .. p + 1 : c[k] = IF k <= p THEN a[k] ELSE <<i + 1>>[k - p]
      <4>1. IsJoin(Nat, a, <<i + 1>>, c, p + 1)
        BY <2>1, <2>3, <3>1 DEF IsJoin
      <4>2. JoinOf(Nat, a, <<i + 1>>, c, p + 1)
        BY <4>1, Joined
      <4> QED
        BY <2>3, <4>2 DEF JoinOf
    <3>3. \A k \in 1 .. p + 1 : k <= p \/ k - p = 1
      BY <2>1
    <3> QED
      BY <2>1, <2>3, <3>1, <3>2, <3>3
  <2> HIDE DEF c
  <2>6. /\ t \in Seq(Nat) /\ Len(t) = n + 1
        /\ \A k \in 1 .. n + 1 : t[k] = IF k <= p + 1 THEN c[k] ELSE b[k - (p + 1)]
    <3>1. IsJoin(Nat, c, b, t, n + 1)
      BY <1>1, <2>1, <2>2, <2>4, <2>5 DEF IsJoin
    <3>2. JoinOf(Nat, c, b, t, n + 1)
      BY <3>1, Joined
    <3> QED
      BY <2>5, <3>2 DEF JoinOf
  <2>7. /\ \A k \in 1 .. p : t[k] = up(s[k])
        /\ t[p + 1] = i + 1
        /\ \A k \in p + 2 .. n + 1 : t[k] = up(s[k - 1])
    <3>1. ASSUME NEW k \in 1 .. p PROVE t[k] = up(s[k])
      <4>1. k \in 1 .. n + 1 /\ k \in 1 .. n /\ k \in 1 .. p + 1 /\ k <= p + 1 /\ k <= p
        BY <1>1, <2>1
      <4> QED
        BY <1>2, <2>5, <2>6, <4>1
    <3>2. t[p + 1] = i + 1
      <4>1. p + 1 \in 1 .. n + 1 /\ p + 1 <= p + 1 /\ ~(p + 1 <= p) /\ p + 1 \in 1 .. p + 1
        BY <1>1, <2>1
      <4> QED
        BY <2>5, <2>6, <4>1
    <3>3. ASSUME NEW k \in p + 2 .. n + 1 PROVE t[k] = up(s[k - 1])
      <4>1. /\ k \in 1 .. n + 1 /\ ~(k <= p + 1) /\ k - (p + 1) \in 1 .. n - p
            /\ p + (k - (p + 1)) = k - 1 /\ k - 1 \in 1 .. n
        BY <1>1, <2>1
      <4>2. t[k] = b[k - (p + 1)] /\ b[k - (p + 1)] = m[k - 1]
        BY <2>4, <2>6, <4>1
      <4> QED
        BY <1>2, <4>1, <4>2
    <3> QED
      BY <3>1, <3>2, <3>3
  <2>8. DOMAIN t = 1 .. n + 1
    BY <1>1, <2>6
  <2> DEFINE old(k) == IF k <= p THEN k ELSE k - 1
  <2>9. \A k \in 1 .. n + 1 : /\ old(k) \in 1 .. n
                              /\ k # p + 1 => t[k] = up(s[old(k)])
                              /\ k # p + 1 /\ k # p => s[old(k)] # i
    <3> TAKE k \in 1 .. n + 1
    <3>1. old(k) \in 1 .. n
      BY <1>1, <2>1
    <3>2. CASE k <= p
      BY <1>1, <2>1, <2>7, <3>1, <3>2
    <3>3. CASE k = p + 1
      BY <3>1, <3>3
    <3>4. CASE k > p + 1
      <4>1. k \in p + 2 .. n + 1 /\ old(k) = k - 1 /\ k - 1 # p
        BY <1>1, <2>1, <3>4
      <4> QED
        BY <1>1, <2>1, <2>7, <3>1, <4>1
    <3> QED
      BY <2>1, <3>2, <3>3, <3>4
  <2>10. Injective(t)
    <3> SUFFICES ASSUME NEW j \in 1 .. n + 1, NEW k \in 1 .. n + 1, j < k PROVE t[j] # t[k]
      BY <1>1, <2>8 DEF Injective
    <3>1. CASE j # p + 1 /\ k # p + 1
      <4>1. old(j) \in 1 .. n /\ old(k) \in 1 .. n /\ old(j) # old(k)
        BY <1>1, <2>1, <3>1
      <4>2. s[old(j)] \in Nat /\ s[old(k)] \in Nat /\ s[old(j)] # s[old(k)]
        BY <1>1, <4>1
      <4>3. t[j] = up(s[old(j)]) /\ t[k] = up(s[old(k)])
        BY <2>9, <3>1
      <4>4. PICK x \in Nat : x = s[old(j)]
        BY <4>2
      <4>5. PICK y \in Nat : y = s[old(k)]
        BY <4>2
      <4>6. x # y /\ t[j] = up(x) /\ t[k] = up(y)
        BY <4>2, <4>3, <4>4, <4>5
      <4> QED
        BY <4>6
    <3>2. CASE j = p + 1
      <4>1. k # p + 1 /\ k # p
        BY <2>1, <3>2
      <4>2. t[k] = up(s[old(k)]) /\ s[old(k)] # i /\ s[old(k)] \in Nat
        BY <1>1, <2>9, <4>1
      <4>3. PICK y \in Nat : y = s[old(k)]
        BY <4>2
      <4>4. t[k] = up(y) /\ y # i /\ t[j] = i + 1
        BY <2>7, <3>2, <4>2, <4>3
      <4>5. up(y) # i + 1
        BY <4>4
      <4> QED
        BY <4>4, <4>5
    <3>3. CASE k = p + 1
      <4>1. t[j] = up(s[j]) /\ j \in 1 .. n /\ s[j] \in Nat
        BY <1>1, <2>1, <2>7, <3>3
      <4> QED
        <5>1. j # p => s[j] # i
          BY <1>1, <2>1, <4>1
        <5>2. j = p => t[j] = i
          BY <2>1, <4>1
        <5>3. t[k] = i + 1
          BY <2>7, <3>3
        <5> QED
          BY <4>1, <5>1, <5>2, <5>3
    <3> QED
      BY <3>1, <3>2, <3>3
  <2>11. \A x \in E!Ranged(s) : up(x) \in E!Ranged(t)
    <3> TAKE x \in E!Ranged(s)
    <3>1. PICK k \in 1 .. n : x = s[k]
      BY <1>1 DEF E!Ranged
    <3>2. CASE k <= p
      <4>1. k \in 1 .. p /\ k \in 1 .. n + 1
        BY <1>1, <2>1, <3>2
      <4> QED
        BY <2>7, <2>8, <3>1, <4>1 DEF E!Ranged
    <3>3. CASE k > p
      <4>1. k + 1 \in p + 2 .. n + 1 /\ k + 1 \in 1 .. n + 1 /\ k + 1 - 1 = k
        BY <1>1, <2>1, <3>3
      <4>2. t[k + 1] = up(x)
        <5>1. PICK l \in p + 2 .. n + 1 : l = k + 1 /\ l - 1 = k
          BY <4>1
        <5>2. t[l] = up(s[l - 1])
          BY <2>7
        <5> QED
          BY <3>1, <5>1, <5>2
      <4> QED
        BY <2>8, <4>1, <4>2 DEF E!Ranged
    <3> QED
      BY <2>1, <3>2, <3>3
  <2>12. i + 1 \in E!Ranged(t)
    <3>1. p + 1 \in 1 .. n + 1
      BY <1>1, <2>1
    <3> QED
      BY <2>7, <2>8, <3>1 DEF E!Ranged
  <2>13. \A x \in E!Ranged(s) : x \in Nat
    BY <1>1 DEF E!Ranged
  <2>14. \A y \in E!Ranged(t) : y = i + 1 \/ \E x \in E!Ranged(s) : y = up(x)
    <3> TAKE y \in E!Ranged(t)
    <3>1. PICK k \in 1 .. n + 1 : y = t[k]
      BY <2>8 DEF E!Ranged
    <3>2. CASE k = p + 1
      BY <2>7, <3>1, <3>2
    <3>3. CASE k # p + 1
      <4>1. old(k) \in DOMAIN s /\ y = up(s[old(k)])
        BY <1>1, <2>9, <3>1, <3>3
      <4> QED
        BY <4>1 DEF E!Ranged
    <3> QED
      BY <3>2, <3>3
  <2>15. \A x \in E!Ranged(s) : x <= i => x \in E!Ranged(t)
    BY <2>11, <2>13
  <2>16. \A x \in E!Ranged(s) : x >= i => x + 1 \in E!Ranged(t)
    <3> TAKE x \in E!Ranged(s)
    <3>1. x = i \/ x # i
      OBVIOUS
    <3> QED
      BY <2>11, <2>12, <2>13, <3>1
  <2>17. \A y \in E!Ranged(t) : (y \in E!Ranged(s) /\ y <= i) \/ (y - 1 \in E!Ranged(s) /\ y > i)
    <3> TAKE y \in E!Ranged(t)
    <3>1. CASE y = i + 1
      <4>1. y - 1 = i /\ y > i
        BY <3>1
      <4> QED
        BY <1>4, <4>1
    <3>2. CASE \E x \in E!Ranged(s) : y = up(x)
      <4>1. PICK x \in E!Ranged(s) : y = up(x)
        BY <3>2
      <4>2. x \in Nat
        BY <2>13
      <4>3. CASE x > i
        <5>1. y - 1 = x /\ y > i
          BY <4>1, <4>2, <4>3
        <5> QED
          BY <5>1
      <4>4. CASE ~(x > i)
        <5>1. y = x /\ y <= i
          BY <4>1, <4>2, <4>4
        <5> QED
          BY <5>1
      <4> QED
        BY <4>3, <4>4
    <3> QED
      BY <2>14, <3>1, <3>2
  <2> QED
    BY <2>6, <2>10, <2>15, <2>16, <2>17
<1> QED
  BY <1>3, <1>4

-----------------------------------------------------------------------------
(* The worker between its calls, and the start of a sweep.                 *)

LEMMA EventRest ==
  /\ E!Idle \in EventWorker /\ E!Idle.pc = "idle"
  /\ \A c, landed : EventInvocation(E!Idle, c, landed)
BY DEF E!Idle, EventWorker, EventInvocation

LEMMA EventKept ==
  ASSUME cp # None, cp' # None, cp'.last = cp.last,
         cp.last # None =>
            /\ cp.last.slot \in {0, 1}
            /\ Of(EventRows, rec', cp.last.slot, cp.last.sweep)
                 = Of(EventRows, rec, cp.last.slot, cp.last.sweep)
            /\ cp.status = "complete" => cp.last.sweep = cp.sweep /\ cp.last.slot = cp.slot
            /\ cp'.status = "complete" => cp.last.sweep = cp'.sweep /\ cp.last.slot = cp'.slot
  PROVE  Publishes(E!Current, E!Current')
<1>1. Generation' = Generation
  BY DEF Generation
<1>2. CASE cp.last = None
  BY <1>1, <1>2 DEF E!Current, E!IsCurrent, Publishes
<1>3. CASE cp.last # None
  <2>1. E!Current = Of(EventRows, rec, cp.last.slot, cp.last.sweep)
    BY <1>3, EventConstants DEF E!Current, E!IsCurrent, Of
  <2>2. E!Current' = Of(EventRows, rec', cp.last.slot, cp.last.sweep)
    BY <1>3, EventConstants DEF E!Current, E!IsCurrent, Of
  <2> QED
    BY <1>1, <1>3, <2>1, <2>2 DEF Publishes
<1> QED
  BY <1>2, <1>3

\* What holds of the checkpoint wherever the worker stands.
LEMMA EventHolds ==
  ASSUME EventInv, cp # None
  PROVE  /\ cp \in E!Checkpoint /\ cp.sweep = sweeps /\ sweeps \in Nat /\ sweeps > 0 /\ ~refused
         /\ rec \in Records(EventRows, sweeps) /\ cp.slot \in {0, 1} /\ cp.of \in Catalogs
         /\ cp.plan \in Seq(SUBSET Leagues) /\ cp.deferred \in Seq(Nat)
         /\ cp.counts.pages \in Nat /\ cp.counts.source \in Nat /\ cp.counts.landed \in Nat
         /\ cp.last \in E!Published \cup {None} /\ cp.part \in Nat
         /\ EventCheckpoint(cp, sweeps, rec) /\ EventInvocation(inv, cp, rec) /\ Covers(cp, walked)
         /\ E!Valid(cp)
         /\ cp.last # None =>
               /\ cp.last.slot \in {0, 1} /\ cp.last.sweep \in 1 .. sweeps
               /\ cp.status = "complete" => cp.last.sweep = cp.sweep /\ cp.last.slot = cp.slot
               /\ cp.status = "running" => cp.last.sweep # cp.sweep /\ cp.last.slot # cp.slot
<1>1. cp \in E!Checkpoint /\ EventCheckpoint(cp, sweeps, rec)
  BY DEF EventInv
<1>2. /\ cp.slot \in {0, 1} /\ cp.of \in Catalogs
      /\ cp.plan \in Seq(SUBSET Leagues) /\ cp.deferred \in Seq(Nat)
      /\ cp.counts \in E!Counters /\ cp.last \in E!Published \cup {None} /\ cp.part \in Nat
  BY <1>1 DEF E!Checkpoint, E!Slots
<1>3. cp.counts.pages \in Nat /\ cp.counts.source \in Nat /\ cp.counts.landed \in Nat
  BY <1>2 DEF E!Counters
<1>4. cp.last # None => cp.last.slot \in {0, 1}
  BY <1>2 DEF E!Published, E!Slots
<1>5. E!Valid(cp)
  BY <1>1 DEF EventCheckpoint
<1>6. cp.last # None /\ cp.status = "complete" => cp.last.sweep = cp.sweep /\ cp.last.slot = cp.slot
  <2>1. cp.status = "complete" => cp.last = [sweep |-> cp.sweep, slot |-> cp.slot, counts |-> cp.counts]
    BY <1>5 DEF E!Valid
  <2> QED
    BY <2>1
<1>7. cp.last # None /\ cp.status = "running" => cp.last.sweep # cp.sweep /\ cp.last.slot # cp.slot
  BY <1>5 DEF E!Valid
<1> QED
  BY <1>1, <1>2, <1>3, <1>4, <1>5, <1>6, <1>7 DEF EventInv, EventCheckpoint

LEMMA EventRuns == ASSUME EventInv, inv.pc # "idle" PROVE cp # None /\ cp.status = "running"
<1>1. cp # None
  BY EventRest DEF EventInv
<1> QED
  BY <1>1, EventHolds DEF EventInvocation

\* A sweep starts at its first partition that is not deferred, or retries the deferred ones.
LEMMA FreshFacts ==
  ASSUME NEW n \in Nat, NEW slot \in {0, 1}, NEW last \in E!Published \cup {None},
         NEW plan \in Seq(SUBSET Leagues), plan # <<>>, NEW of \in Catalogs,
         NEW deferred \in Seq(Nat), E!Ranged(deferred) \subseteq DOMAIN plan,
         NEW c, c = E!Fresh(n, slot, plan, of, deferred, last)
  PROVE  Begun(c, n, slot, plan, of, deferred, last)
<1> DEFINE primary == DOMAIN plan \ E!Ranged(deferred)
<1>1. DOMAIN plan = 1 .. Len(plan) /\ Len(plan) \in Nat /\ DOMAIN plan # {}
  <2>1. DOMAIN plan = 1 .. Len(plan) /\ Len(plan) \in Nat /\ Len(plan) # 0
    BY EmptySeq
  <2>2. 1 \in 1 .. Len(plan)
    BY <2>1
  <2> QED
    BY <2>1, <2>2
<1>2. primary \in SUBSET Nat /\ IsFiniteSet(primary)
  <2>1. IsFiniteSet(1 .. Len(plan)) /\ 1 .. Len(plan) \in SUBSET Nat
    <3>1. Len(plan) \in Nat
      BY <1>1
    <3> QED
      BY <3>1, UpToIsFinite
  <2>2. primary \in SUBSET (1 .. Len(plan))
    BY <1>1
  <2> QED
    BY <2>1, <2>2, FS_Subset
<1>3. /\ c.status = "running" /\ c.sweep = n /\ c.slot = slot
      /\ c.plan = plan /\ c.of = of /\ c.deferred = deferred /\ c.pending = None
      /\ c.counts = E!Counts /\ c.last = last
  BY DEF E!Fresh
<1>4. E!Counts \in E!Counters /\ E!Counts.pages = 0 /\ E!Counts.source = 0 /\ E!Counts.landed = 0
  BY DEF E!Counts, E!Counters
<1>5. /\ c.part \in DOMAIN plan /\ (c.retrying => c.part \in E!Ranged(deferred))
      /\ \A i \in DOMAIN plan : i \in E!Ranged(deferred) \/ (~c.retrying /\ i >= c.part)
  <2>1. CASE primary # {}
    <3> DEFINE part == CHOOSE i \in primary : \A k \in primary : i <= k
    <3>1. part \in primary /\ \A k \in primary : part <= k
      BY <1>2, <2>1, Least
    <3>2. c.part = part /\ c.retrying = FALSE
      BY <2>1 DEF E!Fresh
    <3> HIDE DEF part
    <3>3. \A i \in DOMAIN plan : i \in Nat /\ part \in Nat
      BY <1>1, <3>1
    <3> QED
      BY <3>1, <3>2, <3>3
  <2>2. CASE primary = {}
    <3>1. E!Ranged(deferred) = DOMAIN plan /\ deferred # <<>>
      BY <1>1, <2>2 DEF E!Ranged
    <3>2. c.part = Head(deferred) /\ c.retrying = TRUE
      BY <2>2, <3>1 DEF E!Fresh
    <3>3. Head(deferred) \in E!Ranged(deferred)
      BY <3>1 DEF E!Ranged
    <3> QED
      BY <3>1, <3>2, <3>3
  <2> QED
    BY <2>1, <2>2
<1>6. c \in E!Checkpoint
  <2>1. c.part \in Nat \ {0}
    BY <1>1, <1>5
  <2>2. c.retrying \in BOOLEAN /\ c.paused \in BOOLEAN /\ c.offset = 0 /\ c.rev = 0 /\ c.partRows = 0
    BY DEF E!Fresh
  <2>3. c = [status |-> c.status, sweep |-> c.sweep, slot |-> c.slot, plan |-> c.plan, of |-> c.of,
             part |-> c.part, offset |-> c.offset, rev |-> c.rev, partRows |-> c.partRows,
             deferred |-> c.deferred, retrying |-> c.retrying, counts |-> c.counts,
             pending |-> c.pending, paused |-> c.paused, last |-> c.last]
    BY DEF E!Fresh
  <2> QED
    BY <1>3, <1>4, <2>1, <2>2, <2>3 DEF E!Checkpoint, E!Slots
<1> QED
  BY <1>3, <1>4, <1>5, <1>6, EventConstants DEF Begun

\* A sweep that begins has landed nothing and walked nothing.
LEMMA EventBegins ==
  ASSUME EventInv, NEW slot \in {0, 1}, NEW last \in E!Published \cup {None},
         NEW plan \in Seq(SUBSET Leagues), NEW of \in Catalogs, NEW deferred \in Seq(Nat),
         E!ValidPlan(plan), UNION E!Ranged(plan) = UNION E!Ranged(PlanOf[of]),
         Injective(deferred), E!Ranged(deferred) \subseteq DOMAIN plan,
         E!Put(E!Fresh(sweeps + 1, slot, plan, of, deferred, last)),
         sweeps' = sweeps + 1, walked' = {}, rec' = rec, catalog' = catalog,
         inv' \in EventWorker, inv'.pc = "idle",
         last # None =>
            /\ last.slot # slot /\ last.sweep \in 1 .. sweeps
            /\ Cardinality(Of(EventRows, rec, last.slot, last.sweep)) = last.counts.landed
  PROVE  EventInv' /\ cp' # None /\ cp'.last = last /\ cp'.status = "running"
<1> DEFINE n == sweeps + 1
           c == E!Fresh(sweeps + 1, slot, plan, of, deferred, last)
<1>1. /\ sweeps \in Nat /\ n \in Nat /\ n > 0 /\ sweeps' = n /\ sweeps < n
      /\ rec \in Records(EventRows, sweeps) /\ ~refused /\ catalog \in Catalogs
  BY DEF EventInv
<1>2. plan # <<>>
  BY DEF E!ValidPlan
<1>3. /\ c \in E!Checkpoint /\ c # None /\ c.status = "running" /\ c.sweep = n /\ c.slot = slot
      /\ c.plan = plan /\ c.of = of /\ c.deferred = deferred /\ c.pending = None
      /\ c.counts.pages = 0 /\ c.counts.source = 0 /\ c.counts.landed = 0 /\ c.last = last
      /\ c.part \in DOMAIN plan /\ (c.retrying => c.part \in E!Ranged(deferred))
      /\ \A i \in DOMAIN plan : i \in E!Ranged(deferred) \/ (~c.retrying /\ i >= c.part)
  <2>1. Begun(c, n, slot, plan, of, deferred, last)
    BY <1>1, <1>2, FreshFacts
  <2> HIDE DEF c, n
  <2> QED
    BY <2>1 DEF Begun
<1>4. E!Put(c)
  OBVIOUS
<1> HIDE DEF c
<1>5. E!Valid(c)
  BY <1>1, <1>3, InjectiveCounts DEF E!Valid
<1>6. cp' = c /\ ~refused'
  BY <1>1, <1>4, <1>5 DEF E!Put
<1>7. rec' \in Records(EventRows, n) /\ PagesOK(EventRows, rec', slot, n, 0, 0, {})
  BY <1>1, NothingLanded
<1>8. EventCheckpoint(c, n, rec')
  BY <1>1, <1>3, <1>5, <1>7 DEF EventCheckpoint
<1>9. EventInvocation(inv', c, rec')
  BY DEF EventInvocation
<1>10. Covers(c, {})
  BY <1>3 DEF Covers
<1> HIDE DEF n
<1> QED
  BY <1>1, <1>3, <1>6, <1>7, <1>8, <1>9, <1>10 DEF EventInv

LEMMA NoneDeferred == <<>> \in Seq(Nat) /\ Injective(<<>>) /\ E!Ranged(<<>>) = {}
BY DEF Injective, E!Ranged

LEMMA OneDeferred ==
  ASSUME NEW i \in Nat
  PROVE  <<i>> \in Seq(Nat) /\ Injective(<<i>>) /\ E!Ranged(<<i>>) = {i}
BY DEF Injective, E!Ranged

\* After a contradiction the sweep starts again in its slot.
LEMMA EventRestarts ==
  ASSUME EventInv, cp # None, cp.status = "running",
         NEW plan \in Seq(SUBSET Leagues), NEW of \in Catalogs, NEW deferred \in Seq(Nat),
         E!ValidPlan(plan), UNION E!Ranged(plan) = UNION E!Ranged(PlanOf[of]),
         Injective(deferred), E!Ranged(deferred) \subseteq DOMAIN plan,
         E!Restart(plan, of, deferred), rec' = rec, catalog' = catalog,
         inv' \in EventWorker, inv'.pc = "idle"
  PROVE  EventInv' /\ Publishes(E!Current, E!Current')
<1>1. /\ cp.slot \in {0, 1} /\ cp.last \in E!Published \cup {None}
      /\ EventCheckpoint(cp, sweeps, rec)
      /\ cp.last # None => cp.last.slot # cp.slot /\ cp.last.slot \in {0, 1}
  BY EventHolds
<1>2. cp.last # None =>
        /\ cp.last.slot # cp.slot /\ cp.last.sweep \in 1 .. sweeps
        /\ Cardinality(Of(EventRows, rec, cp.last.slot, cp.last.sweep)) = cp.last.counts.landed
  BY <1>1 DEF EventCheckpoint
<1>3. /\ E!Put(E!Fresh(sweeps + 1, cp.slot, plan, of, deferred, cp.last))
      /\ sweeps' = sweeps + 1 /\ walked' = {}
  BY DEF E!Restart
<1>4. EventInv' /\ cp' # None /\ cp'.last = cp.last /\ cp'.status = "running"
  BY <1>1, <1>2, <1>3, EventBegins
<1> QED
  BY <1>1, <1>4, EventKept

LEMMA EventRestartsSame ==
  ASSUME EventInv, cp # None, cp.status = "running", E!Restart(cp.plan, cp.of, <<>>),
         rec' = rec, catalog' = catalog, inv' \in EventWorker, inv'.pc = "idle"
  PROVE  EventInv' /\ Publishes(E!Current, E!Current')
<1>1. /\ cp.plan \in Seq(SUBSET Leagues) /\ cp.of \in Catalogs /\ E!ValidPlan(cp.plan)
      /\ UNION E!Ranged(cp.plan) = UNION E!Ranged(PlanOf[cp.of])
  BY EventHolds DEF E!Valid, Covers
<1> QED
  BY <1>1, NoneDeferred, EventRestarts

LEMMA EventStart == ASSUME EventInv, E!StartCheckpoint PROVE EventInv' /\ Publishes(E!Current, E!Current')
<1> DEFINE plan == IF cp # None /\ cp.of = catalog THEN cp.plan ELSE PlanOf[catalog]
<1>1. /\ E!Put(E!Fresh(sweeps + 1, E!StartSlot(cp), plan, catalog, <<>>,
                       IF cp = None THEN None ELSE cp.last))
      /\ sweeps' = sweeps + 1 /\ walked' = {} /\ rec' = rec /\ catalog' = catalog
      /\ inv' = inv /\ inv.pc = "idle" /\ inv \in EventWorker /\ catalog \in Catalogs
      /\ cp # None => cp.status # "running"
  BY DEF E!StartCheckpoint, E!Running, EventInv
<1>2. /\ plan \in Seq(SUBSET Leagues) /\ E!ValidPlan(plan)
      /\ UNION E!Ranged(plan) = UNION E!Ranged(PlanOf[catalog])
  <2>1. CASE cp # None /\ cp.of = catalog
    BY <2>1, EventHolds DEF E!Valid, Covers
  <2>2. CASE ~(cp # None /\ cp.of = catalog)
    BY <1>1, <2>2, EventConstants
  <2> QED
    BY <2>1, <2>2
<1> HIDE DEF plan
<1>3. CASE cp = None
  <2>1. E!StartSlot(cp) = 0
    BY <1>3 DEF E!StartSlot
  <2>2. 0 \in {0, 1} /\ None \in E!Published \cup {None}
    OBVIOUS
  <2>3. E!Put(E!Fresh(sweeps + 1, 0, plan, catalog, <<>>, None))
    BY <1>1, <1>3, <2>1
  <2>4. EventInv' /\ cp' # None /\ cp'.last = None /\ cp'.status = "running"
    BY <1>1, <1>2, <2>2, <2>3, NoneDeferred, EventBegins
  <2>5. Generation = 0 /\ Generation' = 0 /\ E!Current = {} /\ E!Current' = {}
    BY <1>3, <2>4 DEF Generation, E!Current, E!IsCurrent
  <2> QED
    BY <2>4, <2>5 DEF Publishes
<1>4. CASE cp # None
  <2>1. /\ cp.slot \in {0, 1} /\ 1 - cp.slot \in {0, 1} /\ 1 - cp.slot # cp.slot
        /\ cp.last \in E!Published \cup {None} /\ cp.status = "complete"
        /\ EventCheckpoint(cp, sweeps, rec) /\ E!StartSlot(cp) = 1 - cp.slot
    BY <1>1, <1>4, EventHolds DEF E!Checkpoint, E!StartSlot
  <2>2. cp.last # None =>
          /\ cp.last.slot # 1 - cp.slot /\ cp.last.slot \in {0, 1} /\ cp.last.sweep \in 1 .. sweeps
          /\ cp.last.sweep = cp.sweep /\ cp.last.slot = cp.slot
          /\ Cardinality(Of(EventRows, rec, cp.last.slot, cp.last.sweep)) = cp.last.counts.landed
    BY <1>4, <2>1, EventHolds DEF EventCheckpoint
  <2>3. E!Put(E!Fresh(sweeps + 1, 1 - cp.slot, plan, catalog, <<>>, cp.last))
    BY <1>1, <1>4, <2>1
  <2>4. EventInv' /\ cp' # None /\ cp'.last = cp.last /\ cp'.status = "running"
    BY <1>1, <1>2, <2>1, <2>2, <2>3, NoneDeferred, EventBegins
  <2> QED
    BY <1>1, <1>4, <2>2, <2>4, EventKept
<1> QED
  BY <1>3, <1>4

LEMMA EventMigrate == ASSUME EventInv, E!MigratePlan PROVE EventInv' /\ Publishes(E!Current, E!Current')
<1>1. /\ cp # None /\ cp.status = "running" /\ E!Restart(PlanOf[catalog], catalog, <<>>)
      /\ rec' = rec /\ catalog' = catalog /\ inv' = inv /\ inv.pc = "idle" /\ inv \in EventWorker
      /\ catalog \in Catalogs
  BY DEF E!MigratePlan, E!Running, EventInv
<1>2. PlanOf[catalog] \in Seq(SUBSET Leagues) /\ E!ValidPlan(PlanOf[catalog])
  BY <1>1, EventConstants
<1> QED
  BY <1>1, <1>2, NoneDeferred, EventRestarts

\* Steps that move the worker between its calls, pause the stream or change the catalog.
LEMMA EventMoves ==
  ASSUME EventInv, rec' = rec, sweeps' = sweeps, walked' = walked, ~refused',
         catalog' \in Catalogs, cp = None => inv' = E!Idle,
         cp' = cp \/ (cp # None /\ \E b \in BOOLEAN : cp' = [cp EXCEPT !.paused = b]),
         inv' \in EventWorker, cp # None => EventInvocation(inv', cp, rec)
  PROVE  EventInv' /\ Publishes(E!Current, E!Current')
<1>1. CASE cp = None
  <2>1. EventInv'
    BY <1>1 DEF EventInv
  <2>2. Generation = 0 /\ Generation' = 0 /\ E!Current = {} /\ E!Current' = {}
    BY <1>1 DEF Generation, E!Current, E!IsCurrent
  <2> QED
    BY <2>1, <2>2 DEF Publishes
<1>2. CASE cp # None
  <2>1. /\ cp \in E!Checkpoint /\ EventCheckpoint(cp, sweeps, rec) /\ Covers(cp, walked)
        /\ E!Valid(cp)
    BY <1>2, EventHolds
  <2>2. /\ cp' \in E!Checkpoint /\ cp' # None
        /\ cp'.status = cp.status /\ cp'.sweep = cp.sweep /\ cp'.slot = cp.slot
        /\ cp'.plan = cp.plan /\ cp'.of = cp.of /\ cp'.part = cp.part /\ cp'.offset = cp.offset
        /\ cp'.rev = cp.rev /\ cp'.partRows = cp.partRows /\ cp'.deferred = cp.deferred
        /\ cp'.retrying = cp.retrying /\ cp'.counts = cp.counts
        /\ cp'.pending = cp.pending /\ cp'.last = cp.last
    <3>1. cp' \in E!Checkpoint
      <4>1. CASE cp' = cp
        BY <2>1, <4>1
      <4>2. CASE \E b \in BOOLEAN : cp' = [cp EXCEPT !.paused = b]
        <5>1. PICK b \in BOOLEAN : cp' = [cp EXCEPT !.paused = b]
          BY <4>2
        <5> QED
          BY <2>1, <5>1 DEF E!Checkpoint
      <4> QED
        BY <4>1, <4>2
    <3>2. /\ cp'.status = cp.status /\ cp'.sweep = cp.sweep /\ cp'.slot = cp.slot
          /\ cp'.plan = cp.plan /\ cp'.of = cp.of /\ cp'.part = cp.part /\ cp'.offset = cp.offset
          /\ cp'.rev = cp.rev /\ cp'.partRows = cp.partRows /\ cp'.deferred = cp.deferred
          /\ cp'.retrying = cp.retrying /\ cp'.counts = cp.counts
          /\ cp'.pending = cp.pending /\ cp'.last = cp.last
      BY <2>1 DEF E!Checkpoint
    <3> QED
      BY <3>1, <3>2, EventConstants
  <2>3. E!Valid(cp')
    BY <2>1, <2>2 DEF E!Valid, E!Position
  <2>4. EventCheckpoint(cp', sweeps', rec')
    BY <2>1, <2>2, <2>3 DEF EventCheckpoint
  <2>5. EventInvocation(inv', cp', rec')
    BY <1>2, <2>2 DEF EventInvocation
  <2>6. Covers(cp', walked')
    BY <2>1, <2>2 DEF Covers
  <2>7. EventInv'
    BY <2>2, <2>4, <2>5, <2>6 DEF EventInv
  <2> QED
    BY <1>2, <2>2, <2>7, EventHolds, EventKept
<1> QED
  BY <1>1, <1>2

LEMMA EventClaim == ASSUME EventInv, E!ClaimPosition PROVE EventInv' /\ Publishes(E!Current, E!Current')
<1>1. /\ cp # None /\ cp.status = "running" /\ rec' = rec /\ inv.pc = "idle" /\ inv \in EventWorker
      /\ catalog' = catalog /\ catalog \in Catalogs
  BY DEF E!ClaimPosition, E!Running, EventInv
<1>2. CASE E!Restart(cp.plan, cp.of, <<>>) /\ inv' = inv
  BY <1>1, <1>2, EventRestartsSame
<1>3. CASE ~(E!Restart(cp.plan, cp.of, <<>>) /\ inv' = inv)
  <2>1. /\ inv' = [inv EXCEPT !.pc = "fetch"] /\ cp' = cp /\ sweeps' = sweeps
        /\ walked' = walked /\ ~refused'
    BY <1>3 DEF E!ClaimPosition, E!Goto, EventInv
  <2>2. inv' \in EventWorker /\ inv'.pc = "fetch"
    BY <1>1, <2>1 DEF EventWorker
  <2>3. EventInvocation(inv', cp, rec)
    BY <1>1, <2>2 DEF EventInvocation
  <2> QED
    BY <1>1, <2>1, <2>2, <2>3, EventMoves
<1> QED
  BY <1>2, <1>3

LEMMA EventPause == ASSUME EventInv, E!PauseStream PROVE EventInv' /\ Publishes(E!Current, E!Current')
<1> DEFINE c == [cp EXCEPT !.paused = TRUE]
<1>1. /\ E!Put(c) /\ rec' = rec /\ sweeps' = sweeps
      /\ inv' = E!Idle /\ inv.pc # "idle" /\ walked' = walked /\ catalog' = catalog
  BY DEF E!PauseStream, E!Return
<1>2. cp # None /\ cp \in E!Checkpoint /\ E!Valid(cp) /\ ~refused /\ catalog \in Catalogs
  BY <1>1, EventRuns, EventHolds DEF EventInv
<1>3. /\ c.status = cp.status /\ c.sweep = cp.sweep /\ c.slot = cp.slot
      /\ c.plan = cp.plan /\ c.part = cp.part /\ c.offset = cp.offset
      /\ c.rev = cp.rev /\ c.deferred = cp.deferred
      /\ c.retrying = cp.retrying /\ c.counts = cp.counts
      /\ c.pending = cp.pending /\ c.last = cp.last
  BY <1>2 DEF E!Checkpoint
<1>4. E!Valid(c)
  <2> HIDE DEF c
  <2> QED
    BY <1>2, <1>3 DEF E!Valid, E!Position
<1>5. cp' = [cp EXCEPT !.paused = TRUE] /\ ~refused'
  BY <1>1, <1>2, <1>4 DEF E!Put
<1> QED
  BY <1>1, <1>2, <1>5, EventRest, EventMoves

LEMMA EventElapse == ASSUME EventInv, E!Elapse PROVE EventInv' /\ Publishes(E!Current, E!Current')
<1>1. /\ cp' = [cp EXCEPT !.paused = FALSE] /\ rec' = rec /\ sweeps' = sweeps /\ inv' = inv
      /\ cp # None /\ walked' = walked /\ ~refused' /\ catalog' = catalog
  BY DEF E!Elapse, EventInv
<1>2. inv' \in EventWorker /\ EventInvocation(inv', cp, rec) /\ catalog \in Catalogs
  BY <1>1 DEF EventInv
<1> QED
  BY <1>1, <1>2, EventMoves

LEMMA EventDie == ASSUME EventInv, E!Die PROVE EventInv' /\ Publishes(E!Current, E!Current')
<1>1. /\ cp' = cp /\ rec' = rec /\ sweeps' = sweeps /\ inv' = E!Idle /\ inv.pc # "idle"
      /\ walked' = walked /\ ~refused' /\ catalog' = catalog /\ catalog \in Catalogs
  BY DEF E!Die, E!Return, EventInv
<1> QED
  BY <1>1, EventRest, EventMoves

LEMMA EventCatalog == ASSUME EventInv, E!NewCatalog PROVE EventInv' /\ Publishes(E!Current, E!Current')
<1>1. /\ cp' = cp /\ rec' = rec /\ sweeps' = sweeps /\ inv' = inv
      /\ walked' = walked /\ ~refused' /\ catalog' \in Catalogs
  BY DEF E!NewCatalog, EventInv
<1>2. /\ inv' \in EventWorker /\ (cp # None => EventInvocation(inv', cp, rec))
      /\ cp = None => inv' = E!Idle
  BY <1>1 DEF EventInv
<1> QED
  BY <1>1, <1>2, EventMoves

-----------------------------------------------------------------------------
(* Where a sweep stands in its plan.                                       *)

LEMMA PlacedFacts ==
  ASSUME NEW plan, NEW i, NEW s, NEW r, NEW done, Placed(plan, i, s, r, done)
  PROVE  /\ Len(plan) \in Nat /\ DOMAIN plan = 1 .. Len(plan) /\ i \in Nat /\ i \in 1 .. Len(plan)
         /\ plan[i] \in SUBSET Leagues /\ plan[i] \in E!Ranged(plan)
<1>1. plan \in Seq(SUBSET Leagues) /\ i \in DOMAIN plan
  BY DEF Placed
<1>2. Len(plan) \in Nat /\ DOMAIN plan = 1 .. Len(plan)
  BY <1>1
<1> QED
  BY <1>1, <1>2 DEF E!Ranged

LEMMA PlacedHalved ==
  ASSUME NEW plan, NEW i, NEW s, NEW r, NEW done, Placed(plan, i, s, r, done),
         Cardinality(plan[i]) > 1, NEW h, h = E!Halved(plan, i), NEW t, t = E!ShiftedDeferral(s, i)
  PROVE  Placed(h, i, t, r, done) /\ UNION E!Ranged(h) = UNION E!Ranged(plan)
<1> DEFINE n == Len(plan)
<1>1. /\ n \in Nat /\ DOMAIN plan = 1 .. n /\ i \in Nat /\ i \in 1 .. n
      /\ plan \in Seq(SUBSET Leagues) /\ E!ValidPlan(plan) /\ s \in Seq(Nat) /\ Injective(s)
  BY PlacedFacts DEF Placed
<1>2. /\ h \in Seq(SUBSET Leagues) /\ Len(h) = n + 1
      /\ \A j \in 1 .. i - 1 : h[j] = plan[j]
      /\ h[i] = E!FirstHalf(plan[i]) /\ h[i + 1] = plan[i] \ E!FirstHalf(plan[i])
      /\ \A j \in i + 2 .. n + 1 : h[j] = plan[j - 1]
  <2>1. IsHalved(plan, i, h)
    BY <1>1, HalvedFacts
  <2> QED
    BY <2>1 DEF IsHalved
<1>3. E!ValidPlan(h) /\ UNION E!Ranged(h) = UNION E!Ranged(plan)
  BY <1>1, HalvedValid
<1>4. /\ t \in Seq(Nat) /\ Injective(t)
      /\ \A x \in E!Ranged(s) : x <= i => x \in E!Ranged(t)
      /\ \A x \in E!Ranged(s) : x >= i => x + 1 \in E!Ranged(t)
      /\ \A y \in E!Ranged(t) : (y \in E!Ranged(s) /\ y <= i) \/ (y - 1 \in E!Ranged(s) /\ y > i)
  BY <1>1, ShiftFacts
<1>5. DOMAIN h = 1 .. n + 1
  BY <1>1, <1>2
<1>6. /\ E!Ranged(s) \subseteq 1 .. n /\ (r => i \in E!Ranged(s)) /\ done \subseteq UNION E!Ranged(plan)
      /\ \A j \in 1 .. n : plan[j] \subseteq done \/ j \in E!Ranged(s) \/ (~r /\ j >= i)
  BY <1>1 DEF Placed
<1>7. \A y \in E!Ranged(t) : y \in Nat
  BY <1>4 DEF E!Ranged
<1> HIDE DEF n
<1>8. \A y \in E!Ranged(t) : y \in 1 .. n + 1
  <2> TAKE y \in E!Ranged(t)
  <2>1. y \in Nat
    BY <1>7
  <2>2. CASE y \in E!Ranged(s)
    <3>1. y \in 1 .. n
      BY <1>6, <2>2
    <3> QED
      BY <1>1, <3>1
  <2>3. CASE y - 1 \in E!Ranged(s)
    <3>1. y - 1 \in 1 .. n
      BY <1>6, <2>3
    <3> QED
      BY <1>1, <2>1, <3>1
  <2> QED
    BY <1>4, <2>2, <2>3
<1>9. i \in DOMAIN h /\ (r => i \in E!Ranged(t))
  BY <1>1, <1>4, <1>5, <1>6
<1>10. \A j \in 1 .. n + 1 : h[j] \subseteq done \/ j \in E!Ranged(t) \/ (~r /\ j >= i)
  <2> TAKE j \in 1 .. n + 1
  <2>1. CASE j < i
    <3>1. j \in 1 .. i - 1 /\ j \in 1 .. n /\ j <= i /\ ~(j >= i)
      BY <1>1, <2>1
    <3>2. h[j] = plan[j]
      BY <1>2, <3>1
    <3>3. plan[j] \subseteq done \/ j \in E!Ranged(s)
      BY <1>6, <3>1
    <3> QED
      BY <1>4, <3>1, <3>2, <3>3
  <2>2. CASE j = i \/ j = i + 1
    <3>1. h[j] \subseteq plan[i]
      BY <1>2, <2>2 DEF E!FirstHalf
    <3>2. plan[i] \subseteq done \/ i \in E!Ranged(s) \/ ~r
      BY <1>1, <1>6
    <3>3. i <= i /\ i >= i /\ j >= i
      BY <1>1, <2>2
    <3> QED
      BY <1>4, <2>2, <3>1, <3>2, <3>3
  <2>3. CASE j > i + 1
    <3>1. /\ j \in i + 2 .. n + 1 /\ j - 1 \in 1 .. n /\ j - 1 >= i /\ j - 1 + 1 = j /\ j >= i
      BY <1>1, <2>3
    <3>2. h[j] = plan[j - 1]
      BY <1>2, <3>1
    <3>3. plan[j - 1] \subseteq done \/ j - 1 \in E!Ranged(s) \/ ~r
      BY <1>6, <3>1
    <3>4. j - 1 \in E!Ranged(s) => j \in E!Ranged(t)
      BY <1>4, <3>1
    <3> QED
      BY <3>1, <3>2, <3>3, <3>4
  <2> QED
    BY <1>1, <2>1, <2>2, <2>3
<1>11. E!Ranged(t) \subseteq DOMAIN h
  BY <1>5, <1>8
<1>12. \A j \in DOMAIN h : h[j] \subseteq done \/ j \in E!Ranged(t) \/ (~r /\ j >= i)
  BY <1>5, <1>10
<1>13. done \subseteq UNION E!Ranged(h)
  BY <1>3, <1>6
<1> QED
  BY <1>2, <1>3, <1>4, <1>9, <1>11, <1>12, <1>13 DEF Placed

LEMMA PlacedLater ==
  ASSUME NEW plan, NEW i, NEW s, NEW r, NEW done, Placed(plan, i, s, r, done),
         NEW q, q = Append(E!Without(s, i), i)
  PROVE  /\ ~r /\ i < Len(plan) => Placed(plan, i + 1, q, r, done)
         /\ r \/ ~(i < Len(plan)) => Placed(plan, Head(q), q, TRUE, done)
         /\ q # <<>>
<1> DEFINE n == Len(plan)
<1>1. /\ n \in Nat /\ DOMAIN plan = 1 .. n /\ i \in Nat /\ i \in 1 .. n
      /\ plan \in Seq(SUBSET Leagues) /\ E!ValidPlan(plan) /\ s \in Seq(Nat) /\ Injective(s)
      /\ E!Ranged(s) \subseteq 1 .. n /\ done \subseteq UNION E!Ranged(plan)
      /\ \A j \in 1 .. n : plan[j] \subseteq done \/ j \in E!Ranged(s) \/ (~r /\ j >= i)
  BY PlacedFacts DEF Placed
<1>2. /\ q \in Seq(Nat) /\ Injective(q) /\ q # <<>>
      /\ E!Ranged(q) = E!Ranged(s) \cup {i} /\ Head(q) \in E!Ranged(q)
  BY <1>1, DeferFacts
<1>3. E!Ranged(q) \subseteq DOMAIN plan
  BY <1>1, <1>2
<1> HIDE DEF n
<1>4. ASSUME ~r, i < n PROVE Placed(plan, i + 1, q, r, done)
  <2>1. i + 1 \in DOMAIN plan
    BY <1>1, <1>4
  <2>2. \A j \in 1 .. n : j >= i => j = i \/ j >= i + 1
    BY <1>1
  <2>3. \A j \in DOMAIN plan : plan[j] \subseteq done \/ j \in E!Ranged(q) \/ (~r /\ j >= i + 1)
    BY <1>1, <1>2, <1>4, <2>2
  <2> QED
    BY <1>1, <1>2, <1>3, <1>4, <2>1, <2>3 DEF Placed
<1>5. ASSUME r \/ ~(i < n) PROVE Placed(plan, Head(q), q, TRUE, done)
  <2>1. \A j \in 1 .. n : ~r /\ j >= i => j = i
    BY <1>1, <1>5
  <2>2. \A j \in DOMAIN plan : plan[j] \subseteq done \/ j \in E!Ranged(q)
    BY <1>1, <1>2, <2>1
  <2>3. Head(q) \in DOMAIN plan
    BY <1>2, <1>3
  <2> QED
    BY <1>1, <1>2, <1>3, <2>2, <2>3 DEF Placed
<1> QED
  BY <1>2, <1>4, <1>5 DEF n

\* Where the sweep goes when a partition is reconciled.
LEMMA PlacedNext ==
  ASSUME NEW plan, NEW i, NEW s, NEW r, NEW done, Placed(plan, i, s, r, done)
  PROVE  MovesOn(plan, s, r, E!Without(s, i), {j \in DOMAIN plan : j > i /\ j \notin E!Ranged(s)},
                 done \cup plan[i])
<1> DEFINE left == E!Without(s, i)
           ahead == {j \in DOMAIN plan : j > i /\ j \notin E!Ranged(s)}
           seen == done \cup plan[i]
<1> DEFINE n == Len(plan)
<1>1. /\ n \in Nat /\ DOMAIN plan = 1 .. n /\ i \in Nat /\ i \in 1 .. n
      /\ plan \in Seq(SUBSET Leagues) /\ E!ValidPlan(plan) /\ s \in Seq(Nat) /\ Injective(s)
      /\ E!Ranged(s) \subseteq 1 .. n /\ done \subseteq UNION E!Ranged(plan)
      /\ plan[i] \in E!Ranged(plan) /\ (r => i \in E!Ranged(s))
      /\ \A j \in 1 .. n : plan[j] \subseteq done \/ j \in E!Ranged(s) \/ (~r /\ j >= i)
  BY PlacedFacts DEF Placed
<1>2. left \in Seq(Nat) /\ Injective(left) /\ E!Ranged(left) = E!Ranged(s) \ {i}
  BY <1>1, WithoutFacts
<1>3. seen \subseteq UNION E!Ranged(plan)
  BY <1>1
<1>4. \A j \in 1 .. n : plan[j] \subseteq seen \/ (j \in E!Ranged(s) /\ j # i) \/ (~r /\ j > i)
  <2> TAKE j \in 1 .. n
  <2>1. j >= i => j = i \/ j > i
    BY <1>1
  <2>2. j = i => plan[j] \subseteq seen
    OBVIOUS
  <2> QED
    BY <1>1, <2>1, <2>2
<1>5. (\A j \in 1 .. n : plan[j] \subseteq seen) => seen = UNION E!Ranged(plan)
  <2> SUFFICES ASSUME \A j \in 1 .. n : plan[j] \subseteq seen PROVE UNION E!Ranged(plan) \subseteq seen
    BY <1>3
  <2> QED
    BY <1>1 DEF E!Ranged
<1> HIDE DEF n
<1>6. \A q \in Seq(Nat) : q # <<>> => Head(q) \in E!Ranged(q)
  <2> TAKE q \in Seq(Nat)
  <2> HAVE q # <<>>
  <2>1. Head(q) = q[1] /\ 1 \in DOMAIN q
    BY EmptySeq
  <2> QED
    BY <2>1 DEF E!Ranged
<1>7. E!Ranged(<<>>) = {}
  BY DEF E!Ranged
<1>8. ASSUME r, left # <<>> PROVE Placed(plan, Head(left), left, r, seen)
  <2>1. Head(left) \in E!Ranged(left) /\ E!Ranged(left) \subseteq DOMAIN plan
    BY <1>1, <1>2, <1>6, <1>8
  <2>2. \A j \in DOMAIN plan : plan[j] \subseteq seen \/ j \in E!Ranged(left) \/ (~r /\ j >= Head(left))
    BY <1>1, <1>2, <1>4, <1>8
  <2> QED
    BY <1>1, <1>2, <1>3, <2>1, <2>2 DEF Placed
<1>9. ASSUME r, left = <<>> PROVE seen = UNION E!Ranged(plan)
  <2>1. \A j \in 1 .. n : ~(j \in E!Ranged(s) /\ j # i)
    BY <1>2, <1>7, <1>9
  <2> QED
    BY <1>4, <1>5, <1>9, <2>1
<1>10. ASSUME ~r, ahead # {} PROVE Placed(plan, E!FirstOf(ahead), s, r, seen)
  <2> DEFINE k == E!FirstOf(ahead)
  <2>1. ahead \in SUBSET (1 .. n) /\ IsFiniteSet(1 .. n) /\ 1 .. n \in SUBSET Nat
    <3>1. ahead \in SUBSET (1 .. n)
      BY <1>1
    <3>2. n \in Nat
      BY <1>1
    <3> HIDE DEF ahead
    <3> QED
      BY <3>1, <3>2, UpToIsFinite
  <2>2. ahead \in SUBSET Nat /\ IsFiniteSet(ahead)
    BY <2>1, FS_Subset
  <2>3. \E j \in ahead : \A l \in ahead : j <= l
    BY <1>10, <2>2, Least
  <2>4. k \in ahead /\ \A l \in ahead : k <= l
    BY <2>3 DEF E!FirstOf
  <2> HIDE DEF k
  <2>5. k \in DOMAIN plan /\ k \in Nat
    BY <1>1, <2>2, <2>4
  <2>6. \A j \in 1 .. n : j > i => j \in E!Ranged(s) \/ j \in ahead
    BY <1>1
  <2>7. \A j \in ahead : j >= k
    BY <2>2, <2>4, <2>5
  <2>8. \A j \in DOMAIN plan : plan[j] \subseteq seen \/ j \in E!Ranged(s) \/ (~r /\ j >= k)
    BY <1>1, <1>4, <1>10, <2>6, <2>7
  <2>9. E!Ranged(s) \subseteq DOMAIN plan
    BY <1>1
  <2>10. Placed(plan, k, s, r, seen)
    BY <1>1, <1>3, <1>10, <2>5, <2>8, <2>9 DEF Placed
  <2> QED
    BY <2>10 DEF k
<1>11. ASSUME ~r, ahead = {} PROVE \A j \in 1 .. n : plan[j] \subseteq seen \/ j \in E!Ranged(s)
  <2>1. \A j \in 1 .. n : j > i => j \in E!Ranged(s)
    BY <1>1, <1>11
  <2> QED
    BY <1>4, <2>1
<1>12. ASSUME ~r, ahead = {}, s # <<>> PROVE Placed(plan, Head(s), s, TRUE, seen)
  <2>1. Head(s) \in E!Ranged(s) /\ E!Ranged(s) \subseteq DOMAIN plan
    BY <1>1, <1>6, <1>12
  <2>2. \A j \in DOMAIN plan : plan[j] \subseteq seen \/ j \in E!Ranged(s)
    BY <1>1, <1>11, <1>12
  <2> QED
    BY <1>1, <1>3, <2>1, <2>2 DEF Placed
<1>13. ASSUME ~r, ahead = {}, s = <<>> PROVE seen = UNION E!Ranged(plan)
  BY <1>5, <1>7, <1>11, <1>13
<1> QED
  BY <1>3, <1>8, <1>9, <1>10, <1>12, <1>13 DEF MovesOn

-----------------------------------------------------------------------------
(* The sweep goes on.                                                      *)

\* Where a running sweep stands.
LEMMA PlacedNow ==
  ASSUME EventInv, cp # None, cp.status = "running"
  PROVE  Placed(cp.plan, cp.part, cp.deferred, cp.retrying, walked)
<1>1. /\ cp.plan \in Seq(SUBSET Leagues) /\ cp.deferred \in Seq(Nat) /\ Covers(cp, walked)
      /\ E!Valid(cp) /\ EventCheckpoint(cp, sweeps, rec)
  BY EventHolds
<1>2. /\ E!ValidPlan(cp.plan) /\ cp.part \in DOMAIN cp.plan
      /\ E!Ranged(cp.deferred) \subseteq DOMAIN cp.plan
      /\ cp.retrying => cp.part \in E!Ranged(cp.deferred)
  BY <1>1 DEF E!Valid
<1>3. Injective(cp.deferred)
  BY <1>1 DEF EventCheckpoint
<1>4. /\ walked \subseteq UNION E!Ranged(cp.plan)
      /\ \A i \in DOMAIN cp.plan :
            \/ cp.plan[i] \subseteq walked
            \/ i \in E!Ranged(cp.deferred)
            \/ ~cp.retrying /\ i >= cp.part
  BY <1>1 DEF Covers
<1> QED
  BY <1>1, <1>2, <1>3, <1>4 DEF Placed

\* The sweep goes on at another page, with nothing sealed.
LEMMA EventAdvances ==
  ASSUME EventInv, cp # None, cp.status = "running", NEW c, SameSweep(cp, c), E!Put(c),
         rec' = rec, sweeps' = sweeps, catalog' = catalog, inv' = E!Idle,
         Placed(c.plan, c.part, c.deferred, c.retrying, walked'),
         UNION E!Ranged(c.plan) = UNION E!Ranged(cp.plan),
         c.counts.landed <= c.counts.source,
         PagesOK(EventRows, rec, cp.slot, sweeps, c.counts.pages, c.counts.landed, {})
  PROVE  EventInv' /\ Publishes(E!Current, E!Current')
<1>1. /\ cp.sweep = sweeps /\ sweeps \in Nat /\ sweeps > 0 /\ ~refused
      /\ rec \in Records(EventRows, sweeps) /\ catalog \in Catalogs
      /\ EventCheckpoint(cp, sweeps, rec) /\ Covers(cp, walked)
      /\ cp.last # None => /\ cp.last.slot \in {0, 1} /\ cp.last.sweep # cp.sweep
                           /\ cp.last.slot # cp.slot
  BY EventHolds DEF EventInv
<1>2. /\ c \in E!Checkpoint /\ c.status = "running" /\ c.sweep = cp.sweep /\ c.slot = cp.slot
      /\ c.of = cp.of /\ c.last = cp.last /\ c.pending = None
  BY DEF SameSweep
<1>3. c # None
  BY <1>2, EventConstants
<1>4. /\ E!ValidPlan(c.plan) /\ c.part \in DOMAIN c.plan
      /\ c.deferred \in Seq(Nat) /\ Injective(c.deferred) /\ E!Ranged(c.deferred) \subseteq DOMAIN c.plan
      /\ c.retrying => c.part \in E!Ranged(c.deferred)
      /\ walked' \subseteq UNION E!Ranged(c.plan)
      /\ \A j \in DOMAIN c.plan :
            c.plan[j] \subseteq walked' \/ j \in E!Ranged(c.deferred) \/ (~c.retrying /\ j >= c.part)
  BY DEF Placed
<1>5. E!Valid(c)
  BY <1>1, <1>2, <1>4, InjectiveCounts DEF E!Valid
<1>6. cp' = c /\ ~refused'
  BY <1>1, <1>5 DEF E!Put
<1>7. EventCheckpoint(c, sweeps, rec)
  BY <1>1, <1>2, <1>4, <1>5 DEF EventCheckpoint
<1>8. EventInvocation(E!Idle, c, rec) /\ E!Idle \in EventWorker
  BY EventRest
<1>9. Covers(c, walked')
  <2>1. UNION E!Ranged(c.plan) = UNION E!Ranged(PlanOf[c.of])
    BY <1>1, <1>2 DEF Covers
  <2> QED
    BY <1>2, <1>4, <2>1 DEF Covers
<1>10. EventInv'
  BY <1>1, <1>2, <1>3, <1>6, <1>7, <1>8, <1>9 DEF EventInv
<1> QED
  BY <1>1, <1>2, <1>3, <1>6, <1>10, EventKept

\* An attempt at a partition is counted.
LEMMA SettledFacts ==
  ASSUME NEW c \in E!Checkpoint, c.status = "running"
  PROVE  IsSettled(c, E!Settled(c))
<1> DEFINE d == E!Settled(c)
<1>1. PICK p \in Nat, s \in Nat, l \in Nat : c.counts = [pages |-> p, source |-> s, landed |-> l]
  BY DEF E!Checkpoint, E!Counters
<1>2. c.counts.pages = p /\ c.counts.source = s /\ c.counts.landed = l
  BY <1>1
<1>3. PICK q \in Nat : q = c.counts.pages + 1
  BY <1>2
<1>4. /\ d.status = c.status /\ d.sweep = c.sweep /\ d.slot = c.slot /\ d.of = c.of
      /\ d.last = c.last /\ d.pending = None /\ d.plan = c.plan /\ d.part = c.part
      /\ d.rev = c.rev /\ d.deferred = c.deferred /\ d.retrying = c.retrying
      /\ d.counts.pages = q /\ d.counts.source = s /\ d.counts.landed = l
  BY <1>2, <1>3 DEF E!Settled, E!Checkpoint, E!Counters
<1>5. d \in E!Checkpoint
  BY <1>3 DEF E!Settled, E!Checkpoint, E!Counters
<1> HIDE DEF d
<1>6. IsSettled(c, d)
  BY <1>2, <1>3, <1>4, <1>5 DEF IsSettled, SameSweep
<1> QED
  BY <1>6 DEF d

\* An attempt that lands nothing, at a partition that is then put elsewhere in the plan.
LEMMA EventPasses ==
  ASSUME EventInv, cp # None, cp.status = "running", cp.pending = None,
         NEW c, SameSweep(cp, c), c.counts = E!Settled(cp).counts, E!Put(c),
         rec' = rec, sweeps' = sweeps, catalog' = catalog, inv' = E!Idle, walked' = walked,
         Placed(c.plan, c.part, c.deferred, c.retrying, walked),
         UNION E!Ranged(c.plan) = UNION E!Ranged(cp.plan)
  PROVE  EventInv' /\ Publishes(E!Current, E!Current')
<1>1. /\ cp \in E!Checkpoint /\ cp.slot \in {0, 1} /\ sweeps \in Nat /\ sweeps > 0
      /\ cp.counts.pages \in Nat /\ cp.counts.source \in Nat /\ cp.counts.landed \in Nat
      /\ rec \in Records(EventRows, sweeps) /\ E!Valid(cp) /\ EventCheckpoint(cp, sweeps, rec)
  BY EventHolds
<1>2. IsSettled(cp, E!Settled(cp))
  BY <1>1, SettledFacts
<1>3. /\ c.counts.pages = cp.counts.pages + 1 /\ c.counts.source = cp.counts.source
      /\ c.counts.landed = cp.counts.landed
  BY <1>2 DEF IsSettled
<1>4. cp.counts.landed <= cp.counts.source
  BY <1>1 DEF E!Valid
<1>5. PagesOK(EventRows, rec, cp.slot, sweeps, cp.counts.pages, cp.counts.landed, {})
  BY <1>1 DEF EventCheckpoint
<1>6. AtPage(EventRows, sweeps, rec, cp.slot, sweeps, cp.counts.pages, cp.counts.landed, {})
  BY <1>1, <1>5, EventConstants DEF AtPage
<1>7. PagesOK(EventRows, rec, cp.slot, sweeps, cp.counts.pages + 1, cp.counts.landed, {})
  BY <1>6, Passing
<1>8. Placed(c.plan, c.part, c.deferred, c.retrying, walked')
  OBVIOUS
<1> QED
  BY <1>3, <1>4, <1>7, <1>8, EventAdvances

\* A checkpoint stays one when its place in the plan changes.
LEMMA RefinedTo ==
  ASSUME NEW c \in E!Checkpoint, NEW h \in Seq(SUBSET Leagues), NEW v \in Nat, NEW q \in Seq(Nat)
  PROVE  AtHalf(c, h, v, q) \in E!Checkpoint
BY DEF E!Checkpoint, AtHalf

LEMMA PutOff ==
  ASSUME NEW c \in E!Checkpoint, NEW k \in Nat \ {0}, NEW q \in Seq(Nat)
  PROVE  AtNext(c, k, q) \in E!Checkpoint
BY DEF E!Checkpoint, AtNext

LEMMA Retried ==
  ASSUME NEW c \in E!Checkpoint, NEW k \in Nat \ {0}, NEW v \in Nat, NEW q \in Seq(Nat),
         NEW p \in BOOLEAN
  PROVE  AtHead(c, k, v, q, p) \in E!Checkpoint
BY DEF E!Checkpoint, AtHead

LEMMA RefinedFacts ==
  ASSUME NEW c \in E!Checkpoint, NEW d, IsSettled(c, d), d = E!Settled(c),
         NEW h, h = E!Halved(c.plan, c.part), h \in Seq(SUBSET Leagues),
         NEW t, t = E!ShiftedDeferral(c.deferred, c.part), t \in Seq(Nat)
  PROVE  /\ SameSweep(c, E!Refined(c)) /\ E!Refined(c).counts = d.counts
         /\ E!Refined(c).plan = h /\ E!Refined(c).part = c.part /\ E!Refined(c).deferred = t
         /\ E!Refined(c).retrying = c.retrying
<1>1. d \in E!Checkpoint /\ d.plan = c.plan /\ d.deferred = c.deferred
  BY DEF IsSettled, SameSweep
<1>2. PICK v \in Nat : v = d.rev + 1
  BY <1>1 DEF E!Checkpoint
<1>3. E!Refined(c) = AtHalf(d, h, v, t)
  BY <1>1, <1>2 DEF E!Refined, AtHalf
<1>4. E!Refined(c) \in E!Checkpoint
  BY <1>1, <1>2, <1>3, RefinedTo
<1>5. /\ E!Refined(c).status = d.status /\ E!Refined(c).sweep = d.sweep /\ E!Refined(c).slot = d.slot
      /\ E!Refined(c).of = d.of /\ E!Refined(c).last = d.last /\ E!Refined(c).pending = d.pending
      /\ E!Refined(c).counts = d.counts
      /\ E!Refined(c).plan = h /\ E!Refined(c).part = d.part /\ E!Refined(c).deferred = t
      /\ E!Refined(c).retrying = d.retrying
  BY <1>1, <1>3 DEF E!Checkpoint, AtHalf
<1> QED
  BY <1>4, <1>5 DEF IsSettled, SameSweep

LEMMA DeferredFacts ==
  ASSUME NEW c \in E!Checkpoint, c.status = "running", NEW q \in Seq(Nat), Defers(c, q)
  PROVE  PutsOff(c, q, E!DeferredOn(c), E!DeferredLast(c))
<1> DEFINE d == E!Settled(c)
<1>0. /\ q = Append(E!Without(c.deferred, c.part), c.part) /\ q # <<>> /\ Head(q) \in Nat \ {0}
      /\ IsSettled(c, d)
  BY SettledFacts DEF Defers
<1> USE <1>0
<1> HIDE DEF d
<1>1. d \in E!Checkpoint /\ d.plan = c.plan /\ d.deferred = c.deferred /\ d.part = c.part
  BY DEF IsSettled, SameSweep
<1>2. PICK v \in Nat : v = d.rev + 1
  BY <1>1 DEF E!Checkpoint
<1>3. PICK n \in Nat \ {0} : n = c.part + 1
  BY DEF E!Checkpoint
<1>4. PICK p \in BOOLEAN : p = (c.retrying \/ Len(q) = 1)
  BY DEF E!Checkpoint
<1>5. PICK k \in Nat \ {0} : k = Head(q)
  OBVIOUS
<1>6. E!DeferredOn(c) = AtNext(d, n, q)
  BY <1>1, <1>3 DEF E!DeferredOn, AtNext, d
<1>7. E!DeferredLast(c) = AtHead(d, k, v, q, p)
  BY <1>1, <1>2, <1>4, <1>5 DEF E!DeferredLast, AtHead, d
<1>8. E!DeferredOn(c) \in E!Checkpoint /\ E!DeferredLast(c) \in E!Checkpoint
  <2>1. AtNext(d, n, q) \in E!Checkpoint
    BY <1>1, PutOff
  <2>2. AtHead(d, k, v, q, p) \in E!Checkpoint
    <3>1. d \in E!Checkpoint /\ k \in Nat \ {0} /\ v \in Nat /\ q \in Seq(Nat) /\ p \in BOOLEAN
      BY <1>1
    <3> QED
      BY <3>1, Retried, Zenon
  <2> QED
    BY <1>6, <1>7, <2>1, <2>2
<1>9. /\ E!DeferredOn(c).status = d.status /\ E!DeferredOn(c).sweep = d.sweep
      /\ E!DeferredOn(c).slot = d.slot /\ E!DeferredOn(c).of = d.of /\ E!DeferredOn(c).last = d.last
      /\ E!DeferredOn(c).pending = d.pending /\ E!DeferredOn(c).counts = d.counts
      /\ E!DeferredOn(c).plan = d.plan /\ E!DeferredOn(c).part = n /\ E!DeferredOn(c).deferred = q
      /\ E!DeferredOn(c).retrying = d.retrying
  BY <1>1, <1>6 DEF E!Checkpoint, AtNext
<1>10. /\ E!DeferredLast(c).status = d.status /\ E!DeferredLast(c).sweep = d.sweep
       /\ E!DeferredLast(c).slot = d.slot /\ E!DeferredLast(c).of = d.of
       /\ E!DeferredLast(c).last = d.last /\ E!DeferredLast(c).pending = d.pending
       /\ E!DeferredLast(c).counts = d.counts /\ E!DeferredLast(c).plan = d.plan
       /\ E!DeferredLast(c).part = k /\ E!DeferredLast(c).deferred = q
       /\ E!DeferredLast(c).retrying = TRUE
  BY <1>1, <1>7 DEF E!Checkpoint, AtHead
<1> QED
  <2>1. /\ SameSweep(c, E!DeferredOn(c)) /\ E!DeferredOn(c).counts = d.counts
        /\ E!DeferredOn(c).plan = c.plan /\ E!DeferredOn(c).part = c.part + 1
        /\ E!DeferredOn(c).deferred = q /\ E!DeferredOn(c).retrying = c.retrying
        /\ SameSweep(c, E!DeferredLast(c)) /\ E!DeferredLast(c).counts = d.counts
        /\ E!DeferredLast(c).plan = c.plan /\ E!DeferredLast(c).part = Head(q)
        /\ E!DeferredLast(c).deferred = q /\ E!DeferredLast(c).retrying = TRUE
    BY <1>3, <1>5, <1>8, <1>9, <1>10 DEF IsSettled, SameSweep
  <2> QED
    BY <2>1 DEF PutsOff, d

\* What an invocation knows while it runs.
LEMMA EventKnows ==
  ASSUME EventInv, inv.pc # "idle"
  PROVE  /\ cp # None /\ cp \in E!Checkpoint /\ cp.status = "running" /\ cp.sweep = sweeps
         /\ sweeps \in Nat /\ sweeps > 0 /\ rec \in Records(EventRows, sweeps) /\ cp.slot \in {0, 1}
         /\ cp.counts.pages \in Nat /\ cp.counts.source \in Nat /\ cp.counts.landed \in Nat
         /\ cp.counts.landed <= cp.counts.source
         /\ EventCheckpoint(cp, sweeps, rec) /\ EventInvocation(inv, cp, rec)
         /\ PagesOK(EventRows, rec, cp.slot, sweeps, cp.counts.pages, cp.counts.landed,
                    IF cp.pending = None THEN {} ELSE cp.pending.page.rows)
         /\ cp.last # None => /\ cp.last.slot # cp.slot /\ cp.last.slot \in {0, 1}
                              /\ cp.last.sweep \in 1 .. sweeps /\ cp.last.sweep # sweeps
<1>1. cp # None /\ cp.status = "running"
  BY EventRuns
<1>2. EventCheckpoint(cp, sweeps, rec) /\ E!Valid(cp)
  BY <1>1, EventHolds
<1>3. cp.counts.landed <= cp.counts.source
  BY <1>2 DEF E!Valid
<1>4. PagesOK(EventRows, rec, cp.slot, sweeps, cp.counts.pages, cp.counts.landed,
              IF cp.pending = None THEN {} ELSE cp.pending.page.rows)
  BY <1>1, <1>2 DEF EventCheckpoint
<1> QED
  BY <1>1, <1>2, <1>3, <1>4, EventHolds

\* The partition is halved, or put off to the end of the sweep.
LEMMA EventRefines ==
  ASSUME EventInv, cp # None, cp.status = "running", cp.pending = None, E!RefineOrDefer,
         rec' = rec, sweeps' = sweeps, catalog' = catalog, inv' = E!Idle, walked' = walked
  PROVE  EventInv' /\ Publishes(E!Current, E!Current')
<1> DEFINE d == E!Settled(cp)
           h == E!Halved(cp.plan, cp.part)
           t == E!ShiftedDeferral(cp.deferred, cp.part)
           q == Append(E!Without(cp.deferred, cp.part), cp.part)
<1>1. cp \in E!Checkpoint /\ Placed(cp.plan, cp.part, cp.deferred, cp.retrying, walked)
  BY PlacedNow, EventHolds
<1>2. IsSettled(cp, d)
  BY <1>1, SettledFacts
<1>3. CASE E!MayHalve(cp)
  <2>1. E!Put(E!Refined(cp))
    BY <1>3 DEF E!RefineOrDefer
  <2>2. Cardinality(cp.plan[cp.part]) > 1
    BY <1>3, EventSets DEF E!MayHalve
  <2>3. Placed(h, cp.part, t, cp.retrying, walked) /\ UNION E!Ranged(h) = UNION E!Ranged(cp.plan)
    BY <1>1, <2>2, PlacedHalved
  <2>4. h \in Seq(SUBSET Leagues) /\ t \in Seq(Nat)
    BY <2>3 DEF Placed
  <2> DEFINE c == E!Refined(cp)
  <2> HIDE DEF d, h, t
  <2>5. /\ SameSweep(cp, c) /\ c.counts = d.counts /\ c.plan = h /\ c.part = cp.part
        /\ c.deferred = t /\ c.retrying = cp.retrying
    BY <1>1, <1>2, <2>4, RefinedFacts DEF d, h, t
  <2>6. c.counts = E!Settled(cp).counts
    BY <2>5 DEF d
  <2> HIDE DEF c
  <2> QED
    BY <2>1, <2>3, <2>5, <2>6, EventPasses DEF c
<1>4. CASE ~E!MayHalve(cp)
  <2>1. /\ ~cp.retrying /\ cp.part < Len(cp.plan) => Placed(cp.plan, cp.part + 1, q, cp.retrying, walked)
        /\ cp.retrying \/ ~(cp.part < Len(cp.plan)) => Placed(cp.plan, Head(q), q, TRUE, walked)
        /\ q # <<>>
    BY <1>1, PlacedLater
  <2>2. /\ q \in Seq(Nat) /\ Head(q) \in E!Ranged(q) /\ E!Ranged(q) \subseteq Nat \ {0}
    <3>1. /\ cp.deferred \in Seq(Nat) /\ Injective(cp.deferred)
          /\ E!Ranged(cp.deferred) \subseteq DOMAIN cp.plan /\ cp.plan \in Seq(SUBSET Leagues)
          /\ cp.part \in DOMAIN cp.plan
      BY <1>1 DEF Placed
    <3>2. DOMAIN cp.plan = 1 .. Len(cp.plan) /\ Len(cp.plan) \in Nat
      BY <3>1
    <3>3. DOMAIN cp.plan \subseteq Nat \ {0}
      BY <3>2
    <3>4. q \in Seq(Nat) /\ Head(q) \in E!Ranged(q) /\ E!Ranged(q) = E!Ranged(cp.deferred) \cup {cp.part}
      BY <3>1, <3>3, DeferFacts
    <3> QED
      BY <3>1, <3>3, <3>4
  <2> DEFINE c == E!DeferredOn(cp)
             e == E!DeferredLast(cp)
  <2> HIDE DEF d, q
  <2>3. /\ SameSweep(cp, c) /\ c.counts = E!Settled(cp).counts /\ c.plan = cp.plan
        /\ c.part = cp.part + 1 /\ c.deferred = q /\ c.retrying = cp.retrying
        /\ SameSweep(cp, e) /\ e.counts = E!Settled(cp).counts /\ e.plan = cp.plan
        /\ e.part = Head(q) /\ e.deferred = q /\ e.retrying = TRUE
    <3>1. Head(q) \in Nat \ {0}
      BY <2>2
    <3>2. Defers(cp, q)
      BY <2>1, <3>1 DEF Defers, q
    <3>3. PutsOff(cp, q, c, e)
      BY <1>1, <2>2, <3>2, DeferredFacts
    <3> QED
      BY <3>3 DEF PutsOff
  <2>4. CASE ~cp.retrying /\ cp.part < Len(cp.plan)
    <3>1. E!Put(c)
      BY <1>4, <2>4 DEF E!RefineOrDefer
    <3> HIDE DEF c, e
    <3>2. Placed(c.plan, c.part, c.deferred, c.retrying, walked)
      BY <2>1, <2>3, <2>4
    <3>3. UNION E!Ranged(c.plan) = UNION E!Ranged(cp.plan)
      BY <2>3
    <3> QED
      BY <2>3, <3>1, <3>2, <3>3, EventPasses
  <2>5. CASE ~(~cp.retrying /\ cp.part < Len(cp.plan))
    <3>1. E!Put(e)
      BY <1>4, <2>5 DEF E!RefineOrDefer
    <3> HIDE DEF c, e
    <3>2. Placed(e.plan, e.part, e.deferred, e.retrying, walked)
      BY <1>1, <2>1, <2>3, <2>5 DEF E!Checkpoint
    <3>3. UNION E!Ranged(e.plan) = UNION E!Ranged(cp.plan)
      BY <2>3
    <3> QED
      BY <2>3, <3>1, <3>2, <3>3, EventPasses
  <2> QED
    BY <2>4, <2>5
<1> QED
  BY <1>3, <1>4

LEMMA EventReject == ASSUME EventInv, E!RejectPartition PROVE EventInv' /\ Publishes(E!Current, E!Current')
<1>1. /\ inv.pc # "idle" /\ inv' = E!Idle /\ rec' = rec /\ catalog' = catalog
      /\ \/ cp.pending # None /\ E!Restart(cp.plan, cp.of, <<>>)
         \/ cp.pending = None /\ E!RefineOrDefer /\ sweeps' = sweeps /\ walked' = walked
  BY DEF E!RejectPartition, E!Return
<1>2. cp # None /\ cp.status = "running"
  BY <1>1, EventRuns
<1>3. CASE E!Restart(cp.plan, cp.of, <<>>)
  BY <1>1, <1>2, <1>3, EventRest, EventRestartsSame
<1>4. CASE cp.pending = None /\ E!RefineOrDefer /\ sweeps' = sweeps /\ walked' = walked
  BY <1>1, <1>2, <1>4, EventRefines
<1> QED
  BY <1>1, <1>3, <1>4

LEMMA EventMiss == ASSUME EventInv, E!MissTotal PROVE EventInv' /\ Publishes(E!Current, E!Current')
<1>1. /\ inv.pc # "idle" /\ inv' = E!Idle /\ rec' = rec /\ catalog' = catalog
      /\ E!Restart(cp.plan, cp.of, <<>>)
  BY DEF E!MissTotal, E!Return
<1> QED
  BY <1>1, EventRuns, EventRest, EventRestartsSame

LEMMA EventOutgrow == ASSUME EventInv, E!OutgrowPartition PROVE EventInv' /\ Publishes(E!Current, E!Current')
<1>1. /\ inv.pc # "idle" /\ inv' = E!Idle /\ rec' = rec /\ catalog' = catalog
      /\ IF E!MayHalve(cp) THEN E!Restart(E!Halved(cp.plan, cp.part), cp.of, <<>>)
         ELSE E!Restart(cp.plan, cp.of, <<cp.part>>)
  BY DEF E!OutgrowPartition, E!Return
<1>2. cp # None /\ cp.status = "running" /\ cp.of \in Catalogs /\ Covers(cp, walked)
  BY <1>1, EventRuns, EventHolds
<1>3. Placed(cp.plan, cp.part, cp.deferred, cp.retrying, walked)
  BY <1>2, PlacedNow
<1>4. CASE E!MayHalve(cp)
  <2> DEFINE h == E!Halved(cp.plan, cp.part)
             t == E!ShiftedDeferral(cp.deferred, cp.part)
  <2>1. Cardinality(cp.plan[cp.part]) > 1
    BY <1>4, EventSets DEF E!MayHalve
  <2>2. /\ Placed(h, cp.part, t, cp.retrying, walked)
        /\ UNION E!Ranged(h) = UNION E!Ranged(cp.plan)
    <3>1. h = E!Halved(cp.plan, cp.part) /\ t = E!ShiftedDeferral(cp.deferred, cp.part)
      OBVIOUS
    <3> HIDE DEF h, t
    <3> QED
      BY <1>3, <2>1, <3>1, PlacedHalved
  <2>3. /\ h \in Seq(SUBSET Leagues) /\ E!ValidPlan(h)
        /\ UNION E!Ranged(h) = UNION E!Ranged(PlanOf[cp.of])
    BY <1>2, <2>2 DEF Placed, Covers
  <2>4. E!Restart(h, cp.of, <<>>)
    BY <1>1, <1>4
  <2> HIDE DEF h, t
  <2> QED
    BY <1>1, <1>2, <2>3, <2>4, EventRest, NoneDeferred, EventRestarts
<1>5. CASE ~E!MayHalve(cp)
  <2>1. E!Restart(cp.plan, cp.of, <<cp.part>>)
    BY <1>1, <1>5
  <2>2. /\ cp.plan \in Seq(SUBSET Leagues) /\ E!ValidPlan(cp.plan) /\ cp.part \in DOMAIN cp.plan
        /\ UNION E!Ranged(cp.plan) = UNION E!Ranged(PlanOf[cp.of])
    BY <1>2, <1>3 DEF Placed, Covers
  <2>3. cp.part \in Nat
    BY <2>2
  <2> QED
    BY <1>1, <1>2, <2>1, <2>2, <2>3, EventRest, OneDeferred, EventRestarts
<1> QED
  BY <1>4, <1>5

-----------------------------------------------------------------------------
(* A page is sealed, landed and counted.                                   *)

LEMMA PagesAre ==
  ASSUME NEW part, NEW offset
  PROVE  E!Truth(part, offset) \in E!Page /\ E!Answers(part) \subseteq E!Page
<1>1. E!RowsOf(part) \subseteq EventRows
  BY DEF E!RowsOf
<1>2. E!Cardinality(E!RowsOf(part)) \in Nat
  <2>1. IsFiniteSet(E!RowsOf(part))
    BY <1>1, EventConstants, FS_Subset
  <2> QED
    BY <2>1, FS_CardinalityType, EventSets
<1>3. PICK k \in Nat : k = E!Cardinality(E!RowsOf(part))
  BY <1>2
<1>4. E!Truth(part, offset) \in E!Page
  BY <1>1, <1>3 DEF E!Truth, E!Page
<1>5. E!Answers(part) \subseteq E!Page
  <2>1. k \in Nat /\ k + 1 \in Nat
    BY <1>3
  <2> QED
    BY <1>1, <1>3, <2>1 DEF E!Answers, E!Page
<1> QED
  BY <1>4, <1>5

\* A page is sealed before its rows are landed, met again, or ends the sweep.
LEMMA EventReceive ==
  ASSUME EventInv, NEW page \in E!Page, E!Receive(page), inv.pc = "fetch", rec' = rec,
         catalog' = catalog
  PROVE  EventInv' /\ Publishes(E!Current, E!Current')
<1>0. /\ inv.pc # "idle" /\ cp # None /\ cp.status = "running" /\ cp \in E!Checkpoint /\ E!Valid(cp)
      /\ EventCheckpoint(cp, sweeps, rec) /\ Covers(cp, walked) /\ inv \in EventWorker
      /\ catalog \in Catalogs /\ ~refused
  BY EventKnows, EventHolds DEF EventInv
<1>1. CASE E!Contradicts(page)
  <2>1. E!Restart(cp.plan, cp.of, <<>>) /\ inv' = E!Idle
    BY <1>1 DEF E!Receive, E!Return
  <2> QED
    BY <1>0, <2>1, EventRest, EventRestartsSame
<1>2. CASE ~E!Contradicts(page)
  <2> DEFINE c == [cp EXCEPT !.pending = [at |-> E!Position(cp), page |-> page]]
             i == [inv EXCEPT !.pc = "land", !.page = page]
  <2>1. /\ E!Put(c) /\ inv' = i /\ walked' = walked /\ sweeps' = sweeps
        /\ cp.pending = None \/ cp.pending.page = page
    BY <1>2 DEF E!Receive, E!Contradicts
  <2>2. PICK p \in E!Pending : p = [at |-> E!Position(cp), page |-> page]
    BY <1>0 DEF E!Position, E!Checkpoint, E!Pending
  <2>3. c = [cp EXCEPT !.pending = p] /\ p # None /\ p.page = page /\ p.at = E!Position(cp)
    BY <2>2, EventConstants
  <2>4. /\ c \in E!Checkpoint /\ c.status = "running" /\ c.sweep = cp.sweep
        /\ c.slot = cp.slot /\ c.plan = cp.plan /\ c.of = cp.of /\ c.part = cp.part
        /\ c.offset = cp.offset /\ c.rev = cp.rev /\ c.partRows = cp.partRows
        /\ c.deferred = cp.deferred /\ c.retrying = cp.retrying /\ c.counts = cp.counts
        /\ c.pending = p /\ c.last = cp.last
    BY <1>0, <2>2, <2>3 DEF E!Checkpoint
  <2>5. i \in EventWorker /\ i.pc = "land" /\ i.page = page
    BY <1>0 DEF EventWorker
  <2> HIDE DEF c, i
  <2>6. c # None
    BY <2>4, EventConstants
  <2>7. E!Valid(c)
    BY <1>0, <2>3, <2>4 DEF E!Valid, E!Position
  <2>8. cp' = c /\ ~refused'
    BY <1>0, <2>1, <2>7 DEF E!Put
  <2>9. PagesOK(EventRows, rec, cp.slot, sweeps, cp.counts.pages, cp.counts.landed, page.rows)
    BY <1>0, <2>1, EventKnows DEF PagesOK
  <2>10. EventCheckpoint(c, sweeps, rec)
    BY <1>0, <2>3, <2>4, <2>7, <2>9 DEF EventCheckpoint
  <2>11. EventInvocation(i, c, rec)
    BY <2>3, <2>4, <2>5 DEF EventInvocation
  <2>12. Covers(c, walked)
    BY <1>0, <2>4 DEF Covers
  <2>13. EventInv'
    BY <1>0, <2>1, <2>4, <2>5, <2>6, <2>8, <2>10, <2>11, <2>12, EventKnows DEF EventInv
  <2> QED
    BY <1>0, <2>4, <2>6, <2>8, <2>13, EventKnows, EventKept
<1> QED
  BY <1>1, <1>2

LEMMA EventFetch == ASSUME EventInv, E!Fetch PROVE EventInv' /\ Publishes(E!Current, E!Current')
<1>1. inv.pc = "fetch" /\ rec' = rec /\ catalog' = catalog
  BY DEF E!Fetch
<1>2. \E page \in E!Page : E!Receive(page)
  BY PagesAre DEF E!Fetch
<1> QED
  BY <1>1, <1>2, EventReceive

\* The page an invocation holds is the sealed one.
LEMMA EventHolding ==
  ASSUME EventInv, inv.pc \in {"land", "commit"}
  PROVE  /\ cp.pending # None /\ cp.pending.page = inv.page /\ inv.page \in E!Page
         /\ inv.page.rows \in SUBSET EventRows
         /\ AtPage(EventRows, sweeps, rec, cp.slot, sweeps, cp.counts.pages, cp.counts.landed,
                   inv.page.rows)
<1>1. inv.pc # "idle"
  OBVIOUS
<1>2. /\ cp \in E!Checkpoint /\ cp.pending # None /\ cp.pending.page = inv.page
      /\ PagesOK(EventRows, rec, cp.slot, sweeps, cp.counts.pages, cp.counts.landed, inv.page.rows)
  BY <1>1, EventKnows DEF EventInvocation
<1>3. inv.page \in E!Page
  <2>1. cp.pending \in E!Pending
    BY <1>2 DEF E!Checkpoint
  <2> QED
    BY <1>2, <2>1 DEF E!Pending
<1>4. inv.page.rows \in SUBSET EventRows
  BY <1>3 DEF E!Page
<1>5. /\ sweeps \in Nat /\ sweeps > 0 /\ rec \in Records(EventRows, sweeps) /\ cp.slot \in {0, 1}
      /\ cp.counts.pages \in Nat /\ cp.counts.landed \in Nat
  BY <1>1, EventKnows
<1>6. AtPage(EventRows, sweeps, rec, cp.slot, sweeps, cp.counts.pages, cp.counts.landed,
             inv.page.rows)
  BY <1>2, <1>4, <1>5, EventConstants DEF AtPage
<1> QED
  BY <1>2, <1>3, <1>4, <1>6

\* Rows of the sealed page are landed, all of them or a part, rows of earlier pages never.
LEMMA EventLand == ASSUME EventInv, E!Land PROVE EventInv' /\ Publishes(E!Current, E!Current')
<1> DEFINE rows == inv.page.rows
           U == Upto(EventRows, rec, cp.slot, sweeps, cp.counts.pages)
<1>1. inv.pc = "land" /\ inv.pc # "idle" /\ catalog' = catalog
  BY DEF E!Land
<1>2. /\ cp # None /\ cp \in E!Checkpoint /\ cp.status = "running" /\ cp.sweep = sweeps
      /\ sweeps \in Nat /\ sweeps > 0 /\ rec \in Records(EventRows, sweeps) /\ cp.slot \in {0, 1}
      /\ cp.counts.pages \in Nat
      /\ EventCheckpoint(cp, sweeps, rec) /\ EventInvocation(inv, cp, rec)
      /\ cp.last # None => /\ cp.last.slot # cp.slot /\ cp.last.slot \in {0, 1}
                           /\ cp.last.sweep \in 1 .. sweeps /\ cp.last.sweep # sweeps
  BY <1>1, EventKnows
<1>3. /\ cp.pending # None /\ cp.pending.page = inv.page /\ rows \in SUBSET EventRows
      /\ AtPage(EventRows, sweeps, rec, cp.slot, sweeps, cp.counts.pages, cp.counts.landed, rows)
  BY <1>1, EventHolding
<1>4. CASE E!Restart(cp.plan, cp.of, <<>>) /\ inv' = E!Idle /\ rec' = rec
  BY <1>1, <1>2, <1>4, EventRest, EventRestartsSame
<1>5. CASE ~(E!Restart(cp.plan, cp.of, <<>>) /\ inv' = E!Idle /\ rec' = rec)
  <2>1. PagesOK(EventRows, rec, cp.slot, sweeps, cp.counts.pages, cp.counts.landed, rows)
    BY <1>3 DEF AtPage
  <2>2. E!Duplicates(rows) = rows \cap U
    <3>1. Of(EventRows, rec, cp.slot, sweeps)
            = Upto(EventRows, rec, cp.slot, sweeps, cp.counts.pages + 1)
      BY <2>1 DEF PagesOK
    <3>2. {r \in rows : /\ rec[cp.slot][r] # None /\ rec[cp.slot][r].sweep = sweeps
                        /\ rec[cp.slot][r].page # cp.counts.pages + 1} = rows \cap U
      BY <1>2, <1>3, <3>1, DuplicatesAre
    <3> QED
      BY <1>2, <3>2 DEF E!Duplicates, E!Landed, E!PageNumber
  <2>3. PICK put \in SUBSET (rows \ E!Duplicates(rows)) :
          /\ \/ /\ put = rows \ E!Duplicates(rows)
                /\ inv' = [inv EXCEPT !.pc = "commit", !.dups = E!Cardinality(E!Duplicates(rows))]
             \/ inv' = E!Idle
          /\ E!Store(put)
    BY <1>5 DEF E!Land, E!Return
  <2>4. cp' = cp /\ ~refused' /\ sweeps' = sweeps /\ walked' = walked
    BY <1>5 DEF E!Land, E!Return, EventInv
  <2>5. put \in SUBSET (rows \ U)
    BY <2>2
  <2>6. Stores(EventRows, rec, cp.slot, sweeps, cp.counts.pages, put, rec')
    BY <1>2, <2>3 DEF Stores, E!Store, E!PageNumber
  <2> HIDE DEF rows
  <2>7. /\ rec' \in Records(EventRows, sweeps)
        /\ \A x \in {0, 1} : x # cp.slot =>
              \A v : Of(EventRows, rec', x, v) = Of(EventRows, rec, x, v)
        /\ Upto(EventRows, rec', cp.slot, sweeps, cp.counts.pages) = U
        /\ Under(EventRows, rec', cp.slot, sweeps, cp.counts.pages + 1)
              = Under(EventRows, rec, cp.slot, sweeps, cp.counts.pages + 1) \cup put
        /\ PagesOK(EventRows, rec', cp.slot, sweeps, cp.counts.pages, cp.counts.landed, rows)
    BY <1>3, <2>5, <2>6, Storing
  <2>8. cp.last # None => Of(EventRows, rec', cp.last.slot, cp.last.sweep)
                            = Of(EventRows, rec, cp.last.slot, cp.last.sweep)
    BY <1>2, <2>7
  <2>9. EventCheckpoint(cp, sweeps, rec')
    <3>1. cp.pending.page.rows = rows
      BY <1>3 DEF rows
    <3> QED
      BY <1>2, <1>3, <2>7, <2>8, <3>1 DEF EventCheckpoint
  <2>10. inv' \in EventWorker /\ EventInvocation(inv', cp, rec')
    <3>1. CASE inv' = E!Idle
      BY <3>1, EventRest
    <3>2. CASE /\ put = rows \ E!Duplicates(rows)
               /\ inv' = [inv EXCEPT !.pc = "commit", !.dups = E!Cardinality(E!Duplicates(rows))]
      <4>1. put = rows \ U
        BY <2>2, <3>2
      <4>2. PICK k \in Nat : k = Cardinality(rows \cap U)
        <5>1. IsFiniteSet(rows \cap U)
          BY <1>3, EventConstants, FS_Subset
        <5> QED
          BY <5>1, FS_CardinalityType
      <4>3. inv' = [inv EXCEPT !.pc = "commit", !.dups = k]
        BY <2>2, <3>2, <4>2, EventSets
      <4>4. inv' \in EventWorker /\ inv'.pc = "commit" /\ inv'.page = inv.page /\ inv'.dups = k
        BY <4>2, <4>3 DEF EventInv, EventWorker
      <4>5. Under(EventRows, rec, cp.slot, sweeps, cp.counts.pages + 1) \subseteq rows \ U
        BY <1>2, <2>1, EventConstants, RowFacts DEF PagesOK
      <4>6. LandedOK(EventRows, rec', cp.slot, cp.sweep, cp.counts.pages, inv'.dups, rows)
        BY <1>2, <2>7, <4>1, <4>2, <4>4, <4>5 DEF LandedOK
      <4> QED
        BY <1>2, <1>3, <4>4, <4>6 DEF EventInvocation, rows
    <3> QED
      BY <2>3, <3>1, <3>2
  <2>11. Covers(cp, walked')
    BY <1>1, <1>2, <2>4, EventHolds
  <2>12. EventInv'
    BY <1>1, <1>2, <2>4, <2>7, <2>9, <2>10, <2>11 DEF EventInv
  <2> QED
    BY <1>2, <2>4, <2>8, <2>12, EventKept
<1> QED
  BY <1>4, <1>5

LEMMA CommittedFacts ==
  ASSUME cp \in E!Checkpoint, cp.status = "running",
         NEW k \in Nat, k = E!Cardinality(inv.page.rows),
         NEW l \in Nat, l = cp.counts.landed + k - inv.dups
  PROVE  IsCounted(cp, E!Committed, k, l)
<1> DEFINE d == E!Committed
<1>1. PICK p \in Nat, s \in Nat, m \in Nat : cp.counts = [pages |-> p, source |-> s, landed |-> m]
  BY DEF E!Checkpoint, E!Counters
<1>2. cp.counts.pages = p /\ cp.counts.source = s /\ cp.counts.landed = m
  BY <1>1
<1>3. PICK u \in Nat : u = cp.counts.pages + 1
  BY <1>2
<1>4. PICK v \in Nat : v = cp.counts.source + k
  BY <1>2
<1>5. PICK w \in Nat : w = cp.partRows + k
  BY DEF E!Checkpoint
<1>6. PICK n \in E!Counters : n = [pages |-> u, source |-> v, landed |-> l]
  BY DEF E!Counters
<1>7. d = [cp EXCEPT !.pending = None, !.paused = FALSE, !.partRows = w, !.counts = n]
  BY <1>3, <1>4, <1>5, <1>6 DEF E!Committed
<1> HIDE DEF d
<1>8. d \in E!Checkpoint
  BY <1>5, <1>7 DEF E!Checkpoint
<1>9. /\ d.status = cp.status /\ d.sweep = cp.sweep /\ d.slot = cp.slot /\ d.of = cp.of
      /\ d.last = cp.last /\ d.pending = None /\ d.plan = cp.plan /\ d.part = cp.part
      /\ d.deferred = cp.deferred /\ d.retrying = cp.retrying /\ d.counts = n
  BY <1>7 DEF E!Checkpoint
<1>10. d.counts.pages = u /\ d.counts.source = v /\ d.counts.landed = l
  BY <1>6, <1>9
<1>11. IsCounted(cp, d, k, l)
  BY <1>3, <1>4, <1>8, <1>9, <1>10 DEF IsCounted, SameSweep
<1> QED
  BY <1>11 DEF d

LEMMA CompletedFacts ==
  ASSUME NEW d \in E!Checkpoint, d.pending = None
  PROVE  IsDone(d, E!Completed(d))
<1> DEFINE e == E!Completed(d)
<1>1. PICK q \in E!Published : q = [sweep |-> d.sweep, slot |-> d.slot, counts |-> d.counts]
  BY DEF E!Checkpoint, E!Published
<1>2. e = [d EXCEPT !.status = "complete", !.deferred = <<>>, !.retrying = FALSE, !.rev = 0,
                    !.partRows = 0, !.last = q]
  BY <1>1 DEF E!Completed
<1>3. <<>> \in Seq(Nat)
  OBVIOUS
<1> HIDE DEF e
<1>4. e \in E!Checkpoint
  BY <1>2, <1>3 DEF E!Checkpoint
<1>5. /\ e.status = "complete" /\ e.sweep = d.sweep /\ e.slot = d.slot /\ e.plan = d.plan
      /\ e.of = d.of /\ e.counts = d.counts /\ e.deferred = <<>> /\ e.retrying = FALSE
      /\ e.pending = d.pending /\ e.last = q
  BY <1>2 DEF E!Checkpoint
<1>6. IsDone(d, e)
  BY <1>1, <1>4, <1>5 DEF IsDone
<1> QED
  BY <1>6 DEF e

\* Taking up the next partition, a deferred one again, or the first of the deferred.
LEMMA ToFacts ==
  ASSUME NEW d \in E!Checkpoint, d.status = "running", d.pending = None, NEW i \in Nat \ {0}
  PROVE  MovedTo(d, E!To(d, i), i, d.deferred, d.retrying)
<1> DEFINE c == E!To(d, i)
<1>1. c = [d EXCEPT !.part = i, !.offset = 0, !.partRows = 0]
  BY DEF E!To
<1> HIDE DEF c
<1>2. c \in E!Checkpoint
  BY <1>1 DEF E!Checkpoint
<1>3. /\ c.status = d.status /\ c.sweep = d.sweep /\ c.slot = d.slot /\ c.of = d.of
      /\ c.last = d.last /\ c.pending = d.pending /\ c.plan = d.plan /\ c.part = i
      /\ c.deferred = d.deferred /\ c.retrying = d.retrying /\ c.counts = d.counts
  BY <1>1 DEF E!Checkpoint
<1>4. MovedTo(d, c, i, d.deferred, d.retrying)
  BY <1>2, <1>3 DEF MovedTo, SameSweep
<1> QED
  BY <1>4 DEF c

LEMMA ToDeferred ==
  ASSUME NEW d \in E!Checkpoint, d.status = "running", d.pending = None, NEW i \in Nat \ {0},
         NEW left \in Seq(Nat)
  PROVE  /\ MovedTo(d, AtLeft(d, i, left), i, left, d.retrying)
         /\ MovedTo(d, AtRetry(d, i), i, d.deferred, TRUE)
<1> DEFINE t == E!To(d, i)
           a == [t EXCEPT !.deferred = left, !.rev = @ + 1]
           b == [t EXCEPT !.retrying = TRUE, !.rev = @ + 1, !.paused = TRUE]
<1>1. MovedTo(d, t, i, d.deferred, d.retrying)
  BY ToFacts
<1> HIDE DEF t
<1>2. /\ t \in E!Checkpoint /\ t.status = "running" /\ t.sweep = d.sweep /\ t.slot = d.slot
      /\ t.of = d.of /\ t.last = d.last /\ t.pending = None
      /\ t.counts = d.counts /\ t.plan = d.plan /\ t.part = i
      /\ t.deferred = d.deferred /\ t.retrying = d.retrying
  BY <1>1 DEF MovedTo, SameSweep
<1>3. PICK v \in Nat : v = t.rev + 1
  BY <1>2 DEF E!Checkpoint
<1>4. a = [t EXCEPT !.deferred = left, !.rev = v] /\ b = [t EXCEPT !.retrying = TRUE, !.rev = v, !.paused = TRUE]
  BY <1>3
<1> HIDE DEF a, b
<1>5. a \in E!Checkpoint
  BY <1>2, <1>4 DEF E!Checkpoint
<1>6. b \in E!Checkpoint
  BY <1>2, <1>4 DEF E!Checkpoint
<1>7. /\ a.status = t.status /\ a.sweep = t.sweep /\ a.slot = t.slot /\ a.of = t.of
      /\ a.last = t.last /\ a.pending = t.pending /\ a.plan = t.plan /\ a.part = t.part
      /\ a.deferred = left /\ a.retrying = t.retrying /\ a.counts = t.counts
  BY <1>2, <1>4 DEF E!Checkpoint
<1>8. /\ b.status = t.status /\ b.sweep = t.sweep /\ b.slot = t.slot /\ b.of = t.of
      /\ b.last = t.last /\ b.pending = t.pending /\ b.plan = t.plan /\ b.part = t.part
      /\ b.deferred = t.deferred /\ b.retrying = TRUE /\ b.counts = t.counts
  BY <1>2, <1>4 DEF E!Checkpoint
<1>9. MovedTo(d, a, i, left, d.retrying) /\ MovedTo(d, b, i, d.deferred, TRUE)
  BY <1>2, <1>5, <1>6, <1>7, <1>8 DEF MovedTo, SameSweep
<1> QED
  BY <1>9 DEF a, b, t, AtLeft, AtRetry

\* The page is counted and the sweep goes on, from here or another partition.
LEMMA EventCounts ==
  ASSUME EventInv, cp # None, cp.status = "running",
         NEW k \in Nat, NEW l \in Nat, l <= cp.counts.source + k,
         PagesOK(EventRows, rec, cp.slot, sweeps, cp.counts.pages + 1, l, {}),
         NEW d, IsCounted(cp, d, k, l), NEW c, NEW i, NEW q, NEW r, MovedTo(d, c, i, q, r), E!Put(c),
         rec' = rec, sweeps' = sweeps, catalog' = catalog, inv' = E!Idle,
         Placed(cp.plan, i, q, r, walked')
  PROVE  EventInv' /\ Publishes(E!Current, E!Current')
<1>1. /\ SameSweep(cp, c) /\ c.plan = cp.plan /\ c.part = i /\ c.deferred = q /\ c.retrying = r
      /\ c.counts.pages = cp.counts.pages + 1 /\ c.counts.source = cp.counts.source + k
      /\ c.counts.landed = l
  BY DEF IsCounted, MovedTo, SameSweep
<1>2. Placed(c.plan, c.part, c.deferred, c.retrying, walked')
  BY <1>1
<1>3. c.counts.landed <= c.counts.source
  BY <1>1
<1>4. PagesOK(EventRows, rec, cp.slot, sweeps, c.counts.pages, c.counts.landed, {})
  BY <1>1
<1>5. UNION E!Ranged(c.plan) = UNION E!Ranged(cp.plan)
  BY <1>1
<1> QED
  BY <1>1, <1>2, <1>3, <1>4, <1>5, EventAdvances

\* The last partition is counted: the sweep is published.
LEMMA EventCompletes ==
  ASSUME EventInv, cp # None, cp.status = "running",
         NEW k \in Nat, NEW l \in Nat, l <= cp.counts.source + k,
         Cardinality(Of(EventRows, rec, cp.slot, sweeps)) = l,
         NEW d, IsCounted(cp, d, k, l), NEW e, IsDone(d, e), E!Put(e),
         rec' = rec, sweeps' = sweeps, catalog' = catalog, inv' = E!Idle,
         walked' = UNION E!Ranged(cp.plan)
  PROVE  EventInv' /\ Publishes(E!Current, E!Current')
<1>1. /\ cp.sweep = sweeps /\ sweeps \in Nat /\ sweeps > 0 /\ ~refused
      /\ rec \in Records(EventRows, sweeps) /\ catalog \in Catalogs
      /\ E!Valid(cp) /\ Covers(cp, walked)
      /\ cp.last # None => cp.last.sweep \in 1 .. sweeps /\ cp.last.sweep # cp.sweep
  BY EventHolds DEF EventInv
<1>2. /\ e \in E!Checkpoint /\ e.status = "complete" /\ e.sweep = cp.sweep /\ e.slot = cp.slot
      /\ e.plan = cp.plan /\ e.of = cp.of /\ e.deferred = <<>> /\ ~e.retrying /\ e.pending = None
      /\ e.counts = d.counts /\ e.counts.landed = l /\ e.counts.source = cp.counts.source + k
      /\ e.last = [sweep |-> e.sweep, slot |-> e.slot, counts |-> e.counts] /\ e.last \in E!Published
  BY DEF IsCounted, IsDone, SameSweep
<1>3. /\ e.last.sweep = sweeps /\ e.last.slot = cp.slot /\ e.last.counts.landed = l
      /\ e # None /\ e.last # None
  BY <1>1, <1>2, EventConstants
<1>4. E!Valid(e)
  <2>1. E!ValidPlan(e.plan)
    BY <1>1, <1>2 DEF E!Valid
  <2>2. E!Ranged(e.deferred) = {} /\ E!Cardinality(E!Ranged(e.deferred)) = Len(e.deferred)
    BY <1>2, NoneDeferred, InjectiveCounts
  <2> QED
    BY <1>2, <2>1, <2>2 DEF E!Valid
<1>5. cp' = e /\ ~refused'
  BY <1>1, <1>4 DEF E!Put
<1>6. EventCheckpoint(e, sweeps, rec)
  <2>1. sweeps \in 1 .. sweeps
    BY <1>1
  <2> QED
    BY <1>1, <1>2, <1>3, <1>4, <2>1, NoneDeferred DEF EventCheckpoint
<1>7. EventInvocation(E!Idle, e, rec) /\ E!Idle \in EventWorker
  BY EventRest
<1>8. Covers(e, walked')
  <2>1. UNION E!Ranged(e.plan) = UNION E!Ranged(PlanOf[e.of])
    BY <1>1, <1>2 DEF Covers
  <2> QED
    BY <1>2, <2>1 DEF Covers
<1>9. EventInv'
  BY <1>1, <1>2, <1>3, <1>5, <1>6, <1>7, <1>8 DEF EventInv
<1>10. Generation' > Generation
  BY <1>1, <1>3, <1>5 DEF Generation
<1> QED
  BY <1>9, <1>10 DEF Publishes

LEMMA EventCommit == ASSUME EventInv, E!Commit PROVE EventInv' /\ Publishes(E!Current, E!Current')
<1> DEFINE rows == inv.page.rows
           d == E!Committed
           left == E!Without(cp.deferred, cp.part)
           ahead == {j \in DOMAIN cp.plan : j > cp.part /\ j \notin E!Ranged(cp.deferred)}
           seen == walked \cup cp.plan[cp.part]
<1>1. /\ inv.pc = "commit" /\ inv.pc # "idle" /\ rec' = rec /\ catalog' = catalog /\ inv' = E!Idle
      /\ \/ E!Put([d EXCEPT !.offset = @ + 1]) /\ sweeps' = sweeps /\ walked' = walked
         \/ E!Restart(cp.plan, cp.of, <<>>)
         \/ E!Put(E!NextPartition(d)) /\ walked' = seen /\ sweeps' = sweeps
  BY DEF E!Commit, E!Return
<1>2. /\ cp # None /\ cp \in E!Checkpoint /\ cp.status = "running" /\ cp.sweep = sweeps
      /\ sweeps \in Nat /\ sweeps > 0 /\ cp.slot \in {0, 1}
      /\ cp.counts.pages \in Nat /\ cp.counts.source \in Nat /\ cp.counts.landed \in Nat
      /\ cp.counts.landed <= cp.counts.source /\ EventInvocation(inv, cp, rec)
  BY <1>1, EventKnows
<1>3. /\ rows \in SUBSET EventRows
      /\ AtPage(EventRows, sweeps, rec, cp.slot, sweeps, cp.counts.pages, cp.counts.landed, rows)
  BY <1>1, EventHolding
<1>4. LandedOK(EventRows, rec, cp.slot, sweeps, cp.counts.pages, inv.dups, rows)
  BY <1>1, <1>2 DEF EventInvocation
<1> HIDE DEF rows
<1>5. /\ PagesOK(EventRows, rec, cp.slot, sweeps, cp.counts.pages + 1,
                 cp.counts.landed + Cardinality(rows) - inv.dups, {})
      /\ Cardinality(Of(EventRows, rec, cp.slot, sweeps))
            = cp.counts.landed + Cardinality(rows) - inv.dups
      /\ Cardinality(rows) \in Nat /\ inv.dups \in 0 .. Cardinality(rows)
  BY <1>3, <1>4, Counting
<1>6. PICK k \in Nat : k = Cardinality(rows)
  BY <1>5
<1>7. PICK l \in Nat : l = cp.counts.landed + k - inv.dups /\ l <= cp.counts.source + k
  BY <1>2, <1>5, <1>6
<1>8. /\ PagesOK(EventRows, rec, cp.slot, sweeps, cp.counts.pages + 1, l, {})
      /\ Cardinality(Of(EventRows, rec, cp.slot, sweeps)) = l
  BY <1>5, <1>6, <1>7
<1>9. IsCounted(cp, d, k, l)
  <2>1. k = E!Cardinality(inv.page.rows)
    BY <1>6, EventSets DEF rows
  <2> QED
    BY <1>2, <1>7, <2>1, CommittedFacts
<1> HIDE DEF d
<1>10. /\ d \in E!Checkpoint /\ d.status = "running" /\ d.pending = None /\ d.plan = cp.plan
       /\ d.part = cp.part /\ d.deferred = cp.deferred /\ d.retrying = cp.retrying
  BY <1>9 DEF IsCounted, SameSweep
<1>11. Placed(cp.plan, cp.part, cp.deferred, cp.retrying, walked)
  BY <1>2, PlacedNow
<1>12. CASE E!Put([d EXCEPT !.offset = @ + 1]) /\ sweeps' = sweeps /\ walked' = walked
  <2> DEFINE c == [d EXCEPT !.offset = @ + 1]
  <2>1. MovedTo(d, c, cp.part, cp.deferred, cp.retrying)
    <3>1. PICK o \in Nat : o = d.offset + 1
      BY <1>10 DEF E!Checkpoint
    <3>2. c = [d EXCEPT !.offset = o]
      BY <3>1
    <3> HIDE DEF c
    <3>3. c \in E!Checkpoint
      BY <1>10, <3>2 DEF E!Checkpoint
    <3>4. /\ c.status = d.status /\ c.sweep = d.sweep /\ c.slot = d.slot /\ c.of = d.of
          /\ c.last = d.last /\ c.pending = d.pending /\ c.plan = d.plan /\ c.part = d.part
          /\ c.deferred = d.deferred /\ c.retrying = d.retrying /\ c.counts = d.counts
      BY <1>10, <3>2 DEF E!Checkpoint
    <3> QED
      BY <1>10, <3>3, <3>4 DEF MovedTo, SameSweep
  <2>2. E!Put(c)
    BY <1>12
  <2>3. Placed(cp.plan, cp.part, cp.deferred, cp.retrying, walked')
    BY <1>11, <1>12
  <2> HIDE DEF c
  <2> QED
    BY <1>1, <1>2, <1>7, <1>8, <1>9, <1>12, <2>1, <2>2, <2>3, EventCounts
<1>13. CASE E!Restart(cp.plan, cp.of, <<>>)
  BY <1>1, <1>2, <1>13, EventRest, EventRestartsSame
<1>14. CASE E!Put(E!NextPartition(d)) /\ walked' = seen /\ sweeps' = sweeps
  <2>1. /\ seen \subseteq UNION E!Ranged(cp.plan)
        /\ cp.retrying /\ left # <<>> => Placed(cp.plan, Head(left), left, cp.retrying, seen)
        /\ cp.retrying /\ left = <<>> => seen = UNION E!Ranged(cp.plan)
        /\ ~cp.retrying /\ ahead # {} =>
              Placed(cp.plan, E!FirstOf(ahead), cp.deferred, cp.retrying, seen)
        /\ ~cp.retrying /\ ahead = {} /\ cp.deferred # <<>> =>
              Placed(cp.plan, Head(cp.deferred), cp.deferred, TRUE, seen)
        /\ ~cp.retrying /\ ahead = {} /\ cp.deferred = <<>> => seen = UNION E!Ranged(cp.plan)
    <3>1. MovesOn(cp.plan, cp.deferred, cp.retrying, left, ahead, seen)
      BY <1>11, PlacedNext
    <3> HIDE DEF left, ahead, seen
    <3> QED
      BY <3>1 DEF MovesOn
  <2>2. ahead = E!NextPrimary
    BY DEF E!NextPrimary
  <2>3. E!NextPartition(d) =
          IF cp.retrying
          THEN IF left # <<>> THEN AtLeft(d, Head(left), left) ELSE E!Completed(d)
          ELSE IF ahead # {} THEN E!To(d, E!FirstOf(ahead))
          ELSE IF cp.deferred # <<>> THEN AtRetry(d, Head(cp.deferred)) ELSE E!Completed(d)
    BY <1>10, <2>2 DEF E!NextPartition, AtLeft, AtRetry
  <2>4. cp.deferred \in Seq(Nat) /\ left \in Seq(Nat)
    BY <1>11, WithoutFacts DEF Placed
  <2>5. \A i, q, r : Placed(cp.plan, i, q, r, seen) => i \in Nat \ {0}
    <3>1. cp.plan \in Seq(SUBSET Leagues)
      BY <1>11 DEF Placed
    <3>2. DOMAIN cp.plan \subseteq Nat \ {0}
      BY <3>1
    <3> QED
      BY <3>2 DEF Placed
  <2> HIDE DEF left, ahead, seen
  <2>6. CASE E!NextPartition(d) = E!Completed(d) /\ seen = UNION E!Ranged(cp.plan)
    <3>1. IsDone(d, E!Completed(d))
      BY <1>10, CompletedFacts
    <3>2. E!Put(E!Completed(d)) /\ walked' = UNION E!Ranged(cp.plan) /\ sweeps' = sweeps
      BY <1>14, <2>6
    <3> QED
      BY <1>1, <1>2, <1>7, <1>8, <1>9, <3>1, <3>2, EventCompletes
  <2>7. ASSUME NEW c, NEW i, NEW q, NEW r, c = E!NextPartition(d), MovedTo(d, c, i, q, r),
               Placed(cp.plan, i, q, r, seen)
        PROVE  EventInv' /\ Publishes(E!Current, E!Current')
    <3>1. E!Put(c) /\ Placed(cp.plan, i, q, r, walked') /\ sweeps' = sweeps
      BY <1>14, <2>7
    <3> QED
      BY <1>1, <1>2, <1>7, <1>8, <1>9, <2>7, <3>1, EventCounts
  <2>8. CASE cp.retrying /\ left # <<>>
    <3>1. Placed(cp.plan, Head(left), left, cp.retrying, seen) /\ Head(left) \in Nat \ {0}
      BY <2>1, <2>5, <2>8
    <3>2. MovedTo(d, AtLeft(d, Head(left), left), Head(left), left, cp.retrying)
      BY <1>10, <2>4, <3>1, ToDeferred
    <3>3. AtLeft(d, Head(left), left) = E!NextPartition(d)
      BY <2>3, <2>8
    <3> QED
      BY <2>7, <3>1, <3>2, <3>3
  <2>9. CASE ~cp.retrying /\ ahead # {}
    <3>1. /\ Placed(cp.plan, E!FirstOf(ahead), cp.deferred, cp.retrying, seen)
          /\ E!FirstOf(ahead) \in Nat \ {0}
      BY <2>1, <2>5, <2>9
    <3>2. MovedTo(d, E!To(d, E!FirstOf(ahead)), E!FirstOf(ahead), cp.deferred, cp.retrying)
      BY <1>10, <3>1, ToFacts
    <3>3. E!To(d, E!FirstOf(ahead)) = E!NextPartition(d)
      BY <2>3, <2>9
    <3> QED
      BY <2>7, <3>1, <3>2, <3>3
  <2>10. CASE ~cp.retrying /\ ahead = {} /\ cp.deferred # <<>>
    <3>1. /\ Placed(cp.plan, Head(cp.deferred), cp.deferred, TRUE, seen)
          /\ Head(cp.deferred) \in Nat \ {0}
      BY <2>1, <2>5, <2>10
    <3>2. MovedTo(d, AtRetry(d, Head(cp.deferred)), Head(cp.deferred), cp.deferred, TRUE)
      BY <1>10, <2>4, <3>1, ToDeferred
    <3>3. AtRetry(d, Head(cp.deferred)) = E!NextPartition(d)
      BY <2>3, <2>10
    <3> QED
      BY <2>7, <3>1, <3>2, <3>3
  <2>11. cp.retrying \in BOOLEAN
    BY <1>2 DEF E!Checkpoint
  <2> QED
    BY <2>1, <2>3, <2>6, <2>8, <2>9, <2>10, <2>11
<1> QED
  BY <1>1, <1>12, <1>13, <1>14

LEMMA EventNext == ASSUME EventInv, E!Next PROVE EventInv' /\ Publishes(E!Current, E!Current')
BY EventStart, EventMigrate, EventClaim, EventElapse, EventFetch, EventLand, EventCommit, EventPause,
   EventReject, EventOutgrow, EventMiss, EventDie, EventCatalog
   DEF E!Next, E!Landing

LEMMA EventInit == ASSUME E!Init PROVE EventInv
<1>1. cp = None /\ inv = E!Idle /\ sweeps = 0 /\ ~refused /\ catalog \in Catalogs
  BY DEF E!Init
<1>2. rec \in Records(EventRows, 0)
  BY EventConstants DEF E!Init, Records
<1> QED
  BY <1>1, <1>2, EventRest DEF EventInv

LEMMA EventPublished == ASSUME EventInv PROVE E!NoCheckpointRefused /\ E!PublishedIsWhole
<1>1. ASSUME cp # None, cp.last # None PROVE E!Current = Of(EventRows, rec, cp.last.slot, cp.last.sweep)
  BY <1>1, EventHolds, EventConstants DEF E!Current, E!IsCurrent, Of
<1>2. E!PublishedIsWhole
  BY <1>1, EventSets, EventHolds DEF E!PublishedIsWhole, EventCheckpoint
<1>3. E!NoCheckpointRefused
  BY DEF EventInv, E!NoCheckpointRefused
<1> QED
  BY <1>2, <1>3

LEMMA EventCovers == ASSUME EventInv' PROVE E!CoversCatalog
<1> SUFFICES ASSUME E!Complete', cp # cp' PROVE walked' = UNION E!Ranged(PlanOf[cp'.of])
  BY DEF E!CoversCatalog
<1>1. cp' # None /\ cp'.status = "complete"
  BY DEF E!Complete
<1>2. Covers(cp', walked')
  BY <1>1 DEF EventInv
<1> QED
  BY <1>1, <1>2 DEF Covers

-----------------------------------------------------------------------------
(* The three streams.                                                      *)

LandingInv ==
  /\ stream = "catalog" => CatalogInv
  /\ stream = "odds" => OddsInv
  /\ stream = "events" => EventInv

\* What is read of the stream.
View ==
  IF stream = "catalog" THEN C!Current ELSE IF stream = "events" THEN E!Current ELSE O!Current

LEMMA LandingStarts == ASSUME Init PROVE LandingInv
<1>1. CASE LandingInit
  BY <1>1, CatalogInit, OddsInit, EventInit DEF LandingInit, LandingInv
<1>2. CASE stream \in {"upcoming", "grading", "opportunity"}
  BY <1>2 DEF LandingInv
<1> QED
  BY <1>1, <1>2 DEF Init

LEMMA CatalogRestsOn ==
  ASSUME CatalogInv, UNCHANGED landingVars PROVE CatalogInv' /\ C!Current' = C!Current
BY DEF CatalogInv, landingVars, C!Current

LEMMA OddsRestsOn == ASSUME OddsInv, UNCHANGED landingVars PROVE OddsInv' /\ O!Current' = O!Current
BY DEF OddsInv, landingVars, O!Current

LEMMA EventRestsOn == ASSUME EventInv, UNCHANGED landingVars PROVE EventInv' /\ E!Current' = E!Current
BY DEF EventInv, landingVars, E!Current, E!IsCurrent

LEMMA LandingSideStep ==
  ASSUME LandingInv, [Next]_vars
  PROVE  LandingInv' /\ stream' = stream /\ (UNCHANGED landingVars \/ Publishes(View, View'))
<1>1. CASE LandingCatalog(C!Next)
  <2>1. stream = "catalog" /\ stream' = "catalog" /\ CatalogInv' /\ Publishes(C!Current, C!Current')
    BY <1>1, CatalogNext DEF LandingCatalog, Others, LandingInv
  <2> QED
    BY <2>1 DEF LandingInv, View
<1>2. CASE LandingEvents(E!Next)
  <2>1. stream = "events" /\ stream' = "events" /\ EventInv' /\ Publishes(E!Current, E!Current')
    BY <1>2, EventNext DEF LandingEvents, Others, LandingInv
  <2> QED
    BY <2>1 DEF LandingInv, View
<1>3. CASE LandingOdds(O!Next)
  <2>1. stream = "odds" /\ stream' = "odds" /\ OddsInv' /\ Publishes(O!Current, O!Current')
    BY <1>3, OddsNext DEF LandingOdds, Others, LandingInv
  <2> QED
    BY <2>1 DEF LandingInv, View
<1>4. CASE UNCHANGED <<stream, landingVars>>
  BY <1>4, CatalogRestsOn, OddsRestsOn, EventRestsOn DEF LandingInv
<1>5. \/ LandingCatalog(C!Next) \/ LandingEvents(E!Next) \/ LandingOdds(O!Next)
      \/ UNCHANGED <<stream, landingVars>>
  BY DEF Next, vars, Walking, Grading, Expiring
<1> QED
  BY <1>1, <1>2, <1>3, <1>4, <1>5

-----------------------------------------------------------------------------
(* The pipelines side by side.                                             *)

LEMMA SideInit == ASSUME Init PROVE LifeInv /\ GradingInv
<1>1. H!Init /\ G!Init
  BY DEF Init, LifeRests
<1> QED
  BY <1>1, LifeInit, GradingInit

LEMMA LifeRestsOn == ASSUME LifeInv, UNCHANGED lifeVars PROVE LifeInv'
BY DEF LifeInv, lifeVars, LifeRows, RunOK, Overtakes, Follows, RetiredOK, H!RankFollowsHead, H!RankOf

LEMMA GradingRestsOn == ASSUME GradingInv, UNCHANGED gradingVars PROVE GradingInv'
BY DEF GradingInv, gradingVars, GradingRows, GradeRows, G!CurrentIsExact, G!SettledStaysGraded

LEMMA LifeSideStep == ASSUME LifeInv, [Next]_vars PROVE LifeInv' /\ (H!Next \/ UNCHANGED lifeVars)
<1>1. H!Next \/ UNCHANGED lifeVars
  BY DEF Next, vars, LandingCatalog, LandingEvents, LandingOdds, Others, Walking, Grading, Expiring
<1> QED
  BY <1>1, LifeNext, LifeRestsOn

LEMMA GradingSideStep ==
  ASSUME GradingInv, [Next]_vars
  PROVE  GradingInv' /\ (G!Next \/ UNCHANGED gradingVars)
<1>1. G!Next \/ UNCHANGED gradingVars
  BY DEF Next, vars, LandingCatalog, LandingEvents, LandingOdds, Others, Walking, Grading, Expiring
<1> QED
  BY <1>1, GradingNext, GradingRestsOn

\* The rows an opportunity's readers use and the runs that write them stay consistent.
THEOREM LifeIsConsistent == Spec => []LifeInv
<1>1. Init => LifeInv
  BY SideInit
<1>2. LifeInv /\ [Next]_vars => LifeInv'
  BY LifeSideStep
<1> QED
  BY <1>1, <1>2, PTL DEF Spec

\* Readers find by rank the head as it stands; it opens only on the unchanged event it is bound
\* to, before its start and before its prices expire, and never comes back from closed, nor with
\* a candidate that was given up (advance of opportunity-lifecycle and its repository).
THEOREM OpportunitiesCorrect == Spec => OpportunitiesEnd
<1>1. LifeInv => H!RankFollowsHead
  BY DEF LifeInv, LifeRows
<1>2. LifeInv /\ [Next]_vars =>
        [H!Opens => event.version = 1 /\ head'.at < StartsAt /\ head'.at < head'.expires]_(H!vars)
  <2> SUFFICES ASSUME LifeInv, [Next]_vars, H!Opens
               PROVE  event.version = 1 /\ head'.at < StartsAt /\ head'.at < head'.expires
    OBVIOUS
  <2>1. H!Next
    BY LifeSideStep DEF H!Opens, lifeVars
  <2> QED
    BY <2>1, LifeSteps
<1>3. LifeInv /\ [Next]_vars =>
        [/\ head # None /\ head.state = "closed" => head' = head
         /\ head # None /\ head' # head =>
               /\ head'.version = head.version + 1
               /\ head.candidate.at <= head'.candidate.at
         /\ H!Opens => head'.candidate \notin retired]_(H!vars)
  <2> SUFFICES ASSUME LifeInv, [Next]_vars
               PROVE  /\ head # None /\ head.state = "closed" => head' = head
                      /\ head # None /\ head' # head =>
                            /\ head'.version = head.version + 1
                            /\ head.candidate.at <= head'.candidate.at
                      /\ H!Opens => head'.candidate \notin retired
    OBVIOUS
  <2>1. CASE H!Next
    BY <2>1, LifeSteps
  <2>2. CASE UNCHANGED lifeVars
    BY <2>2 DEF H!Opens, lifeVars
  <2> QED
    BY <2>1, <2>2, LifeSideStep
<1>4. Spec => []LifeInv /\ [][Next]_vars
  BY LifeIsConsistent, PTL DEF Spec
<1> QED
  BY <1>1, <1>2, <1>3, <1>4, PTL DEF OpportunitiesEnd, H!OpensOnLiveEvent, H!NeverRevived

\* The result and grade rows, and what the runs in progress rely on, stay consistent.
THEOREM GradingIsConsistent == Spec => []GradingInv
<1>1. Init => GradingInv
  BY SideInit
<1>2. GradingInv /\ [Next]_vars => GradingInv'
  BY GradingSideStep
<1> QED
  BY <1>1, <1>2, PTL DEF Spec

\* However runs overlap, repeat each other and stop half-way, a current result has its exact row
\* and is never replaced by one of less authority, the grades of a bet are one chain of rising
\* authority, and what a run went past stays graded (persist of the result and grade
\* repositories, gradeCurrentResult).
THEOREM GradesCorrect == Spec => GradesStand
<1>1. GradingInv => G!CurrentIsExact /\ G!GradesAreAChain /\ G!SettledStaysGraded
  BY GradesChained DEF GradingInv
<1>2. GradingInv /\ [Next]_vars => [\A e \in G!Events : current[e] <= current'[e]]_(G!vars)
  <2> SUFFICES ASSUME GradingInv, [Next]_vars PROVE \A e \in G!Events : current[e] <= current'[e]
    OBVIOUS
  <2>1. CASE G!Next
    BY <2>1, GradingNext
  <2>2. CASE UNCHANGED gradingVars
    BY <2>2, RowsAs DEF gradingVars
  <2> QED
    BY <2>1, <2>2, GradingSideStep
<1>3. Spec => []GradingInv /\ [][Next]_vars
  BY GradingIsConsistent, PTL DEF Spec
<1> QED
  BY <1>1, <1>2, <1>3, PTL DEF GradesStand, G!AuthorityRises

\* The checkpoint of a stream, the rows landed in both slots and what the invocation in progress
\* relies on agree with each other.
THEOREM LandingIsConsistent == Spec => []LandingInv
<1>1. Init => LandingInv
  BY LandingStarts
<1>2. LandingInv /\ [Next]_vars => LandingInv'
  BY LandingSideStep
<1> QED
  BY <1>1, <1>2, PTL DEF Spec

\* However sweeps are abandoned, replayed, halved and put off, what is published is one snapshot
\* of the catalog with the plan of its rows, and every row the walk of events or odds counted,
\* under positions each paid for once; and no checkpoint is ever one its store refuses (sealPage,
\* completePage and putCheckpoint of provider-landing-repository).
THEOREM LandingCorrect == Spec => []LandedIsWhole
<1>1. LandingInv => LandedIsWhole
  BY CatalogPublished, OddsPublished, EventPublished DEF LandingInv, LandedIsWhole
<1> QED
  BY <1>1, LandingIsConsistent, PTL

\* A sweep of events completes only when every league of its catalog's plan is reconciled
\* (nextEventPartition and refineOrDeferEventPartition of provider-landing).
THEOREM SweepsCoverCatalog == Spec => PublishedCoversCatalog
<1>1. LandingInv /\ LandingInv' /\ [Next]_vars => [stream = "events" => E!CoversCatalog]_vars
  <2> SUFFICES ASSUME LandingInv, LandingInv', [Next]_vars, stream = "events" PROVE E!CoversCatalog
    OBVIOUS
  <2>1. EventInv'
    BY LandingSideStep DEF LandingInv
  <2> QED
    BY <2>1, EventCovers
<1>2. Spec => []LandingInv /\ [][Next]_vars
  BY LandingIsConsistent, PTL DEF Spec
<1> QED
  BY <1>1, <1>2, PTL DEF PublishedCoversCatalog

\* The streams implement Publication: whatever a sweep writes, what is read changes only when the
\* sweep is published, with a greater generation.
THEOREM LandingRefinesPublication == Spec => PublishesGenerations
<1>1. Init => P!Init
  <2> SUFFICES ASSUME Init PROVE P!Init
    OBVIOUS
  <2>1. cp = None
    BY DEF Init, LandingInit, LandingRests, C!Init, E!Init, O!Init
  <2> QED
    BY <2>1 DEF P!Init, C!Current, E!Current, E!IsCurrent, O!Current
<1>2. LandingInv /\ [Next]_vars => [P!Publish]_<<Generation, View>>
  <2> SUFFICES ASSUME LandingInv, [Next]_vars PROVE [P!Publish]_<<Generation, View>>
    OBVIOUS
  <2>1. CASE UNCHANGED landingVars
    <3>1. Generation' = Generation
      BY <2>1 DEF landingVars, Generation
    <3>2. C!Current' = C!Current /\ E!Current' = E!Current /\ O!Current' = O!Current
      BY <2>1 DEF landingVars, C!Current, E!Current, E!IsCurrent, O!Current
    <3>3. stream' = stream
      BY LandingSideStep
    <3> QED
      BY <3>1, <3>2, <3>3 DEF View
  <2>2. CASE Publishes(View, View')
    <3>1. View' \in SUBSET (CatalogRows \cup EventRows \cup OddsRows)
      BY DEF View, C!Current, E!Current, O!Current
    <3>2. Generation' > Generation => P!Publish
      BY <3>1 DEF P!Publish, Generation, View
    <3> QED
      BY <2>2, <3>2 DEF Publishes
  <2> QED
    BY <2>1, <2>2, LandingSideStep
<1>3. Spec => []LandingInv /\ [][Next]_vars
  BY LandingIsConsistent, PTL DEF Spec
<1> QED
  BY <1>1, <1>2, <1>3, PTL DEF PublishesGenerations, P!Spec, Spec, Generation, View

-----------------------------------------------------------------------------
(* The walk of upcoming events: how many continuations there can be.       *)

Stops    == [pos : W!Positions \cup {Terminal}, epoch : Nat, rev : Nat]
Intents  == [state : {"intent", "claimed", "delivered"}, claimant : Nat,
             leased : BOOLEAN, version : Nat, cursor : Cursors, budget : 1 .. MaxPages]
Fetching == {"fetch", "fences", "fingerprint", "ingest"}
Walker   == [pc : {"idle", "read", "drain", "blocked", "publish", "mark", "end", "claim"}
                    \cup Fetching,
             msg : Nat, active : Nat, budget : Nat, cp : Stops \cup {None},
             page : W!Page \cup {None}, todo : SUBSET WalkEvents, conflict : BOOLEAN,
             claimed : Nat, version : Nat, final : BOOLEAN]

\* The checkpoint's epoch is one of the outbox, whose rows stand at a cursor each.
WalkRows ==
  /\ position \in Stops \cup {None} /\ W!Epoch(position) <= Len(outbox)
  /\ outbox \in Seq(Intents)
  /\ \A i, k \in 1 .. Len(outbox) : outbox[i].cursor = outbox[k].cursor => i = k
  /\ \A k \in 1 .. Len(outbox) : outbox[k].claimant <= Len(outbox)
  /\ fingerprint \in [W!Positions -> W!Page \cup {None}]
  /\ fence \in [WalkEvents -> W!Positions \cup {None}]
  /\ queue \subseteq 0 .. Len(outbox) /\ sent \subseteq 1 .. Len(outbox)
  /\ faults \in 0 .. WalkFaults

\* A worker names no epoch past the n there are, and fetches at a position only.
Reaches(l, n) ==
  /\ l.msg <= n /\ l.active <= n /\ l.claimed <= n /\ W!Epoch(l.cp) <= n
  /\ l.pc \notin {"idle", "read"} => l.budget \in 1 .. MaxPages
  /\ l.pc \in {"publish", "mark"} => l.claimed # 0
  /\ l.pc = "claim" => l.cp # None
  /\ l.pc \in Fetching \cup {"claim"} => W!At(l.cp) # Terminal
  /\ l.pc \in Fetching \ {"fetch"} => l.page \in W!Page

WalkInv ==
  /\ WalkRows
  /\ walker \in [Workers -> Walker]
  /\ \A w \in Workers : Reaches(walker[w], Len(outbox))

LEMMA WalkConstants ==
  /\ Start \in W!Positions /\ None \notin W!Positions /\ None \notin W!Page /\ None \notin Stops
  /\ Terminal \notin W!Positions /\ Cursors \subseteq W!Positions /\ IsFiniteSet(Cursors)
  /\ MaxPages \in Nat \ {0} /\ WalkFaults \in Nat
<1>1. \A T : W!IsFiniteSet(T) <=> IsFiniteSet(T)
  BY DEF W!IsFiniteSet, IsFiniteSet
<1> QED
  BY <1>1, PipelinesAssumption DEF W!WalkAssumption, W!Positions, W!Page, Stops

LEMMA WalkRowsAre ==
  ASSUME WalkRows
  PROVE  /\ Len(outbox) \in Nat /\ DOMAIN outbox = 1 .. Len(outbox)
         /\ \A n \in 1 .. Len(outbox) : outbox[n] \in Intents
BY LenProperties, ElementOfSeq DEF WalkRows

LEMMA WalkStands ==
  ASSUME NEW c \in Stops \cup {None}
  PROVE  /\ W!Epoch(c) \in Nat /\ W!At(c) \in W!Positions \cup {Terminal}
         /\ c # None => c \in Stops /\ W!Epoch(c) = c.epoch /\ W!At(c) = c.pos
         /\ W!Epoch(None) = 0 /\ W!At(None) = Start
BY WalkConstants DEF Stops, W!Epoch, W!At

\* The pending row of the lowest epoch is one of the outbox.
LEMMA WalkOldest ==
  ASSUME WalkRows, W!Pending # {}
  PROVE  W!Oldest \in 1 .. Len(outbox)
<1>1. PICK n \in Nat : n = Len(outbox) /\ DOMAIN outbox = 1 .. n
  BY WalkRowsAre
<1>2. W!Pending \subseteq 1 .. n
  BY <1>1 DEF W!Pending
<1>3. W!Pending \in SUBSET Nat /\ IsFiniteSet(W!Pending)
  BY <1>2, UpToIsFinite, FS_Subset
<1>4. \E i \in W!Pending : \A k \in W!Pending : i <= k
  BY <1>3, Least
<1>5. W!Oldest \in W!Pending
  BY <1>4 DEF W!Oldest
<1> QED
  BY <1>1, <1>2, <1>5

LEMMA ReachesFurther ==
  ASSUME NEW n \in Nat, NEW m \in Nat, n <= m, NEW l \in Walker, Reaches(l, n)
  PROVE  Reaches(l, m)
<1>1. l.msg \in Nat /\ l.active \in Nat /\ l.claimed \in Nat /\ W!Epoch(l.cp) \in Nat
  BY WalkStands DEF Walker
<1>2. l.msg <= m /\ l.active <= m /\ l.claimed <= m /\ W!Epoch(l.cp) <= m
  BY <1>1 DEF Reaches
<1> QED
  BY <1>2 DEF Reaches

\* One worker moves on, and no row goes.
LEMMA WalkerMoves ==
  ASSUME WalkInv, WalkRows', NEW w \in Workers, NEW l \in Walker, Len(outbox) <= Len(outbox'),
         walker' = [walker EXCEPT ![w] = l], Reaches(l, Len(outbox'))
  PROVE  WalkInv'
<1>1. PICK n \in Nat, m \in Nat : n = Len(outbox) /\ m = Len(outbox') /\ n <= m
  BY WalkRowsAre, LenProperties DEF WalkInv, WalkRows
<1>2. walker \in [Workers -> Walker] /\ \A v \in Workers : Reaches(walker[v], n)
  BY <1>1 DEF WalkInv
<1>3. walker' \in [Workers -> Walker]
  BY <1>2
<1>4. ASSUME NEW v \in Workers PROVE Reaches(walker'[v], m)
  <2>1. CASE v = w
    BY <1>1, <1>2, <2>1
  <2>2. CASE v # w
    <3>1. walker'[v] = walker[v] /\ walker[v] \in Walker
      BY <1>2, <2>2
    <3> QED
      BY <1>1, <1>2, <3>1, ReachesFurther
  <2> QED
    BY <2>1, <2>2
<1>5. \A v \in Workers : Reaches(walker[v], Len(outbox))'
  BY <1>1, <1>4 DEF Reaches
<1> QED
  BY <1>3, <1>5 DEF WalkInv

\* The rows stay.
LEMMA WalkerOnly ==
  ASSUME WalkInv, UNCHANGED <<position, outbox, fingerprint, fence, sent>>,
         queue' \subseteq 0 .. Len(outbox), faults' \in 0 .. WalkFaults,
         NEW w \in Workers, NEW l \in Walker, walker' = [walker EXCEPT ![w] = l],
         Reaches(l, Len(outbox))
  PROVE  WalkInv'
<1>1. WalkRows'
  BY DEF WalkInv, WalkRows, W!Epoch
<1>2. Len(outbox) \in Nat /\ outbox' = outbox
  BY WalkRowsAre DEF WalkInv
<1>3. Len(outbox) <= Len(outbox') /\ Reaches(l, Len(outbox'))
  BY <1>2
<1> QED
  BY <1>1, <1>3, WalkerMoves

LEMMA WalkerRests ==
  ASSUME WalkRows PROVE W!Idle \in Walker /\ W!Idle.pc = "idle" /\ Reaches(W!Idle, Len(outbox))
<1>1. W!Idle \in Walker
  BY WalkConstants DEF W!Idle, Walker
<1>2. /\ W!Idle.pc = "idle" /\ W!Idle.msg = 0 /\ W!Idle.active = 0 /\ W!Idle.claimed = 0
      /\ W!Idle.cp = None
  BY DEF W!Idle
<1>3. Len(outbox) \in Nat /\ W!Epoch(None) = 0
  BY WalkRowsAre, WalkStands
<1> QED
  BY <1>1, <1>2, <1>3 DEF Reaches, Fetching

\* An execution ends, whichever way.
LEMMA WalkerEnds ==
  ASSUME WalkInv, UNCHANGED <<position, outbox, fingerprint, fence, sent>>,
         faults' \in 0 .. WalkFaults, NEW w \in Workers, W!Throw(w) \/ W!Acknowledge(w)
  PROVE  WalkInv'
<1>1. walker' = [walker EXCEPT ![w] = W!Idle] /\ queue' \subseteq queue
  BY DEF W!Throw, W!Acknowledge
<1>2. queue' \subseteq 0 .. Len(outbox)
  BY <1>1 DEF WalkInv, WalkRows
<1>3. W!Idle \in Walker /\ Reaches(W!Idle, Len(outbox))
  BY WalkerRests DEF WalkInv
<1> QED
  BY <1>1, <1>2, <1>3, WalkerOnly

LEMMA WalkerAt ==
  ASSUME WalkInv, NEW w \in Workers
  PROVE  /\ walker \in [Workers -> Walker] /\ walker[w] \in Walker
         /\ Reaches(walker[w], Len(outbox)) /\ WalkRows
         /\ walker[w].cp \in Stops \cup {None}
BY DEF WalkInv, Walker

\* A worker goes on with what it has.
LEMMA WalkerGoes ==
  ASSUME WalkInv, UNCHANGED <<position, outbox, fingerprint, fence, queue, sent, faults>>,
         NEW w \in Workers, NEW pc \in {"blocked", "fetch", "fingerprint"}, W!Goto(w, pc),
         walker[w].pc \notin {"idle", "read"},
         pc # "blocked" => W!At(walker[w].cp) # Terminal,
         pc = "fingerprint" => walker[w].page \in W!Page
  PROVE  WalkInv'
<1>1. PICK l \in Walker : l = [walker[w] EXCEPT !.pc = pc]
  BY WalkerAt DEF Walker, Fetching
<1>2. /\ l.pc = pc /\ l.msg = walker[w].msg /\ l.active = walker[w].active
      /\ l.claimed = walker[w].claimed /\ l.cp = walker[w].cp /\ l.page = walker[w].page
      /\ l.budget = walker[w].budget
  BY <1>1, WalkerAt DEF Walker
<1>3. Reaches(l, Len(outbox))
  BY <1>2, WalkerAt DEF Reaches, Fetching
<1>4. walker' = [walker EXCEPT ![w] = l]
  BY <1>1, WalkerAt DEF W!Goto
<1>5. queue' \subseteq 0 .. Len(outbox) /\ faults' \in 0 .. WalkFaults
  BY DEF WalkInv, WalkRows
<1> QED
  BY <1>3, <1>4, <1>5, WalkerOnly

LEMMA WalkReceive ==
  ASSUME WalkInv, NEW w \in Workers, NEW m \in queue, W!Receive(w, m) PROVE WalkInv'
<1>1. m \in Nat /\ m <= Len(outbox) /\ Len(outbox) \in Nat
  BY WalkRowsAre DEF WalkInv, WalkRows
<1>2. PICK l \in Walker : l = [W!Idle EXCEPT !.pc = "read", !.msg = m]
  BY <1>1, WalkerRests DEF Walker, WalkInv
<1>3. l.pc = "read" /\ l.msg = m /\ l.active = 0 /\ l.claimed = 0 /\ l.cp = None
  <2>1. /\ l.pc = "read" /\ l.msg = m /\ l.active = W!Idle.active /\ l.claimed = W!Idle.claimed
        /\ l.cp = W!Idle.cp
    BY <1>2, WalkerRests DEF Walker, WalkInv
  <2> QED
    BY <2>1 DEF W!Idle
<1>4. Reaches(l, Len(outbox))
  BY <1>1, <1>3, WalkStands DEF Reaches, Fetching
<1>5. /\ walker' = [walker EXCEPT ![w] = l]
      /\ UNCHANGED <<position, outbox, fingerprint, fence, sent, queue, faults>>
  BY <1>2 DEF W!Receive, W!rows
<1>6. queue' \subseteq 0 .. Len(outbox) /\ faults' \in 0 .. WalkFaults
  BY <1>5 DEF WalkInv, WalkRows
<1> QED
  BY <1>4, <1>5, <1>6, WalkerOnly

LEMMA WalkRead ==
  ASSUME WalkInv, NEW w \in Workers, W!ReadCheckpoint(w) PROVE WalkInv'
<1> DEFINE m == walker[w].msg
<1>1. /\ UNCHANGED <<position, outbox, fingerprint, fence, sent, faults>>
      /\ faults' \in 0 .. WalkFaults
  BY DEF W!ReadCheckpoint, W!rows, WalkInv, WalkRows
<1>2. CASE W!Throw(w) \/ W!Acknowledge(w)
  BY <1>1, <1>2, WalkerEnds
<1>3. CASE ~(W!Throw(w) \/ W!Acknowledge(w))
  <2>1. /\ walker' = [walker EXCEPT ![w] = [@ EXCEPT
                !.pc = "drain", !.cp = position, !.active = m,
                !.budget = IF m = 0 THEN MaxPages ELSE outbox[m].budget]]
        /\ queue' = queue
    BY <1>3 DEF W!ReadCheckpoint
  <2>2. m \in 0 .. Len(outbox) /\ Len(outbox) \in Nat
    BY WalkerAt, WalkRowsAre DEF Reaches, Walker
  <2>3. PICK b \in 1 .. MaxPages : b = IF m = 0 THEN MaxPages ELSE outbox[m].budget
    <3>1. CASE m = 0
      BY <3>1, WalkConstants
    <3>2. CASE m # 0
      <4>1. outbox[m] \in Intents
        BY <2>2, <3>2, WalkRowsAre DEF WalkInv
      <4> QED
        BY <3>2, <4>1 DEF Intents
    <3> QED
      BY <3>1, <3>2
  <2>4. PICK c \in Stops \cup {None} : c = position /\ W!Epoch(c) <= Len(outbox)
    BY DEF WalkInv, WalkRows
  <2>5. PICK l \in Walker :
          l = [walker[w] EXCEPT !.pc = "drain", !.cp = c, !.active = m, !.budget = b]
    <3>1. m \in Nat /\ b \in Nat
      BY <2>2, WalkConstants
    <3> QED
      BY <3>1, WalkerAt DEF Walker
  <2>6. /\ l.pc = "drain" /\ l.cp = c /\ l.active = m /\ l.budget = b
        /\ l.msg = m /\ l.claimed = walker[w].claimed
    BY <2>5, WalkerAt DEF Walker
  <2>7. Reaches(l, Len(outbox))
    BY <2>2, <2>4, <2>6, WalkerAt DEF Reaches, Fetching
  <2>8. walker' = [walker EXCEPT ![w] = l]
    BY <2>1, <2>3, <2>4, <2>5, WalkerAt
  <2>9. queue' \subseteq 0 .. Len(outbox)
    BY <2>1 DEF WalkInv, WalkRows
  <2> QED
    BY <1>1, <2>7, <2>8, <2>9, WalkerOnly
<1> QED
  BY <1>2, <1>3

\* One row of the outbox is written over under its cursor.
LEMMA WalkRowWritten ==
  ASSUME WalkRows, NEW n \in 1 .. Len(outbox), NEW row \in Intents,
         row.cursor = outbox[n].cursor, row.claimant <= Len(outbox),
         outbox' = [outbox EXCEPT ![n] = row],
         UNCHANGED <<position, fingerprint, fence, queue, sent, faults>>
  PROVE  WalkRows' /\ Len(outbox') = Len(outbox)
<1>1. outbox' \in Seq(Intents) /\ Len(outbox') = Len(outbox)
  BY ExceptSeq DEF WalkRows
<1>2. \A k \in 1 .. Len(outbox) : outbox'[k] = IF k = n THEN row ELSE outbox[k]
  BY WalkRowsAre
<1>3. \A k \in 1 .. Len(outbox) : /\ outbox'[k].cursor = outbox[k].cursor
                                  /\ outbox'[k].claimant <= Len(outbox)
  BY <1>2 DEF WalkRows
<1>4. /\ \A i, k \in 1 .. Len(outbox') : outbox'[i].cursor = outbox'[k].cursor => i = k
      /\ \A k \in 1 .. Len(outbox') : outbox'[k].claimant <= Len(outbox')
  BY <1>1, <1>3 DEF WalkRows
<1>5. /\ position' \in Stops \cup {None} /\ W!Epoch(position)' <= Len(outbox')
      /\ queue' \subseteq 0 .. Len(outbox') /\ sent' \subseteq 1 .. Len(outbox')
  BY <1>1 DEF WalkRows, W!Epoch
<1> QED
  BY <1>1, <1>4, <1>5 DEF WalkRows

LEMMA WalkReturns ==
  ASSUME WalkInv, NEW w \in Workers,
         W!Return(w) \/ W!Crash(w)
  PROVE  WalkInv'
<1>1. /\ UNCHANGED <<position, outbox, fingerprint, fence, sent>>
      /\ W!Throw(w) \/ W!Acknowledge(w)
  BY DEF W!Return, W!Crash, W!rows
<1>2. faults' \in 0 .. WalkFaults
  BY WalkConstants DEF W!Return, W!Crash, WalkInv, WalkRows
<1> QED
  BY <1>1, <1>2, WalkerEnds

\* What follows when no continuation is pending.
LEMMA WalkDrained ==
  ASSUME WalkInv, UNCHANGED <<position, outbox, fingerprint, fence, sent, faults>>,
         NEW w \in Workers, walker[w].pc \notin {"idle", "read"}, W!Drained(w)
  PROVE  WalkInv'
<1>1. faults' \in 0 .. WalkFaults
  BY DEF WalkInv, WalkRows
<1>2. CASE W!Acknowledge(w)
  BY <1>1, <1>2, WalkerEnds
<1>3. CASE ~W!Acknowledge(w)
  <2>1. W!Goto(w, "fetch") /\ queue' = queue /\ W!At(walker[w].cp) # Terminal
    BY <1>3 DEF W!Drained
  <2> QED
    BY <2>1, WalkerGoes
<1> QED
  BY <1>2, <1>3

\* A row is claimed in the name of an epoch there is.
LEMMA WalkRowClaimed ==
  ASSUME WalkRows, NEW n \in 1 .. Len(outbox), NEW owner \in Nat, owner <= Len(outbox),
         outbox' = W!Claimed(n, owner),
         UNCHANGED <<position, fingerprint, fence, queue, sent, faults>>
  PROVE  WalkRows' /\ Len(outbox') = Len(outbox)
<1>1. outbox[n] \in Intents
  BY WalkRowsAre
<1>2. PICK v \in Nat : v = outbox[n].version + 1
  BY <1>1 DEF Intents
<1>3. PICK row \in Intents : row = [outbox[n] EXCEPT !.state = "claimed", !.leased = TRUE,
                                                     !.claimant = owner, !.version = v]
  BY <1>1 DEF Intents
<1>4. row.cursor = outbox[n].cursor /\ row.claimant = owner
  BY <1>1, <1>3 DEF Intents
<1>5. outbox' = [outbox EXCEPT ![n] = row]
  BY <1>2, <1>3, WalkRowsAre DEF W!Claimed
<1> QED
  BY <1>4, <1>5, WalkRowWritten

LEMMA WalkDrain ==
  ASSUME WalkInv, NEW w \in Workers, W!Drain(w) PROVE WalkInv'
<1>1. /\ UNCHANGED <<position, fingerprint, fence, sent, faults>> /\ walker[w].pc = "drain"
      /\ WalkRows
  BY DEF W!Drain, WalkInv
<1>2. CASE /\ W!Pending # {} /\ outbox' = W!Claimed(W!Oldest, walker[w].active)
           /\ walker' = [walker EXCEPT ![w] = [@ EXCEPT !.pc = "publish", !.claimed = W!Oldest]]
           /\ UNCHANGED queue
  <2>1. PICK n \in 1 .. Len(outbox) : n = W!Oldest
    BY <1>1, <1>2, WalkOldest
  <2>2. walker[w].active \in Nat /\ walker[w].active <= Len(outbox)
    BY WalkerAt DEF Reaches, Walker
  <2>3. WalkRows' /\ Len(outbox') = Len(outbox)
    BY <1>1, <1>2, <2>1, <2>2, WalkRowClaimed
  <2>4. n \in Nat /\ n # 0 /\ n <= Len(outbox) /\ Len(outbox) \in Nat
    BY <1>1, WalkRowsAre
  <2>5. PICK l \in Walker : l = [walker[w] EXCEPT !.pc = "publish", !.claimed = n]
    BY <2>4, WalkerAt DEF Walker
  <2>6. /\ l.pc = "publish" /\ l.claimed = n /\ l.msg = walker[w].msg
        /\ l.active = walker[w].active /\ l.cp = walker[w].cp /\ l.budget = walker[w].budget
    BY <2>5, WalkerAt DEF Walker
  <2>7. Reaches(l, Len(outbox))
    BY <1>1, <2>4, <2>6, WalkerAt DEF Reaches, Fetching
  <2>8. walker' = [walker EXCEPT ![w] = l]
    BY <1>2, <2>1, <2>5, WalkerAt
  <2>9. Len(outbox) <= Len(outbox') /\ Reaches(l, Len(outbox'))
    BY <2>3, <2>4, <2>7
  <2> QED
    BY <2>3, <2>8, <2>9, WalkerMoves
<1>3. CASE W!Goto(w, "blocked") /\ UNCHANGED <<outbox, queue>>
  BY <1>1, <1>3, WalkerGoes
<1>4. CASE W!Drained(w) /\ UNCHANGED outbox
  BY <1>1, <1>4, WalkDrained
<1> QED
  BY <1>2, <1>3, <1>4 DEF W!Drain

LEMMA WalkBlocked ==
  ASSUME WalkInv, NEW w \in Workers, W!Blocked(w) PROVE WalkInv'
<1>1. /\ UNCHANGED <<position, outbox, fingerprint, fence, sent, faults>>
      /\ walker[w].pc = "blocked" /\ faults' \in 0 .. WalkFaults
      /\ W!Throw(w) \/ W!Drained(w)
  BY DEF W!Blocked, W!rows, WalkInv, WalkRows
<1> QED
  BY <1>1, WalkerEnds, WalkDrained

LEMMA WalkPublish ==
  ASSUME WalkInv, NEW w \in Workers, W!Publish(w) PROVE WalkInv'
<1>1. /\ queue' = queue \cup {walker[w].claimed} /\ sent' = sent \cup {walker[w].claimed}
      /\ walker[w].pc = "publish" /\ W!Goto(w, "mark")
      /\ UNCHANGED <<position, outbox, fingerprint, fence, faults>>
  BY DEF W!Publish, W!rows
<1>2. /\ walker[w].claimed \in 1 .. Len(outbox) /\ walker[w].claimed # 0
      /\ Len(outbox) \in Nat
  BY <1>1, WalkerAt, WalkRowsAre DEF Reaches, Walker
<1>3. queue' \subseteq 0 .. Len(outbox) /\ sent' \subseteq 1 .. Len(outbox)
  <2>1. walker[w].claimed \in 0 .. Len(outbox) /\ walker[w].claimed \in 1 .. Len(outbox)
    BY <1>2
  <2>2. queue \subseteq 0 .. Len(outbox) /\ sent \subseteq 1 .. Len(outbox)
    BY DEF WalkInv, WalkRows
  <2> QED
    BY <1>1, <2>1, <2>2
<1>4. WalkRows'
  BY <1>1, <1>3 DEF WalkInv, WalkRows, W!Epoch
<1>5. PICK l \in Walker : l = [walker[w] EXCEPT !.pc = "mark"]
  BY WalkerAt DEF Walker
<1>6. /\ l.pc = "mark" /\ l.claimed = walker[w].claimed /\ l.msg = walker[w].msg
      /\ l.active = walker[w].active /\ l.cp = walker[w].cp /\ l.budget = walker[w].budget
  BY <1>5, WalkerAt DEF Walker
<1>7. Reaches(l, Len(outbox))
  BY <1>1, <1>2, <1>6, WalkerAt DEF Reaches, Fetching
<1>8. walker' = [walker EXCEPT ![w] = l]
  BY <1>1, <1>5, WalkerAt DEF W!Goto
<1>9. Len(outbox) <= Len(outbox') /\ Reaches(l, Len(outbox'))
  BY <1>1, <1>2, <1>7
<1> QED
  BY <1>4, <1>8, <1>9, WalkerMoves

\* A row that is no row of the outbox is not written.
LEMMA WalkRowArchived ==
  ASSUME WalkRows, NEW n \in Nat, n <= Len(outbox), NEW rest,
         rest = [outbox EXCEPT ![n] = [@ EXCEPT !.state = "delivered", !.leased = FALSE]]
  PROVE  /\ rest \in Seq(Intents) /\ Len(rest) = Len(outbox)
         /\ \A k \in 1 .. Len(outbox) : /\ rest[k].cursor = outbox[k].cursor
                                        /\ rest[k].claimant = outbox[k].claimant
<1>1. CASE n = 0
  <2>1. n \notin DOMAIN outbox
    BY <1>1, WalkRowsAre
  <2>2. rest = outbox
    BY <2>1, WalkRowsAre DEF WalkRows
  <2> QED
    BY <2>2, WalkRowsAre DEF WalkRows
<1>2. CASE n # 0
  <2>1. n \in 1 .. Len(outbox)
    BY <1>2, WalkRowsAre
  <2>2. outbox[n] \in Intents
    BY <2>1, WalkRowsAre
  <2>3. PICK row \in Intents : row = [outbox[n] EXCEPT !.state = "delivered", !.leased = FALSE]
    BY <2>2 DEF Intents
  <2>4. row.cursor = outbox[n].cursor /\ row.claimant = outbox[n].claimant
    BY <2>2, <2>3 DEF Intents
  <2>5. rest = [outbox EXCEPT ![n] = row]
    BY <2>1, <2>3, WalkRowsAre
  <2>6. /\ rest \in Seq(Intents) /\ Len(rest) = Len(outbox)
        /\ \A k \in 1 .. Len(outbox) : rest[k] = IF k = n THEN row ELSE outbox[k]
    BY <2>1, <2>5, ExceptSeq DEF WalkRows
  <2> QED
    BY <2>4, <2>6
<1> QED
  BY <1>1, <1>2

LEMMA WalkMark ==
  ASSUME WalkInv, NEW w \in Workers, W!Mark(w) PROVE WalkInv'
<1>1. /\ UNCHANGED <<position, fingerprint, fence, sent, faults>> /\ walker[w].pc = "mark"
      /\ WalkRows
  BY DEF W!Mark, WalkInv
<1>2. CASE W!Throw(w) /\ UNCHANGED outbox
  <2>1. faults' \in 0 .. WalkFaults
    BY <1>1 DEF WalkRows
  <2> QED
    BY <1>1, <1>2, <2>1, WalkerEnds
<1>3. CASE ~(W!Throw(w) /\ UNCHANGED outbox)
  <2>1. /\ outbox' = [outbox EXCEPT ![walker[w].claimed] =
                        [@ EXCEPT !.state = "delivered", !.leased = FALSE]]
        /\ walker' = [walker EXCEPT ![w] = [@ EXCEPT
                        !.pc = IF walker[w].final THEN "end" ELSE "drain", !.claimed = 0]]
        /\ UNCHANGED queue
    BY <1>3 DEF W!Mark
  <2>2. PICK n \in Nat : n = walker[w].claimed /\ n <= Len(outbox) /\ n # 0
    BY <1>1, WalkerAt DEF Reaches, Walker
  <2>3. n \in 1 .. Len(outbox) /\ Len(outbox) \in Nat /\ outbox[n] \in Intents
    BY <1>1, <2>2, WalkRowsAre
  <2>4. PICK row \in Intents : row = [outbox[n] EXCEPT !.state = "delivered", !.leased = FALSE]
    BY <2>3 DEF Intents
  <2>5. row.cursor = outbox[n].cursor /\ row.claimant = outbox[n].claimant
    BY <2>3, <2>4 DEF Intents
  <2>6. outbox' = [outbox EXCEPT ![n] = row] /\ row.claimant <= Len(outbox)
    BY <1>1, <2>1, <2>2, <2>3, <2>4, <2>5, WalkRowsAre DEF WalkRows
  <2>7. WalkRows' /\ Len(outbox') = Len(outbox)
    BY <1>1, <2>1, <2>3, <2>5, <2>6, WalkRowWritten
  <2>8. PICK pc \in {"end", "drain"} : pc = IF walker[w].final THEN "end" ELSE "drain"
    OBVIOUS
  <2>9. PICK l \in Walker : l = [walker[w] EXCEPT !.pc = pc, !.claimed = 0]
    BY WalkerAt DEF Walker
  <2>10. /\ l.pc = pc /\ l.claimed = 0 /\ l.msg = walker[w].msg
         /\ l.active = walker[w].active /\ l.cp = walker[w].cp /\ l.budget = walker[w].budget
    BY <2>9, WalkerAt DEF Walker
  <2>11. Reaches(l, Len(outbox))
    BY <1>1, <2>3, <2>10, WalkerAt DEF Reaches, Fetching
  <2>12. walker' = [walker EXCEPT ![w] = l]
    BY <2>1, <2>8, <2>9, WalkerAt
  <2>13. Len(outbox) <= Len(outbox') /\ Reaches(l, Len(outbox'))
    BY <2>3, <2>7, <2>11
  <2> QED
    BY <2>7, <2>12, <2>13, WalkerMoves
<1> QED
  BY <1>2, <1>3

LEMMA WalkFetch ==
  ASSUME WalkInv, NEW w \in Workers, NEW page \in W!Page, W!Fetch(w, page) PROVE WalkInv'
<1>1. /\ UNCHANGED <<position, outbox, fingerprint, fence, sent>> /\ walker[w].pc = "fetch"
      /\ faults' \in 0 .. WalkFaults
  BY WalkConstants DEF W!Fetch, W!rows, WalkInv, WalkRows
<1>2. CASE W!Throw(w)
  BY <1>1, <1>2, WalkerEnds
<1>3. CASE ~W!Throw(w)
  <2>1. walker' = [walker EXCEPT ![w] = [@ EXCEPT !.pc = "fences", !.page = page]]
        /\ queue' = queue
    BY <1>3 DEF W!Fetch
  <2>2. PICK l \in Walker : l = [walker[w] EXCEPT !.pc = "fences", !.page = page]
    BY WalkerAt DEF Walker, Fetching
  <2>3. /\ l.pc = "fences" /\ l.page = page /\ l.claimed = walker[w].claimed
        /\ l.msg = walker[w].msg /\ l.active = walker[w].active /\ l.cp = walker[w].cp
        /\ l.budget = walker[w].budget
    BY <2>2, WalkerAt DEF Walker
  <2>4. Reaches(l, Len(outbox))
    BY <1>1, <2>3, WalkerAt DEF Reaches, Fetching
  <2>5. walker' = [walker EXCEPT ![w] = l]
    BY <2>1, <2>2, WalkerAt
  <2>6. queue' \subseteq 0 .. Len(outbox)
    BY <2>1 DEF WalkInv, WalkRows
  <2> QED
    BY <1>1, <2>4, <2>5, <2>6, WalkerOnly
<1> QED
  BY <1>2, <1>3

LEMMA WalkReadFences ==
  ASSUME WalkInv, NEW w \in Workers, W!ReadFences(w) PROVE WalkInv'
<1>1. /\ UNCHANGED <<position, outbox, fingerprint, fence, sent, faults>>
      /\ walker[w].pc = "fences" /\ faults' \in 0 .. WalkFaults
      /\ W!Throw(w) \/ (W!Goto(w, "fingerprint") /\ UNCHANGED queue)
  BY DEF W!ReadFences, W!rows, WalkInv, WalkRows
<1>2. W!At(walker[w].cp) # Terminal /\ walker[w].page \in W!Page
  BY <1>1, WalkerAt DEF Reaches, Fetching
<1> QED
  BY <1>1, <1>2, WalkerEnds, WalkerGoes

LEMMA WalkFingerprint ==
  ASSUME WalkInv, NEW w \in Workers, W!PutFingerprint(w) PROVE WalkInv'
<1>1. /\ UNCHANGED <<position, outbox, fence, queue, sent, faults>>
      /\ walker[w].pc = "fingerprint" /\ WalkRows
      /\ faults' \in 0 .. WalkFaults /\ queue' \subseteq 0 .. Len(outbox)
  BY DEF W!PutFingerprint, WalkInv, WalkRows
<1>2. CASE W!Throw(w) /\ UNCHANGED fingerprint
  BY <1>1, <1>2, WalkerEnds
<1>3. CASE ~(W!Throw(w) /\ UNCHANGED fingerprint)
  <2>1. /\ fingerprint' = [fingerprint EXCEPT ![W!At(walker[w].cp)] = walker[w].page]
        /\ walker' = [walker EXCEPT ![w] = [@ EXCEPT
                        !.pc = "ingest", !.todo = walker[w].page.events, !.conflict = FALSE]]
    BY <1>3 DEF W!PutFingerprint
  <2>2. W!At(walker[w].cp) \in W!Positions /\ walker[w].page \in W!Page
    BY <1>1, WalkerAt, WalkStands DEF Reaches, Fetching
  <2>3. fingerprint' \in [W!Positions -> W!Page \cup {None}]
    BY <1>1, <2>1, <2>2 DEF WalkRows
  <2>4. WalkRows'
    BY <1>1, <2>3 DEF WalkRows, W!Epoch
  <2>5. PICK t \in SUBSET WalkEvents : t = walker[w].page.events
    BY <2>2 DEF W!Page
  <2>6. PICK l \in Walker : l = [walker[w] EXCEPT !.pc = "ingest", !.todo = t, !.conflict = FALSE]
    BY WalkerAt DEF Walker, Fetching
  <2>7. /\ l.pc = "ingest" /\ l.page = walker[w].page /\ l.claimed = walker[w].claimed
        /\ l.msg = walker[w].msg /\ l.active = walker[w].active /\ l.cp = walker[w].cp
        /\ l.budget = walker[w].budget
    BY <2>6, WalkerAt DEF Walker
  <2>8. Reaches(l, Len(outbox)) /\ Len(outbox) \in Nat
    BY <1>1, <2>2, <2>7, WalkerAt, WalkRowsAre DEF Reaches, Fetching
  <2>9. walker' = [walker EXCEPT ![w] = l]
    BY <2>1, <2>5, <2>6, WalkerAt
  <2>10. Len(outbox) <= Len(outbox') /\ Reaches(l, Len(outbox'))
    BY <1>1, <2>8
  <2> QED
    BY <2>4, <2>9, <2>10, WalkerMoves
<1> QED
  BY <1>2, <1>3

LEMMA WalkIngest ==
  ASSUME WalkInv, NEW w \in Workers, NEW e \in WalkEvents, W!Ingest(w, e) PROVE WalkInv'
<1>1. /\ UNCHANGED <<position, outbox, fingerprint, queue, sent, faults>>
      /\ walker[w].pc = "ingest" /\ WalkRows /\ e \in walker[w].todo
  BY DEF W!Ingest, WalkInv
<1>2. W!At(walker[w].cp) \in W!Positions /\ walker[w].todo \subseteq WalkEvents
      /\ walker[w].conflict \in BOOLEAN
  BY <1>1, WalkerAt, WalkStands DEF Reaches, Fetching, Walker
<1>3. fence' \in [WalkEvents -> W!Positions \cup {None}]
  BY <1>1, <1>2 DEF W!Ingest, WalkRows
<1>4. WalkRows'
  BY <1>1, <1>3 DEF WalkRows, W!Epoch
<1>5. PICK t \in SUBSET WalkEvents, b \in BOOLEAN :
        /\ t = walker[w].todo \ {e}
        /\ b = (walker[w].conflict \/ ~W!MayHold(e, W!At(walker[w].cp)))
  BY <1>2
<1>6. PICK l \in Walker : l = [walker[w] EXCEPT !.todo = t, !.conflict = b]
  BY WalkerAt DEF Walker
<1>7. /\ l.pc = "ingest" /\ l.page = walker[w].page /\ l.claimed = walker[w].claimed
      /\ l.msg = walker[w].msg /\ l.active = walker[w].active /\ l.cp = walker[w].cp
      /\ l.budget = walker[w].budget
  BY <1>1, <1>6, WalkerAt DEF Walker
<1>8. Reaches(l, Len(outbox)) /\ Len(outbox) \in Nat
  BY <1>1, <1>7, WalkerAt, WalkRowsAre DEF Reaches, Fetching
<1>9. walker' = [walker EXCEPT ![w] = l]
  BY <1>5, <1>6, WalkerAt DEF W!Ingest
<1>10. Len(outbox) <= Len(outbox') /\ Reaches(l, Len(outbox'))
  BY <1>1, <1>8
<1> QED
  BY <1>4, <1>9, <1>10, WalkerMoves

LEMMA WalkBootstrap ==
  ASSUME WalkInv, NEW w \in Workers, W!Bootstrap(w) PROVE WalkInv'
<1>1. /\ UNCHANGED <<outbox, fingerprint, fence, queue, sent, faults>>
      /\ walker[w].pc = "ingest" /\ WalkRows
      /\ faults' \in 0 .. WalkFaults /\ queue' \subseteq 0 .. Len(outbox)
  BY DEF W!Bootstrap, WalkInv, WalkRows
<1>2. CASE W!Throw(w) /\ UNCHANGED position
  BY <1>1, <1>2, WalkerEnds
<1>3. CASE ~(W!Throw(w) /\ UNCHANGED position)
  <2>1. position \in Stops \cup {None} /\ W!Epoch(position) <= Len(outbox) /\ Len(outbox) \in Nat
    BY <1>1, WalkRowsAre DEF WalkRows
  <2>2. PICK v \in Nat : v = IF position = None THEN 1 ELSE position.rev + 1
    BY <2>1 DEF Stops
  <2>3. PICK n \in Nat, p \in W!Positions \cup {Terminal} :
          n = W!Epoch(position) /\ p = W!At(position)
    BY <2>1, WalkStands
  <2>4. PICK c \in Stops : c = [pos |-> p, epoch |-> n, rev |-> v]
    BY DEF Stops
  <2>5. /\ position = walker[w].cp /\ position' = c
        /\ walker' = [walker EXCEPT ![w].cp = c]
    BY <1>3, <2>2, <2>3, <2>4 DEF W!Bootstrap
  <2>6. W!Epoch(c) = n /\ W!At(c) = p /\ W!At(walker[w].cp) # Terminal
    <3>1. c.epoch = n /\ c.pos = p /\ c # None
      BY <2>4, WalkConstants
    <3> QED
      BY <1>1, <3>1, WalkStands, WalkerAt DEF Reaches, Fetching
  <2>7. WalkRows'
    <3>1. position' \in Stops \cup {None} /\ W!Epoch(position)' <= Len(outbox')
      <4>1. W!Epoch(position)' = W!Epoch(c)
        BY <2>5 DEF W!Epoch
      <4> QED
        BY <1>1, <2>1, <2>3, <2>5, <2>6, <4>1
    <3> QED
      BY <1>1, <3>1 DEF WalkRows
  <2>8. PICK l \in Walker : l = [walker[w] EXCEPT !.cp = c]
    BY WalkerAt DEF Walker
  <2>9. /\ l.pc = "ingest" /\ l.page = walker[w].page /\ l.claimed = walker[w].claimed
        /\ l.msg = walker[w].msg /\ l.active = walker[w].active /\ l.cp = c
        /\ l.budget = walker[w].budget
    BY <1>1, <2>8, WalkerAt DEF Walker
  <2>10. Reaches(l, Len(outbox))
    BY <1>1, <2>1, <2>3, <2>5, <2>6, <2>9, WalkerAt DEF Reaches, Fetching
  <2>11. walker' = [walker EXCEPT ![w] = l]
    BY <2>5, <2>8, WalkerAt
  <2>12. Len(outbox) <= Len(outbox') /\ Reaches(l, Len(outbox'))
    BY <1>1, <2>1, <2>10
  <2> QED
    BY <2>7, <2>11, <2>12, WalkerMoves
<1> QED
  BY <1>2, <1>3

\* The outbox after a commit: the same rows, and one more unless the walk is over.
LEMMA WalkAppends ==
  ASSUME WalkInv, NEW w \in Workers, W!Commit(w), ~walker[w].conflict, W!Committable(w)
  PROVE  /\ outbox' \in Seq(Intents)
         /\ Len(outbox') = IF walker[w].page.next = Terminal THEN Len(outbox) ELSE Len(outbox) + 1
         /\ \A i, k \in 1 .. Len(outbox') : outbox'[i].cursor = outbox'[k].cursor => i = k
         /\ \A k \in 1 .. Len(outbox') : outbox'[k].claimant <= Len(outbox')
<1>1. /\ outbox' = IF walker[w].page.next = Terminal THEN W!Consumed(w)
                   ELSE Append(W!Consumed(w), W!Intent(w))
      /\ walker[w].page.next \notin W!Markers /\ walker[w].pc = "ingest"
  BY DEF W!Commit, W!Committable
<1>2. PICK n \in Nat : n = Len(outbox) /\ DOMAIN outbox = 1 .. n
                       /\ \A k \in 1 .. n : outbox[k] \in Intents
  BY WalkRowsAre DEF WalkInv
<1>3. PICK rest : rest = W!Consumed(w)
  OBVIOUS
<1>4. /\ rest \in Seq(Intents) /\ Len(rest) = n
      /\ \A k \in 1 .. n : rest[k].cursor = outbox[k].cursor /\ rest[k].claimant = outbox[k].claimant
  <2>1. CASE walker[w].claimed = 0
    <3>1. rest = outbox
      BY <1>3, <2>1 DEF W!Consumed
    <3> QED
      BY <1>2, <3>1 DEF WalkInv, WalkRows
  <2>2. CASE walker[w].claimed # 0
    <3>1. PICK c \in Nat : c = walker[w].claimed /\ c <= Len(outbox)
      BY WalkerAt DEF Reaches, Walker
    <3>2. rest = [outbox EXCEPT ![c] = [@ EXCEPT !.state = "delivered", !.leased = FALSE]]
      BY <1>3, <2>2, <3>1 DEF W!Consumed
    <3>3. WalkRows
      BY DEF WalkInv
    <3>4. /\ rest \in Seq(Intents) /\ Len(rest) = Len(outbox)
          /\ \A k \in 1 .. Len(outbox) : /\ rest[k].cursor = outbox[k].cursor
                                         /\ rest[k].claimant = outbox[k].claimant
      BY <3>1, <3>2, <3>3, WalkRowArchived
    <3> QED
      BY <1>2, <3>4
  <2> QED
    BY <2>1, <2>2
<1>5. /\ \A i, k \in 1 .. n : rest[i].cursor = rest[k].cursor => i = k
      /\ \A k \in 1 .. n : rest[k].claimant <= n /\ rest[k].claimant \in Nat
  BY <1>2, <1>4 DEF WalkInv, WalkRows, Intents
<1>6. CASE walker[w].page.next = Terminal
  BY <1>1, <1>2, <1>3, <1>4, <1>5, <1>6
<1>7. CASE walker[w].page.next # Terminal
  <2>1. PICK next \in Cursors : next = walker[w].page.next
    BY <1>1, <1>7, WalkerAt DEF Reaches, Fetching, W!Page
  <2>2. PICK b \in 1 .. MaxPages : b = IF walker[w].budget > 1 THEN walker[w].budget - 1 ELSE 1
    BY <1>1, WalkConstants, WalkerAt DEF Reaches
  <2>3. W!Intent(w) = [state |-> "intent", claimant |-> 0, leased |-> FALSE, version |-> 1,
                       cursor |-> next, budget |-> b]
    BY <2>1, <2>2 DEF W!Intent
  <2>4. PICK row \in Intents : row = W!Intent(w) /\ row.cursor = next /\ row.claimant = 0
    <3>1. W!Intent(w) \in Intents /\ W!Intent(w).cursor = next /\ W!Intent(w).claimant = 0
      BY <2>3 DEF Intents
    <3> QED
      BY <3>1
  <2>5. /\ outbox' \in Seq(Intents) /\ Len(outbox') = n + 1
        /\ \A k \in 1 .. n : outbox'[k] = rest[k]
        /\ outbox'[n + 1] = row
    BY <1>1, <1>3, <1>4, <1>7, <2>4, AppendProperties
  <2>6. \A k \in 1 .. n : rest[k].cursor # next
    BY <1>1, <1>2, <1>4, <2>1 DEF W!Markers
  <2>7. \A k \in 1 .. n + 1 : k \in 1 .. n \/ k = n + 1
    OBVIOUS
  <2>8. \A i, k \in 1 .. n + 1 : outbox'[i].cursor = outbox'[k].cursor => i = k
    BY <1>5, <2>4, <2>5, <2>6, <2>7
  <2>9. \A k \in 1 .. n + 1 : outbox'[k].claimant <= n + 1
    BY <1>5, <2>4, <2>5, <2>7
  <2> QED
    BY <1>2, <1>7, <2>5, <2>8, <2>9
<1> QED
  BY <1>6, <1>7

LEMMA WalkCommit ==
  ASSUME WalkInv, NEW w \in Workers, W!Commit(w) PROVE WalkInv'
<1>1. /\ UNCHANGED <<fingerprint, fence, sent, faults>>
      /\ walker[w].pc = "ingest" /\ WalkRows /\ faults' \in 0 .. WalkFaults
  BY DEF W!Commit, WalkInv, WalkRows
<1>2. CASE walker[w].conflict \/ ~W!Committable(w)
  <2>1. W!Throw(w) /\ UNCHANGED <<position, outbox>>
    BY <1>2 DEF W!Commit
  <2> QED
    BY <1>1, <2>1, WalkerEnds
<1>3. CASE ~walker[w].conflict /\ W!Committable(w)
  <2>1. PICK n \in Nat, m \in Nat :
          /\ n = Len(outbox) /\ m = Len(outbox')
          /\ m = IF walker[w].page.next = Terminal THEN n ELSE n + 1
    <3>1. Len(outbox) \in Nat /\ Len(outbox') \in Nat
      BY <1>1, <1>3, WalkAppends, WalkRowsAre, LenProperties
    <3>2. Len(outbox') = IF walker[w].page.next = Terminal THEN Len(outbox) ELSE Len(outbox) + 1
      BY <1>3, WalkAppends
    <3> QED
      BY <3>1, <3>2
  <2>2. /\ position = walker[w].cp /\ position' = W!Committed(w) /\ queue' = queue
        /\ walker' = [walker EXCEPT ![w] = [@ EXCEPT
                    !.cp = W!Committed(w), !.claimed = 0, !.final = walker[w].budget = 1,
                    !.pc = IF walker[w].page.next = Terminal THEN "end"
                           ELSE IF walker[w].budget > 1 THEN "claim" ELSE "drain"]]
    BY <1>3 DEF W!Commit, W!Committable
  <2>3. PICK next \in Cursors \cup {Terminal} : next = walker[w].page.next
    BY <1>1, WalkerAt DEF Reaches, Fetching, W!Page
  <2>4. PICK v \in Nat : v = IF walker[w].cp = None THEN 1 ELSE walker[w].cp.rev + 1
    BY WalkerAt DEF Stops
  <2>5. PICK p \in Nat : p = W!Epoch(walker[w].cp) /\ p <= n
    BY <2>1, WalkerAt, WalkStands DEF Reaches
  <2>6. PICK e \in Nat : e = p + (IF next = Terminal THEN 0 ELSE 1) /\ e <= m
    BY <2>1, <2>3, <2>5
  <2>7. PICK c \in Stops : c = [pos |-> next, epoch |-> e, rev |-> v]
    BY <2>3, WalkConstants DEF Stops
  <2>8. c = W!Committed(w)
    BY <2>3, <2>4, <2>5, <2>6, <2>7 DEF W!Committed
  <2>9. c # None /\ W!Epoch(c) = e /\ W!At(c) = next
    <3>1. c.epoch = e /\ c.pos = next /\ c # None
      BY <2>7, WalkConstants
    <3> QED
      BY <3>1, WalkStands
  <2>10. WalkRows'
    <3>1. position' = c
      BY <2>2, <2>8
    <3>2. W!Epoch(position)' = e
      BY <2>9, <3>1 DEF W!Epoch
    <3>3. position' \in Stops \cup {None} /\ W!Epoch(position)' <= Len(outbox')
      BY <2>1, <2>6, <3>1, <3>2
    <3>4. queue' \subseteq 0 .. Len(outbox') /\ sent' \subseteq 1 .. Len(outbox')
      <4>1. queue \subseteq 0 .. n /\ sent \subseteq 1 .. n /\ n <= m
        BY <1>1, <2>1 DEF WalkRows
      <4> QED
        BY <1>1, <2>1, <2>2, <4>1
    <3> QED
      BY <1>1, <1>3, <3>3, <3>4, WalkAppends DEF WalkRows
  <2>11. PICK f \in BOOLEAN, pc \in {"end", "claim", "drain"} :
           /\ f = (walker[w].budget = 1)
           /\ pc = IF next = Terminal THEN "end" ELSE IF walker[w].budget > 1 THEN "claim" ELSE "drain"
    OBVIOUS
  <2>12. PICK l \in Walker : l = [walker[w] EXCEPT !.cp = c, !.claimed = 0, !.final = f, !.pc = pc]
    BY WalkerAt DEF Walker
  <2>13. /\ l.pc = pc /\ l.claimed = 0 /\ l.msg = walker[w].msg
         /\ l.active = walker[w].active /\ l.cp = c /\ l.budget = walker[w].budget
    BY <2>12, WalkerAt DEF Walker
  <2>14. Reaches(l, m)
    <3>1. l.msg \in Nat /\ l.active \in Nat /\ l.msg <= n /\ l.active <= n /\ n <= m
      BY <2>1, <2>13, WalkerAt DEF Reaches, Walker
    <3>2. l.budget \in 1 .. MaxPages
      BY <1>1, <2>13, WalkerAt DEF Reaches
    <3>3. l.pc = "claim" => l.cp # None /\ W!At(l.cp) # Terminal
      BY <2>9, <2>11, <2>13
    <3>4. l.msg <= m /\ l.active <= m /\ l.claimed <= m /\ W!Epoch(l.cp) <= m
      BY <2>1, <2>6, <2>9, <2>13, <3>1
    <3> QED
      BY <2>11, <2>13, <3>2, <3>3, <3>4 DEF Reaches, Fetching
  <2>15. walker' = [walker EXCEPT ![w] = l]
    BY <2>2, <2>3, <2>8, <2>11, <2>12, WalkerAt
  <2>16. Len(outbox) <= Len(outbox') /\ Reaches(l, Len(outbox'))
    BY <2>1, <2>14
  <2> QED
    BY <2>10, <2>15, <2>16, WalkerMoves
<1> QED
  BY <1>2, <1>3

LEMMA WalkClaimLocally ==
  ASSUME WalkInv, NEW w \in Workers, W!ClaimLocally(w) PROVE WalkInv'
<1>1. /\ UNCHANGED <<position, fingerprint, fence, sent, faults>>
      /\ walker[w].pc = "claim" /\ WalkRows /\ faults' \in 0 .. WalkFaults
  BY DEF W!ClaimLocally, WalkInv, WalkRows
<1>2. CASE W!Throw(w) /\ UNCHANGED outbox
  BY <1>1, <1>2, WalkerEnds
<1>3. CASE W!Pending # {} /\ outbox' = W!Claimed(W!Oldest, walker[w].active) /\ W!Throw(w)
  <2>1. PICK n \in 1 .. Len(outbox) : n = W!Oldest
    BY <1>1, <1>3, WalkOldest
  <2>2. walker[w].active \in Nat /\ walker[w].active <= Len(outbox)
    BY WalkerAt DEF Reaches, Walker
  <2>3. walker' = [walker EXCEPT ![w] = W!Idle] /\ queue' = queue
    BY <1>3 DEF W!Throw
  <2>4. WalkRows' /\ Len(outbox') = Len(outbox)
    BY <1>1, <1>3, <2>1, <2>2, <2>3, WalkRowClaimed
  <2>5. W!Idle \in Walker /\ Reaches(W!Idle, Len(outbox))
    BY WalkerRests DEF WalkInv
  <2>6. Len(outbox) <= Len(outbox') /\ Reaches(W!Idle, Len(outbox'))
    BY <1>1, <2>4, <2>5, WalkRowsAre, LenProperties
  <2> QED
    BY <2>3, <2>4, <2>5, <2>6, WalkerMoves
<1>4. CASE ~W!Throw(w)
  <2>1. PICK n : n = walker[w].cp.epoch
    OBVIOUS
  <2>2. /\ W!Pending # {} /\ W!Oldest = n /\ queue' = queue
        /\ outbox' = W!Claimed(n, walker[w].active)
        /\ walker' = [walker EXCEPT ![w] = [@ EXCEPT
                        !.pc = "fetch", !.active = n, !.claimed = n,
                        !.version = outbox[n].version + 1, !.budget = outbox[n].budget]]
    BY <1>4, <2>1 DEF W!ClaimLocally
  <2>3. n \in 1 .. Len(outbox) /\ outbox[n] \in Intents /\ Len(outbox) \in Nat
    BY <1>1, <2>2, WalkOldest, WalkRowsAre
  <2>4. walker[w].active \in Nat /\ walker[w].active <= Len(outbox)
    BY WalkerAt DEF Reaches, Walker
  <2>5. WalkRows' /\ Len(outbox') = Len(outbox)
    BY <1>1, <2>2, <2>3, <2>4, WalkRowClaimed
  <2>6. PICK v \in Nat, b \in 1 .. MaxPages : v = outbox[n].version + 1 /\ b = outbox[n].budget
    BY <2>3 DEF Intents
  <2>7. n \in Nat /\ n <= Len(outbox) /\ b \in Nat
    BY <2>3, WalkConstants
  <2>8. PICK l \in Walker : l = [walker[w] EXCEPT !.pc = "fetch", !.active = n, !.claimed = n,
                                                  !.version = v, !.budget = b]
    BY <2>7, WalkerAt DEF Walker, Fetching
  <2>9. /\ l.pc = "fetch" /\ l.claimed = n /\ l.msg = walker[w].msg
        /\ l.active = n /\ l.cp = walker[w].cp /\ l.budget = b
    BY <2>8, WalkerAt DEF Walker
  <2>10. Reaches(l, Len(outbox))
    BY <1>1, <2>7, <2>9, WalkerAt DEF Reaches, Fetching
  <2>11. walker' = [walker EXCEPT ![w] = l]
    BY <2>2, <2>6, <2>8, WalkerAt
  <2>12. Len(outbox) <= Len(outbox') /\ Reaches(l, Len(outbox'))
    BY <2>3, <2>5, <2>10
  <2> QED
    BY <2>5, <2>11, <2>12, WalkerMoves
<1> QED
  BY <1>2, <1>3, <1>4 DEF W!ClaimLocally

LEMMA WalkLease ==
  ASSUME WalkInv, NEW n \in DOMAIN outbox, W!LeaseRunsOut(n) PROVE WalkInv'
<1>1. /\ UNCHANGED <<position, fingerprint, fence, queue, sent, walker, faults>> /\ WalkRows
      /\ outbox' = [outbox EXCEPT ![n].leased = FALSE]
  BY DEF W!LeaseRunsOut, WalkInv
<1>2. n \in 1 .. Len(outbox) /\ outbox[n] \in Intents /\ outbox[n].claimant <= Len(outbox)
  BY <1>1, WalkRowsAre DEF WalkRows
<1>3. PICK row \in Intents : row = [outbox[n] EXCEPT !.leased = FALSE]
  BY <1>2 DEF Intents
<1>4. row.cursor = outbox[n].cursor /\ row.claimant = outbox[n].claimant
  BY <1>2, <1>3 DEF Intents
<1>5. outbox' = [outbox EXCEPT ![n] = row]
  BY <1>1, <1>3, WalkRowsAre
<1>6. WalkRows' /\ Len(outbox') = Len(outbox)
  BY <1>1, <1>2, <1>4, <1>5, WalkRowWritten
<1> QED
  BY <1>1, <1>6 DEF WalkInv, Reaches, W!Epoch, W!At

LEMMA WalkNext == ASSUME WalkInv, W!Next PROVE WalkInv'
<1>1. ASSUME NEW w \in Workers, W!Step(w) PROVE WalkInv'
  <2>1. ASSUME NEW page \in W!Page, W!Fetch(w, page) PROVE WalkInv'
    BY <2>1, WalkFetch
  <2>2. ASSUME NEW e \in WalkEvents, W!Ingest(w, e) PROVE WalkInv'
    BY <2>2, WalkIngest
  <2> QED
    BY <1>1, <2>1, <2>2, WalkRead, WalkDrain, WalkBlocked, WalkPublish, WalkMark, WalkReadFences,
       WalkFingerprint, WalkCommit, WalkClaimLocally, WalkReturns DEF W!Step
<1>2. ASSUME NEW w \in Workers, NEW m \in queue, W!Receive(w, m) PROVE WalkInv'
  BY <1>2, WalkReceive
<1>3. ASSUME NEW n \in DOMAIN outbox, W!LeaseRunsOut(n) PROVE WalkInv'
  BY <1>3, WalkLease
<1> QED
  BY <1>1, <1>2, <1>3, WalkBootstrap, WalkReturns DEF W!Next

LEMMA WalkInit == ASSUME W!Init PROVE WalkInv
<1>1. outbox = <<>> /\ Len(outbox) = 0 /\ outbox \in Seq(Intents)
  BY EmptySeq DEF W!Init
<1>2. WalkRows
  BY <1>1, WalkConstants, WalkStands DEF W!Init, WalkRows
<1> QED
  BY <1>2, WalkerRests DEF W!Init, WalkInv

\* A cursor is followed once, so there are no more epochs than cursors.
LEMMA WalkEpochs ==
  ASSUME WalkRows
  PROVE  Cardinality(Cursors) \in Nat /\ Len(outbox) <= Cardinality(Cursors)
<1>1. PICK n \in Nat : n = Len(outbox) /\ \A k \in 1 .. n : outbox[k] \in Intents
  BY WalkRowsAre
<1>2. PICK f : f = [k \in 1 .. n |-> outbox[k].cursor]
  OBVIOUS
<1>3. f \in [1 .. n -> Cursors] /\ \A i, k \in 1 .. n : f[i] = f[k] => i = k
  BY <1>1, <1>2 DEF Intents, WalkRows
<1>4. f \in Injection(1 .. n, Cursors)
  BY <1>3 DEF Injection, IsInjective
<1>5. Cardinality(1 .. n) <= Cardinality(Cursors)
  BY <1>4, WalkConstants, FS_Injection
<1> QED
  BY <1>1, <1>5, UpToIsFinite, WalkConstants, FS_CardinalityType

LEMMA WalkTyped == ASSUME WalkInv PROVE W!TypeOK
<1>1. WalkRows /\ Len(outbox) \in Nat
  BY WalkRowsAre DEF WalkInv
<1>2. PICK c \in Nat : c = Cardinality(Cursors) /\ Len(outbox) <= c /\ W!Epochs = 0 .. c
  <2>1. W!Cardinality(Cursors) = Cardinality(Cursors)
    BY DEF W!Cardinality, Cardinality
  <2> QED
    BY <1>1, <2>1, WalkEpochs DEF W!Epochs
<1>3. /\ position \in {None} \cup [pos : W!Positions \cup {Terminal}, epoch : W!Epochs, rev : Nat]
      /\ Len(outbox) <= W!Cardinality(Cursors)
  <2>1. W!Cardinality(Cursors) = Cardinality(Cursors)
    BY DEF W!Cardinality, Cardinality
  <2>2. position # None => position \in Stops /\ position.epoch <= Len(outbox)
    BY <1>1 DEF WalkRows, W!Epoch
  <2>3. position # None => position.epoch \in W!Epochs
    BY <1>1, <1>2, <2>2 DEF Stops
  <2> QED
    BY <1>1, <1>2, <2>1, <2>3 DEF WalkRows, Stops
<1>4. outbox \in Seq(W!Row)
  <2>1. ASSUME NEW n \in 1 .. Len(outbox) PROVE outbox[n] \in W!Row
    <3>1. outbox[n] \in Intents /\ outbox[n].claimant <= Len(outbox)
      BY <1>1, WalkRowsAre DEF WalkRows
    <3>2. outbox[n].claimant \in W!Epochs
      BY <1>1, <1>2, <3>1 DEF Intents
    <3> QED
      BY <3>1, <3>2 DEF Intents, W!Row
  <2>2. outbox \in [1 .. Len(outbox) -> Intents]
    BY <1>1, LenProperties DEF WalkRows
  <2> QED
    BY <1>1, <2>1, <2>2
<1>5. queue \subseteq W!Epochs /\ sent \subseteq DOMAIN outbox
  <2>1. queue \subseteq 0 .. Len(outbox) /\ sent \subseteq DOMAIN outbox
    BY <1>1, WalkRowsAre DEF WalkRows
  <2> QED
    BY <1>1, <1>2, <2>1
<1>6. ASSUME NEW w \in Workers PROVE walker[w].cp = None \/ walker[w].cp.epoch \in W!Epochs
  <2>1. walker[w].cp \in Stops \cup {None} /\ W!Epoch(walker[w].cp) <= Len(outbox)
    BY WalkerAt DEF Reaches
  <2>2. walker[w].cp # None => walker[w].cp.epoch <= Len(outbox) /\ walker[w].cp.epoch \in Nat
    BY <2>1 DEF W!Epoch, Stops
  <2> QED
    BY <1>1, <1>2, <2>2
<1> QED
  BY <1>1, <1>3, <1>4, <1>5, <1>6 DEF W!TypeOK, WalkRows

-----------------------------------------------------------------------------
(* Types.                                                                  *)

LEMMA CatalogTyped == ASSUME CatalogInv PROVE C!TypeOK
BY DEF CatalogInv, CatalogWorker, CatalogRecords, C!TypeOK

LEMMA OddsTyped == ASSUME OddsInv PROVE O!TypeOK
<1>1. cp # None => cp.landed <= cp.source
  BY DEF OddsInv, OddsCheckpoint
<1>2. rec \in [O!Slots -> [OddsRows -> {None} \cup [sweep : 1 .. sweeps, page : Nat \ {0}]]]
  BY OddsConstants DEF OddsInv, Records
<1> QED
  BY <1>1, <1>2 DEF OddsInv, OddsWorker, O!TypeOK

LEMMA GradingTyped == ASSUME GradingInv PROVE G!TypeOK
<1>1. GradingRows /\ GradeRows /\ run \in [Runs -> GradingRun]
  BY DEF GradingInv
<1>2. ASSUME NEW b \in Bets
      PROVE  /\ grades[b] \subseteq G!Grade /\ grade[b] \in G!Grade \cup {None}
             /\ \A g \in grades[b] : g.ordinal < MaxResult
  <2>1. Chain(grades[b], grade[b]) /\ grade[b] \in G!Grade \cup {None}
    BY <1>1 DEF GradeRows
  <2>2. ASSUME NEW g \in grades[b] PROVE g.ordinal < MaxResult
    <3>1. g \in G!Grade /\ g.ordinal < g.result
      BY <2>1 DEF Chain
    <3> QED
      BY <3>1, GradingConstants DEF G!Grade, G!Results
  <2> QED
    BY <2>1, <2>2 DEF Chain
<1>3. \A w \in Runs : G!On(w) \in G!Events /\ run[w].todo \subseteq Bets
  BY <1>1 DEF GradingRun, G!On
<1> QED
  BY <1>1, <1>2, <1>3 DEF GradingRows, G!TypeOK

LEMMA LifeTyped == ASSUME LifeInv PROVE H!TypeOK
<1>1. ASSUME NEW a \in H!Actors
      PROVE  /\ work[a].pc \in {"idle", "evaluate", "event", "head", "commit", "heal"}
             /\ work[a].asOf \in H!Times /\ work[a].attempts \in 0 .. 2
             /\ work[a].candidate \in persisted \cup {None}
  BY DEF LifeInv, RunOK, RunType, Busy
<1> QED
  BY <1>1 DEF LifeInv, LifeRows, H!TypeOK

\* The positions claimed in this sweep of events, and the leagues it has reconciled.
ClaimRows == [at : Nat \X Nat \X Nat, page : Nat \ {0}]
EventSide == claims \subseteq ClaimRows /\ walked \subseteq Leagues

LEMMA EventSideNext == ASSUME EventInv, EventSide, E!Next PROVE EventSide'
<1>1. CASE claims' \in {claims, {}} /\ walked' \in {walked, {}}
  BY <1>1 DEF EventSide
<1>2. CASE E!ClaimPosition
  <2>1. PICK at, n : at = E!Position(cp) /\ n = E!PageNumber
    OBVIOUS
  <2>2. /\ cp # None /\ walked' \in {walked, {}}
        /\ claims' = claims \cup {[at |-> at, page |-> n]} \/ claims' \in {claims, {}}
    BY <1>2, <2>1 DEF E!ClaimPosition, E!Running, E!Restart
  <2>3. at \in Nat \X Nat \X Nat /\ n \in Nat \ {0}
    <3>1. cp.part \in Nat /\ cp.offset \in Nat /\ cp.rev \in Nat /\ cp.counts.pages \in Nat
      BY <2>2, EventHolds DEF E!Checkpoint
    <3> QED
      BY <2>1, <3>1 DEF E!Position, E!PageNumber
  <2>4. [at |-> at, page |-> n] \in ClaimRows
    BY <2>3 DEF ClaimRows
  <2> QED
    BY <2>2, <2>4 DEF EventSide
<1>3. CASE E!Commit
  <2>1. claims' \in {claims, {}} /\ (walked' \in {walked, {}} \/ walked' = walked \cup cp.plan[cp.part])
    BY <1>3 DEF E!Commit, E!Restart
  <2>2. cp # None /\ cp.status = "running"
    BY <1>3, EventRuns DEF E!Commit
  <2>3. cp.plan \in Seq(SUBSET Leagues) /\ cp.part \in DOMAIN cp.plan
    BY <2>2, EventHolds DEF E!Valid
  <2>4. cp.plan[cp.part] \in SUBSET Leagues
    BY <2>3, LenProperties, ElementOfSeq
  <2> QED
    BY <2>1, <2>4 DEF EventSide
<1>4. CASE E!Land
  BY <1>1, <1>4 DEF E!Land, E!Restart
<1>5. CASE E!Fetch
  <2>1. \E page : E!Receive(page)
    BY <1>5 DEF E!Fetch
  <2> QED
    BY <1>1, <2>1 DEF E!Receive, E!Restart
<1>6. CASE \/ E!StartCheckpoint \/ E!MigratePlan \/ E!Elapse \/ E!PauseStream \/ E!RejectPartition
           \/ E!OutgrowPartition \/ E!MissTotal \/ E!Die \/ E!NewCatalog
  BY <1>1, <1>6 DEF E!StartCheckpoint, E!MigratePlan, E!Elapse, E!PauseStream, E!RejectPartition,
     E!OutgrowPartition, E!MissTotal, E!Die, E!NewCatalog, E!Restart
<1> QED
  BY <1>2, <1>3, <1>4, <1>5, <1>6 DEF E!Next, E!Landing

LEMMA EventTyped == ASSUME EventInv, EventSide PROVE E!TypeOK
<1>1. rec \in [E!Slots -> [EventRows -> {None} \cup [sweep : 1 .. sweeps, page : Nat \ {0}]]]
  BY EventConstants DEF EventInv, Records
<1> QED
  BY <1>1 DEF EventInv, EventSide, ClaimRows, EventWorker, E!TypeOK

\* What the theorems above say of the landing streams, and the walk beside them.
TypeInv ==
  /\ LandingInv /\ GradingInv /\ LifeInv
  /\ stream = "events" => EventSide
  /\ stream = "upcoming" => WalkInv

LEMMA TypeInvStep == ASSUME TypeInv, [Next]_vars PROVE TypeInv'
<1>1. LandingInv' /\ GradingInv' /\ LifeInv' /\ stream' = stream
  BY LandingSideStep, GradingSideStep, LifeSideStep DEF TypeInv
<1>2. ASSUME stream = "events" PROVE EventSide'
  <2>1. EventInv /\ EventSide
    BY <1>2 DEF TypeInv, LandingInv
  <2>2. E!Next \/ UNCHANGED landingVars
    BY <1>2 DEF Next, vars, LandingCatalog, LandingEvents, LandingOdds, Walking, Grading, Expiring
  <2>3. CASE UNCHANGED landingVars
    BY <2>1, <2>3 DEF EventSide, landingVars
  <2> QED
    BY <2>1, <2>2, <2>3, EventSideNext
<1>3. ASSUME stream = "upcoming" PROVE WalkInv'
  <2>1. WalkInv
    BY <1>3 DEF TypeInv
  <2>2. W!Next \/ UNCHANGED <<faults, walkVars>>
    BY <1>3 DEF Next, vars, LandingCatalog, LandingEvents, LandingOdds, Walking, Grading, Expiring
  <2>3. CASE UNCHANGED <<faults, walkVars>>
    BY <2>1, <2>3 DEF WalkInv, WalkRows, Reaches, W!Epoch, W!At, walkVars
  <2> QED
    BY <2>1, <2>2, <2>3, WalkNext
<1> QED
  BY <1>1, <1>2, <1>3 DEF TypeInv

\* Rows, checkpoints, claims and runs of every pipeline stay of their kind, and an upcoming window
\* has no more continuations than there are cursors, however many workers walk it
\* (commitCheckpoint of dynamodb-event-ingestion and the cursor marker it puts).
THEOREM TypeCorrect == Spec => []TypeOK
<1>1. Init => TypeInv
  <2> SUFFICES ASSUME Init PROVE TypeInv
    OBVIOUS
  <2>1. LandingInv /\ GradingInv /\ LifeInv
    BY LandingStarts, SideInit
  <2>2. WalkInv
    BY WalkInit DEF Init
  <2>3. ASSUME stream = "events" PROVE EventSide
    BY <2>3 DEF Init, LandingInit, E!Init, EventSide
  <2> QED
    BY <2>1, <2>2, <2>3 DEF TypeInv
<1>2. TypeInv /\ [Next]_vars => TypeInv'
  BY TypeInvStep
<1>3. TypeInv => TypeOK
  BY CatalogTyped, OddsTyped, EventTyped, GradingTyped, LifeTyped, WalkTyped
     DEF TypeInv, LandingInv, TypeOK
<1> QED
  BY <1>1, <1>2, <1>3, PTL DEF Spec
===============================================================================
