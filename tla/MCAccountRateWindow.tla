------------------------- MODULE MCAccountRateWindow -------------------------
(***************************************************************************)
(* AccountRateWindow on small instances.  A behaviour has a cast, chosen   *)
(* at its start: the landings with all the closing captures, or a          *)
(* collector with one of the others.  Whoever is not in it stays idle.     *)
(* Consumers of one kind are interchangeable.                              *)
(***************************************************************************)
EXTENDS AccountRateWindow, TLC

VARIABLE cast

Casts == {Landings \cup Closings} \cup {{p, a} : p \in Landings \cup Closings, a \in Collectors}

MCInit == Init /\ cast \in Casts

MCNext ==
  /\ \/ \E p \in Landings \cap cast : LandingStep(p)
     \/ \E p \in Closings \cap cast : ClosingStep(p)
     \/ \E p \in Collectors \cap cast : CollectorStep(p)
     \/ \E p \in cast : Request(p) \/ Fault(p)
     \/ NextWindow \/ ProbeLapses
  /\ UNCHANGED cast

MCSpec == MCInit /\ [][MCNext]_<<vars, cast>>

Symmetry == Permutations(Closings)

\* What a consumer has in its locals and reads no more says nothing.
Kept(l) ==
  [l EXCEPT !.at     = IF l.pc = "reserve" THEN @ ELSE "none",
            !.rsv    = IF l.pc = "ask" THEN @ ELSE "none",
            !.cost   = IF l.pc \in {"reconcile", "limited", "refused"} THEN 1 ELSE @,
            !.known  = l.pc = "take" /\ @,
            !.again  = l.pc \in {"reserve", "reread"} /\ @,
            !.second = l.pc \in {"read", "reread", "reserve", "ask", "recover"} /\ @,
            !.answer = IF l.pc \in {"complete", "reconcile", "limited", "publish", "put"}
                       THEN @ ELSE NoAnswer,
            !.why    = IF l.pc \in {"failing", "failPut"} THEN @ ELSE "none"]

\* Nor does a version under which nobody will write, what has been reserved
\* altogether while there is no collector, or a refusal, which only
\* TerminalIsVerdict is about.
Writers == {p \in Procs : proc[p].pc \in {"reserve", "ask", "complete", "take", "put", "failPut"}}
View == <<row, fresh \cap Writers, [p \in cast |-> Kept(proc[p])], credit, unsent, unreserved,
          forgotten, cast, IF cast \cap Collectors = {} THEN 0 ELSE reserved>>
=============================================================================
