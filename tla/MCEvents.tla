------------------------------ MODULE MCEvents ------------------------------
(***************************************************************************)
(* Upcoming events on small instances: the walk of one window (EventWalk)  *)
(* and the store its events go to (EventStore).  The walk sees the store   *)
(* through the fence rows only, so a behaviour is a behaviour of one of    *)
(* them, chosen at its start, with the other at rest.                      *)
(***************************************************************************)
EXTENDS EventWalk, TLC

CONSTANTS Callers, Ids, Identities, Contents, IdentityOf, Providers, ProviderEvents, ProviderOf,
          Rank, MaxRevision, MaxCalls
CONSTANTS c1, c2, e1, e2, p1, p2, x, y, z, i1, i2

VARIABLES part, stored, call, calls, repaired

\* Three pages; the last one is empty.
MCFeed == [p \in {Start, c1, c2} |->
              CASE p = Start -> [events |-> {e1}, next |-> c1]
                [] p = c1    -> [events |-> {e2}, next |-> c2]
                [] OTHER     -> [events |-> {}, next |-> Terminal]]
\* y reschedules x; z moves it to another identity.
MCIdentityOf == (x :> i1) @@ (y :> i1) @@ (z :> i2)
MCProviderOf == (p1 :> 1) @@ (p2 :> 2)
MCRank == <<1, 1>>

S == INSTANCE EventStore WITH rows <- stored

ASSUME EventsAssumption == WalkAssumption /\ S!StoreAssumption

storeVars == <<stored, call, calls, repaired>>

MCInit == /\ part \in {"walk", "store"} /\ Init /\ S!Init
          /\ part = "walk" => stored = S!Missing
MCNext ==
    \/ part = "walk" /\ Next /\ UNCHANGED <<part, storeVars>>
    \/ part = "store" /\ S!Next /\ UNCHANGED <<part, vars>>
MCSpec == MCInit /\ [][MCNext]_<<part, vars, storeVars>>

\* Workers of the walk and callers of the store are interchangeable, and so are ids and
\* the two contents of one identity.
Symmetry == Permutations(Callers) \cup Permutations(Ids) \cup Permutations({x, y})

\* Every event is the one candidate of its identity, stands under the highest authority it
\* has accepted, and has its projection, whatever calls interleaved.
EventsAgree ==
    part = "store" => S!TypeOK /\ S!ClaimsAgree /\ S!AuthorityIsWinner /\ S!PointerFollows

\* Content changes only under a higher authority, a binding is made to the owner of the
\* identity and stands, and a provider's revision never goes back.
EventsRise == S!ContentNeedsAuthority /\ S!BoundToOwner /\ S!RevisionsRise
=============================================================================
