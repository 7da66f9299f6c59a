---------------------------- MODULE MCScoutingJob ----------------------------
(***************************************************************************)
(* ScoutingJob on small instances.  A behaviour is of one of three kinds,  *)
(* chosen at its start: requests under different keys create and retry     *)
(* jobs while the state machine's finalizer ends them; requests retry one  *)
(* job under several keys while a worker runs its attempts; or everybody   *)
(* is about one job.                                                       *)
(***************************************************************************)
EXTENDS ScoutingJob, TLC

CONSTANTS
  Parts,   \* the kinds of behaviour
  First    \* the key the one job of the second and third kind is created under

VARIABLE part
partVars == <<vars, part>>

Creating == /\ \A w \in Workers : proc[w] = Idle
            /\ \A c \in Clients : proc[c].key # First
\* The one job is created before anybody else comes.
OnlyFirst == \A c \in Clients : proc[c].stage = "create" =>
                /\ proc[c].key = First
                /\ \A p \in Callers \ {c} : proc[p] = Idle
Retrying == OnlyFirst /\ \A f \in Finalizers : proc[f] = Idle
Only == CASE part = "creating" -> Creating
          [] part = "retrying" -> Retrying
          [] part = "working"  -> OnlyFirst

MCInit == Init /\ part \in Parts
MCNext == Next /\ UNCHANGED part /\ Only'
MCSpec == MCInit /\ [][MCNext]_partVars

\* The callers of one kind are interchangeable, and so are the other keys.
Symmetry == Permutations(Keys \ {First}) \cup Permutations(Clients) \cup Permutations(Workers)
=============================================================================
