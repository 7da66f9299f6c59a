------------------------------ MODULE EventStore ------------------------------
(***************************************************************************)
(* The canonical event store                                               *)
(* (packages/database/src/dynamodb-event-ingestion.ts): ingestEvent takes  *)
(* a provider's report of an event, bootstrapCanonicalEvent creates or     *)
(* repairs the canonical event.  Each call reads its rows one after the    *)
(* other and ends in one transaction, which is refused if a row it depends *)
(* on has another version than the one read.  Rows are never deleted.      *)
(***************************************************************************)
EXTENDS Naturals, FiniteSets

CONSTANTS
    Callers,        \* calls that may run at the same time
    Ids,            \* canonical event ids
    Identities,     \* normalized identities (participants and day)
    Contents,       \* what a report says: identity, start time, status
    IdentityOf,     \* the identity of a content
    Providers,      \* numbers: the code breaks ties by comparing provider ids
    ProviderEvents,
    ProviderOf,     \* the provider of a provider event
    Rank,           \* a provider's authority rank
    MaxRevision,    \* bound: revisions of one provider
    MaxCalls,       \* bound: calls started
    None

Revision  == [prov : Providers, n : 1 .. MaxRevision]
Report    == [event : ProviderEvents, content : Contents, n : 1 .. MaxRevision]
Bootstrap == [id : Ids, content : Contents, revision : Revision]

\* The rows: an event remembers the revision it stands under, the one it was bootstrapped
\* with and the latest of each provider (0: none).
Versions    == Nat \ {0}
EventRow    == [content : Contents, auth : Revision, boot : Revision,
                revs : [Providers -> 0 .. MaxRevision], version : Versions]
PointerRow  == [version : Versions]
ClaimRow    == [ids : SUBSET Ids, version : Versions]
MappingRow  == [event : Ids, version : Versions]
RevisionRow == [n : 1 .. MaxRevision, print : Contents, version : Versions]

StoreAssumption ==
    /\ Providers \subseteq Nat
    /\ IdentityOf \in [Contents -> Identities]
    /\ ProviderOf \in [ProviderEvents -> Providers]
    /\ Rank \in [Providers -> Nat]
    /\ MaxRevision \in Nat \ {0} /\ MaxCalls \in Nat
    /\ None \notin EventRow /\ None \notin PointerRow /\ None \notin ClaimRow
    /\ None \notin MappingRow /\ None \notin RevisionRow

VARIABLES
    rows,       \* the table: key -> row, each with a version
    call,       \* the callers' locals
    calls,      \* calls started
    repaired    \* history: events rewritten by bootstrapCanonicalEvent

vars == <<rows, call, calls, repaired>>

EventKey(id)       == <<"event", id>>
PointerKey(id)     == <<"pointer", id>>
ClaimKey(i)        == <<"claim", i>>
MappingKey(e)      == <<"mapping", e>>
RevisionKey(id, p) == <<"revision", id, p>>

Keys == {EventKey(id) : id \in Ids} \cup {PointerKey(id) : id \in Ids}
          \cup {ClaimKey(i) : i \in Identities} \cup {MappingKey(e) : e \in ProviderEvents}
          \cup {RevisionKey(id, p) : id \in Ids, p \in Providers}

-----------------------------------------------------------------------------
(* compareAuthority: revisions of one provider by age, others by rank, age *)
(* and provider id.                                                        *)
Above(a, b) ==
    IF a.prov = b.prov THEN a.n > b.n
    ELSE \/ Rank[a.prov] > Rank[b.prov]
         \/ /\ Rank[a.prov] = Rank[b.prov]
            /\ a.n > b.n \/ (a.n = b.n /\ a.prov > b.prov)

MaxAuthority(S) == CHOOSE r \in S : \A q \in S : ~Above(q, r)

\* The revisions an event row remembers.
Known(event) == {event.auth, event.boot}
                  \cup {[prov |-> p, n |-> event.revs[p]] :
                            p \in {q \in Providers : event.revs[q] > 0}}
Winner(event) == MaxAuthority(Known(event))

-----------------------------------------------------------------------------
(* Transactions.  A write names the version it expects (0: no row) and the *)
(* row it puts; a check puts nothing.                                      *)
Version(k) == IF rows[k] = None THEN 0 ELSE rows[k].version
Write(k, expect, row) == [key |-> k, expect |-> expect, row |-> row]
Check(k, expect) == Write(k, expect, None)

\* variant: the transaction does not check the claims it rests on.
HoldsButClaims(plan) ==
    \A w \in plan : w.key[1] # "claim" => w.expect = Version(w.key)
Holds(plan) == \A w \in plan : w.expect = Version(w.key)

Applied(plan) ==
    [k \in Keys |-> IF \E w \in plan : w.key = k /\ w.row # None
                    THEN (CHOOSE w \in plan : w.key = k).row ELSE rows[k]]

Idle == [pc |-> "idle", op |-> "none", in |-> None, mapped |-> None, claim |-> None,
         event |-> None, plan |-> {}]

Goto(c, pc) == call' = [call EXCEPT ![c].pc = pc]
End(c)      == call' = [call EXCEPT ![c] = Idle]

Claim(ids, old) == [ids |-> ids, version |-> (IF old = None THEN 0 ELSE old.version) + 1]
Expected(row)   == IF row = None THEN 0 ELSE row.version

\* What a claim row says of its identity: no row and no candidate are missing.
Candidates(claim) == IF claim = None THEN {} ELSE claim.ids

Missing == [k \in Keys |-> None]
\* A store in which event id was bootstrapped and its provider event mapped.
Created(id, e, content) ==
    LET r == [prov |-> ProviderOf[e], n |-> 1] IN
    [Missing EXCEPT
        ![EventKey(id)] = [content |-> content, auth |-> r, boot |-> r,
                           revs |-> [p \in Providers |-> 0], version |-> 1],
        ![PointerKey(id)] = [version |-> 1],
        ![ClaimKey(IdentityOf[content])] = [ids |-> {id}, version |-> 1],
        ![MappingKey(e)] = [event |-> id, version |-> 1]]

Init ==
    /\ \/ rows = Missing
       \/ \E id \in Ids, e \in ProviderEvents, content \in Contents :
              rows = Created(id, e, content)
    /\ call = [c \in Callers |-> Idle]
    /\ calls = 0 /\ repaired = {}

\* A call begins with its first read.
Begin(c, begun) ==
    /\ call[c].pc = "idle" /\ calls < MaxCalls
    /\ calls' = calls + 1
    /\ call' = [call EXCEPT ![c] = begun]
    /\ UNCHANGED <<rows, repaired>>

-----------------------------------------------------------------------------
(* ingestEvent.                                                            *)
CallIngest(c) ==
    \E report \in Report :
        LET row == rows[MappingKey(report.event)] IN
        Begin(c, [Idle EXCEPT !.op = "ingest", !.in = report, !.mapped = row,
                              !.pc = IF row = None THEN "identity" ELSE "event"])

\* resolveIdentity reads the claim and its events until both stand still; a
\* report that has not exactly one candidate is kept as unresolved.
ResolveIdentity(c) ==
    /\ call[c].pc = "identity"
    /\ LET row == rows[ClaimKey(IdentityOf[call[c].in.content])] IN
         IF Cardinality(Candidates(row)) = 1
         THEN call' = [call EXCEPT ![c] = [call[c] EXCEPT !.claim = row, !.pc = "event"]]
         ELSE End(c)
    /\ UNCHANGED <<rows, calls, repaired>>

\* The event the report is about.
Target(c) == IF call[c].mapped # None THEN call[c].mapped.event
             ELSE CHOOSE id \in call[c].claim.ids : TRUE

ReadEvent(c) ==
    /\ call[c].pc = "event"
    /\ call' = [call EXCEPT ![c] =
                   [call[c] EXCEPT !.event = rows[EventKey(Target(c))], !.pc = "revision"]]
    /\ UNCHANGED <<rows, calls, repaired>>

\* The latest revision of the provider the call has seen.

Prior(event, row, p) ==
    LET seen == {event.revs[p]} \cup (IF row = None THEN {0} ELSE {row.n})
                  \cup (IF event.boot.prov = p THEN {event.boot.n} ELSE {0})
    IN CHOOSE n \in seen : \A k \in seen : k <= n

\* The same revision must say the same.
Contradicts(event, row, p, n, content) ==
    IF row # None /\ row.n = n THEN row.print # content
    ELSE \/ [prov |-> p, n |-> n] \notin {event.auth, event.boot}
         \/ event.content # content

\* The rows every transaction of an unmapped report rests on or inserts.
\* variant: the identity's claim is not checked.
BindingUnchecked(c) ==
    IF call[c].mapped # None THEN {}
    ELSE {Write(MappingKey(call[c].in.event), 0, [event |-> Target(c), version |-> 1])}
Binding(c) ==
    IF call[c].mapped # None THEN {}
    ELSE {Check(ClaimKey(IdentityOf[call[c].in.content]), call[c].claim.version),
          Write(MappingKey(call[c].in.event), 0, [event |-> Target(c), version |-> 1])}

CheckEvent(c) == Check(EventKey(Target(c)), call[c].event.version)

PutRevision(c, row) ==
    LET p == ProviderOf[call[c].in.event] IN
    Write(RevisionKey(Target(c), p), Expected(row),
          [n |-> call[c].in.n, print |-> call[c].in.content, version |-> Expected(row) + 1])

Transact(c, plan) ==
    call' = [call EXCEPT ![c] = [Idle EXCEPT !.pc = "transact", !.op = call[c].op,
                                             !.in = call[c].in, !.plan = plan]]

Authoritative(rev, event) == ~Above(Winner(event), rev)

\* The provider's revision row is read and the report weighed.
Weigh(c) ==
    /\ call[c].pc = "revision"
    /\ LET in    == call[c].in
           p     == ProviderOf[in.event]
           rev   == [prov |-> p, n |-> in.n]
           event == call[c].event
           row   == rows[RevisionKey(Target(c), p)]
           prior == Prior(event, row, p)
           new   == call[c].mapped = None
       IN \/ /\ in.n = prior /\ Contradicts(event, row, p, in.n, in.content)
             /\ End(c)
          \/ /\ in.n <= prior
             /\ in.n = prior => ~Contradicts(event, row, p, in.n, in.content)
             /\ IF new THEN Transact(c, Binding(c) \cup {CheckEvent(c)}) ELSE End(c)
          \/ /\ in.n > prior
             /\ row # None /\ row.print = in.content /\ event.content = in.content
             /\ Transact(c, Binding(c) \cup {CheckEvent(c), PutRevision(c, row)})
          \/ /\ in.n > prior
             /\ ~(row # None /\ row.print = in.content /\ event.content = in.content)
             /\ IF Authoritative(rev, event)
                THEN call' = [call EXCEPT ![c] =
                                [call[c] EXCEPT !.pc = "prepare", !.plan = {PutRevision(c, row)}]]
                ELSE Transact(c, Binding(c) \cup {PutRevision(c, row)}
                                   \cup (IF new THEN {CheckEvent(c)} ELSE {}))
    /\ UNCHANGED <<rows, calls, repaired>>

\* An authoritative report replaces the event: the claims of an identity that
\* moves and the projection pointer are read, and the whole is prepared.
Moves(c) == IdentityOf[call[c].event.content] # IdentityOf[call[c].in.content]

ReleaseClaim(c, id) ==
    LET i == IdentityOf[call[c].event.content] IN
    {Write(ClaimKey(i), Version(ClaimKey(i)), Claim({}, rows[ClaimKey(i)]))}

TakeClaim(c, id, row) ==
    LET i == IdentityOf[call[c].in.content] IN
    {Write(ClaimKey(i), Expected(row), Claim({id}, row))}

MayMove(c) ==
    /\ call[c].mapped # None
    /\ Candidates(rows[ClaimKey(IdentityOf[call[c].event.content])]) = {Target(c)}
    /\ Candidates(rows[ClaimKey(IdentityOf[call[c].in.content])]) = {}

\* The assertion on the projection pointer.
PointerAgrees(c) == /\ rows[PointerKey(Target(c))] # None
                    /\ rows[PointerKey(Target(c))].version = call[c].event.version

MovePointer(id, version) ==
    {Write(PointerKey(id), version, [version |-> version + 1])}

Prepare(c) ==
    /\ call[c].pc = "prepare"
    /\ LET in == call[c].in
           id == Target(c)
           event == call[c].event
           p  == ProviderOf[in.event]
           next == [event EXCEPT !.content = in.content, !.revs[p] = in.n,
                                 !.auth = [prov |-> p, n |-> in.n], !.version = @ + 1]
       IN IF (Moves(c) => MayMove(c)) /\ PointerAgrees(c)
          THEN Transact(c, call[c].plan \cup Binding(c)
                   \cup {Write(EventKey(id), event.version, next)}
                   \cup MovePointer(id, event.version)
                   \cup (IF Moves(c)
                         THEN ReleaseClaim(c, id)
                                \cup TakeClaim(c, id, rows[ClaimKey(IdentityOf[in.content])])
                         ELSE {}))
          ELSE End(c)
    /\ UNCHANGED <<rows, calls, repaired>>

-----------------------------------------------------------------------------
(* bootstrapCanonicalEvent.                                                *)
CallBootstrap(c) ==
    \E b \in Bootstrap :
        LET row == rows[ClaimKey(IdentityOf[b.content])] IN
        Begin(c, IF Candidates(row) \subseteq {b.id}
                 THEN [Idle EXCEPT !.op = "bootstrap", !.in = b, !.claim = row, !.pc = "insert"]
                 ELSE Idle)

\* The event is inserted with its pointer and its claim.
Insertion(c) ==
    LET b == call[c].in IN
    {Write(EventKey(b.id), 0,
           [content |-> b.content, auth |-> b.revision, boot |-> b.revision,
            revs |-> [p \in Providers |-> 0], version |-> 1]),
     Write(PointerKey(b.id), Version(PointerKey(b.id)), [version |-> 1])}
      \cup TakeClaim(c, b.id, call[c].claim)

InsertEvent(c) ==
    /\ call[c].pc = "insert"
    /\ IF Holds(Insertion(c))
       THEN rows' = Applied(Insertion(c)) /\ End(c)
       ELSE Goto(c, "existing") /\ UNCHANGED rows
    /\ UNCHANGED <<calls, repaired>>

\* The insertion was refused: the event is there, and the bootstrap is stale,
\* contradicts it, or may repair it.
ReadExisting(c) ==
    /\ call[c].pc = "existing"
    /\ LET b == call[c].in
           event == rows[EventKey(b.id)]
       IN IF \/ event = None
             \/ Above(Winner(event), b.revision)
             \/ b.revision = Winner(event) /\ event.content # b.content
          THEN End(c)
          ELSE call' = [call EXCEPT ![c] =
                          [call[c] EXCEPT !.event = event, !.pc = "owner"]]
    /\ UNCHANGED <<rows, calls, repaired>>

Repaired(c) ==
    LET b == call[c].in
        event == call[c].event
    IN Write(EventKey(b.id), event.version,
             [event EXCEPT !.content = b.content, !.boot = b.revision,
                           !.auth = MaxAuthority(Known(event) \cup {b.revision}),
                           !.version = @ + 1])

\* Same identity: checked, repaired, or only claimed; another one: moved.
ReadOwner(c) ==
    /\ call[c].pc = "owner"
    /\ LET b == call[c].in
           event == call[c].event
           owner == rows[ClaimKey(IdentityOf[b.content])]
           check == Check(EventKey(b.id), event.version)
           own   == IF Candidates(owner) = {b.id}
                    THEN {Check(ClaimKey(IdentityOf[b.content]), owner.version)}
                    ELSE TakeClaim(c, b.id, owner)
       IN IF ~(Candidates(owner) \subseteq {b.id}) THEN End(c)
          ELSE IF IdentityOf[event.content] # IdentityOf[b.content] THEN Goto(c, "previous")
          ELSE IF Above(b.revision, Winner(event)) THEN Transact(c, {Repaired(c)} \cup own)
          ELSE Transact(c, {check} \cup own)
    /\ UNCHANGED <<rows, calls, repaired>>

ReadPrevious(c) ==
    /\ call[c].pc = "previous"
    /\ LET b == call[c].in
           previous == rows[ClaimKey(IdentityOf[call[c].event.content])]
       IN IF Candidates(previous) = {b.id}
          THEN Transact(c, {Repaired(c)} \cup ReleaseClaim(c, b.id)
                             \cup TakeClaim(c, b.id, call[c].claim))
          ELSE End(c)
    /\ UNCHANGED <<rows, calls, repaired>>

-----------------------------------------------------------------------------
\* The transaction; refused, it changes nothing and the call throws.
Commit(c) ==
    /\ call[c].pc = "transact"
    /\ IF Holds(call[c].plan)
       THEN /\ rows' = Applied(call[c].plan)
            /\ repaired' = IF call[c].op = "bootstrap" /\ rows' # rows
                           THEN repaired \cup {call[c].in.id} ELSE repaired
       ELSE UNCHANGED <<rows, repaired>>
    /\ End(c)
    /\ UNCHANGED calls

Next == \E c \in Callers :
    \/ CallIngest(c) \/ ResolveIdentity(c) \/ ReadEvent(c)
    \/ Weigh(c) \/ Prepare(c)
    \/ CallBootstrap(c) \/ InsertEvent(c)
    \/ ReadExisting(c) \/ ReadOwner(c) \/ ReadPrevious(c)
    \/ Commit(c)

Spec == Init /\ [][Next]_vars

-----------------------------------------------------------------------------
EventOf(id) == rows[EventKey(id)]
Exists(id)  == EventOf(id) # None

TypeOK ==
    /\ \A id \in Ids : Exists(id) =>
          /\ EventOf(id).content \in Contents
          /\ {EventOf(id).auth, EventOf(id).boot} \subseteq Revision
          /\ EventOf(id).revs \in [Providers -> 0 .. MaxRevision]
    /\ \A k \in Keys : rows[k] # None => rows[k].version \in 1 .. MaxCalls + 1
    /\ calls \in 0 .. MaxCalls /\ repaired \subseteq Ids

(***************************************************************************)
(* The identity index and the events agree: an event is the one candidate  *)
(* of its identity, and of no other, however reports, moves and bootstraps *)
(* of several workers interleave (identity claims in transactions).        *)
(***************************************************************************)
ClaimsAgree ==
    /\ \A id \in Ids : Exists(id) =>
          \A i \in Identities :
              id \in Candidates(rows[ClaimKey(i)]) <=> i = IdentityOf[EventOf(id).content]
    /\ \A i \in Identities : Cardinality(Candidates(rows[ClaimKey(i)])) <= 1

(***************************************************************************)
(* The authority of an event is the highest it has accepted: a revision of *)
(* higher authority that the event row has ever remembered still decides.  *)
(***************************************************************************)
AuthorityIsWinner == \A id \in Ids : Exists(id) => EventOf(id).auth = Winner(EventOf(id))

(***************************************************************************)
(* An event's content is rewritten only under a higher authority than the  *)
(* one it stood under, whatever older copy of the event a caller decided   *)
(* on (compareAuthority, the version conditions).                          *)
(***************************************************************************)
ContentNeedsAuthority ==
    [][\A id \in Ids :
          Exists(id) /\ EventOf(id)'.content # EventOf(id).content
              => Above(EventOf(id)'.auth, EventOf(id).auth)]_vars

(***************************************************************************)
(* A provider event is bound only to the event that owns, at that moment,  *)
(* the identity it was reported under, and the binding stands.             *)
(***************************************************************************)
BoundToOwner ==
    [][\A e \in ProviderEvents :
          rows'[MappingKey(e)] # rows[MappingKey(e)] =>
              /\ rows[MappingKey(e)] = None
              /\ \E c \in Callers :
                    /\ call[c].op = "ingest" /\ call[c].in.event = e
                    /\ Candidates(rows[ClaimKey(IdentityOf[call[c].in.content])])
                           = {rows'[MappingKey(e)].event}]_vars

(***************************************************************************)
(* The projections follow the event row, but for a bootstrap that repaired *)
(* it: bootstrapCanonicalEvent raises the version without writing them.    *)
(***************************************************************************)
PointerFollows ==
    \A id \in Ids : Exists(id) /\ id \notin repaired =>
        rows[PointerKey(id)] # None /\ rows[PointerKey(id)].version = EventOf(id).version

(***************************************************************************)
(* A provider's revision row never goes back, though it is written from a  *)
(* copy read earlier.                                                      *)
(***************************************************************************)
RevisionsRise ==
    [][\A id \in Ids, p \in Providers :
          LET k == RevisionKey(id, p) IN
          rows[k] # None => rows'[k] # None /\ rows'[k].n >= rows[k].n]_vars

\* Projections follow every repair as well: the code does not keep this.
PointerAlwaysFollows ==
    \A id \in Ids : Exists(id) => rows[PointerKey(id)].version = EventOf(id).version
=============================================================================
