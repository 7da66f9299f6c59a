----------------------------- MODULE AccessProofs -----------------------------
(***************************************************************************)
(* What Access guarantees for any number of calls, people, keys and        *)
(* customers, and any budgets and lives.                                   *)
(***************************************************************************)
EXTENDS Access, Sequences, FiniteSetTheorems, TLAPS

-----------------------------------------------------------------------------
(* Billing: types *)

LEMMA EntitlementFields ==
  ASSUME NEW r \in B!Entitlement
  PROVE  /\ r.state \in B!State /\ r.until \in B!Instant /\ r.period \in B!Instant
         /\ r.trial \in B!Instant /\ r.customer \in B!Customer \cup {Absent}
         /\ r.last \in 0..MaxEvents /\ r.fence \in 0..MaxSecond
BY DEF B!Entitlement

LEMMA EventFields ==
  ASSUME NEW e \in B!Event
  PROVE  /\ e.type \in B!Type /\ e.state \in B!State /\ e.trial \in B!Instant
         /\ e.end \in B!Instant /\ e.created \in 1..MaxSecond /\ e.customer \in B!Customer
BY DEF B!Event

LEMMA NewEntitlement == B!New \in B!Entitlement
BY AccessAssumption DEF B!BillingAssumption, B!New, B!Entitlement, B!State, B!Instant

LEMMA BoundaryType ==
  ASSUME NEW state \in B!State, NEW trial \in B!Instant, NEW end \in B!Instant
  PROVE  B!Boundary(state, trial, end) \in B!Instant
BY AccessAssumption DEF B!BillingAssumption, B!Boundary, B!Or, B!Instant

LEMMA ReducedType ==
  ASSUME NEW r \in B!Entitlement, NEW e \in B!Event
  PROVE  B!Reduced(r, e) \in B!Entitlement
<1>1. /\ r.until \in B!Instant /\ r.period \in B!Instant /\ r.trial \in B!Instant
      /\ e.state \in B!State /\ e.trial \in B!Instant /\ e.end \in B!Instant
  BY EntitlementFields, EventFields
<1>2. B!Or(e.trial, r.trial) \in B!Instant /\ B!Or(e.end, r.period) \in B!Instant
  BY <1>1 DEF B!Or
<1>3. B!OfSubscription(r, e) \in B!Entitlement
  BY <1>1, <1>2, BoundaryType DEF B!OfSubscription, B!Entitlement
<1>4. B!OfPayment(r, e) \in B!Entitlement
  <2> DEFINE state == IF r.trial > e.created THEN "trialing" ELSE "active"
             until == B!Boundary(state, r.trial, B!Or(e.end, r.period))
  <2>1. state \in B!State
    BY DEF B!State
  <2>2. until \in B!Instant
    BY <1>1, <1>2, <2>1, BoundaryType
  <2>3. B!OfPayment(r, e) = [r EXCEPT !.state = state, !.period = B!Or(e.end, r.period),
                                      !.until = B!Later(r.until, until)]
    BY DEF B!OfPayment
  <2> HIDE DEF state, until
  <2>4. B!Later(r.until, until) \in B!Instant
    BY <1>1, <2>2 DEF B!Later
  <2> QED
    BY <1>2, <2>1, <2>3, <2>4 DEF B!Entitlement
<1>5. [r EXCEPT !.state = "canceled", !.until = 0, !.period = B!Or(e.end, r.period)]
        \in B!Entitlement
  <2>1. 0 \in B!Instant /\ "canceled" \in B!State
    BY AccessAssumption DEF B!BillingAssumption, B!Instant, B!State
  <2> QED
    BY <1>2, <2>1 DEF B!Entitlement
<1>6. B!OfFailure(r, e) \in B!Entitlement
  BY DEF B!OfFailure, B!Entitlement, B!State
<1> QED
  BY <1>3, <1>4, <1>5, <1>6 DEF B!Reduced

-----------------------------------------------------------------------------
(* Billing: no event unattributed, nothing unpaid.  A call under way knows  *)
(* only customers that are linked and, of the record, only instants that    *)
(* Stripe has given.                                                        *)

Paid(r) ==
  r # Absent => /\ r.until # 0 => B!Given(r.until)
                /\ r.period # 0 => B!Given(r.period)
                /\ r.trial # 0 => B!Given(r.trial)

HookOK(w) ==
  \/ webhook[w] = B!Idle
  \/ /\ webhook[w] \in B!Hook
     /\ webhook[w].event \in DOMAIN emitted
     /\ webhook[w].pc = "save" => Paid(webhook[w].seen)

ShopOK(c) ==
  \/ checkout[c] = B!Idle
  \/ /\ checkout[c] \in B!Shop
     /\ checkout[c].pc # "create" => checkout[c].customer \in B!Customer
     /\ checkout[c].pc \in {"attach", "session"} => checkout[c].customer \in pointers

RecordOK ==
  /\ record \in B!Entitlement \cup {Absent}
  /\ Paid(record)
  /\ record # Absent /\ record.customer # Absent => record.customer \in pointers

StripeOK ==
  /\ pointers \subseteq B!Customer /\ invited \subseteq pointers
  /\ made \in 0..Customers /\ remembered \in BOOLEAN /\ second \in 1..MaxSecond
  /\ emitted \in Seq(B!Event) /\ Len(emitted) <= MaxEvents
  /\ \A i \in DOMAIN emitted : emitted[i].customer \in pointers

CallsOK ==
  /\ webhook \in [Webhooks -> B!Hook \cup {B!Idle}]
  /\ checkout \in [Checkouts -> B!Shop \cup {B!Idle}]
  /\ \A w \in Webhooks : HookOK(w)
  /\ \A c \in Checkouts : ShopOK(c)

BillingInv == RecordOK /\ StripeOK /\ CallsOK

\* What Stripe has given or the table linked stays so.
Grown ==
  /\ pointers \subseteq pointers'
  /\ \A i \in DOMAIN emitted : i \in DOMAIN emitted' /\ emitted'[i] = emitted[i]

LEMMA GivenStays ==
  ASSUME Grown
  PROVE  /\ \A t : B!Given(t) => B!Given(t)'
         /\ \A r : Paid(r) => Paid(r)'
<1>1. ASSUME NEW t, B!Given(t) PROVE B!Given(t)'
  BY <1>1 DEF B!Given, Grown
<1> QED
  BY <1>1 DEF Paid

\* Calls that do not move know no less.
LEMMA CallsStay ==
  ASSUME CallsOK, Grown
  PROVE  /\ \A w \in Webhooks : webhook'[w] = webhook[w] => HookOK(w)'
         /\ \A c \in Checkouts : checkout'[c] = checkout[c] => ShopOK(c)'
<1>1. ASSUME NEW w \in Webhooks, webhook'[w] = webhook[w] PROVE HookOK(w)'
  <2>1. HookOK(w)
    BY DEF CallsOK
  <2>2. Paid(webhook[w].seen) => Paid(webhook[w].seen)'
    BY <1>1 DEF Paid, B!Given, Grown
  <2> QED
    BY <1>1, <2>1, <2>2 DEF HookOK, Grown
<1>2. ASSUME NEW c \in Checkouts, checkout'[c] = checkout[c] PROVE ShopOK(c)'
  BY <1>2 DEF CallsOK, ShopOK, Grown
<1> QED
  BY <1>1, <1>2

LEMMA HookMoves ==
  ASSUME CallsOK, Grown, NEW w \in Webhooks, NEW h \in B!Hook \cup {B!Idle}, B!Hear(w, h),
         UNCHANGED checkout, HookOK(w)'
  PROVE  CallsOK'
<1>1. webhook' \in [Webhooks -> B!Hook \cup {B!Idle}]
      /\ \A v \in Webhooks : v # w => webhook'[v] = webhook[v]
  BY DEF CallsOK, B!Hear
<1> QED
  BY <1>1, CallsStay DEF CallsOK

LEMMA ShopMoves ==
  ASSUME CallsOK, Grown, NEW c \in Checkouts, NEW s \in B!Shop \cup {B!Idle}, B!Shops(c, s),
         UNCHANGED webhook, ShopOK(c)'
  PROVE  CallsOK'
<1>1. checkout' \in [Checkouts -> B!Shop \cup {B!Idle}]
      /\ \A d \in Checkouts : d # c => checkout'[d] = checkout[d]
  BY DEF CallsOK, B!Shops
<1> QED
  BY <1>1, CallsStay DEF CallsOK

LEMMA Standing ==
  ASSUME BillingInv, UNCHANGED <<record, webhook, checkout>>, Grown
  PROVE  RecordOK' /\ CallsOK'
<1>1. RecordOK'
  <2>1. Paid(record)'
    BY GivenStays DEF BillingInv, RecordOK, Paid
  <2> QED
    BY <2>1 DEF BillingInv, RecordOK, Grown
<1>2. CallsOK'
  BY CallsStay DEF BillingInv, CallsOK
<1> QED
  BY <1>1, <1>2

LEMMA ForgetStep ==
  ASSUME BillingInv, B!Forget \/ B!NextSecond
  PROVE  BillingInv'
<1>1. UNCHANGED <<record, pointers, made, invited, emitted, webhook, checkout>>
  BY DEF B!Forget, B!NextSecond
<1>2. Grown
  BY <1>1 DEF Grown
<1>3. remembered' \in BOOLEAN /\ second' \in 1..MaxSecond
  <2>1. CASE B!Forget
    BY <2>1 DEF BillingInv, StripeOK, B!Forget
  <2>2. CASE B!NextSecond
    BY <2>2, AccessAssumption DEF BillingInv, StripeOK, B!NextSecond, B!BillingAssumption
  <2> QED
    BY <2>1, <2>2
<1> QED
  BY <1>1, <1>2, <1>3, Standing DEF BillingInv, StripeOK

LEMMA EmitStep ==
  ASSUME BillingInv, B!Emit
  PROVE  BillingInv'
<1>1. PICK c \in invited, s \in Says :
        emitted' = Append(emitted, [type |-> s[1], state |-> s[2], trial |-> B!After(s[3]),
                                    end |-> B!After(s[4]), created |-> second, customer |-> c])
  BY DEF B!Emit
<1> DEFINE e == [type |-> s[1], state |-> s[2], trial |-> B!After(s[3]),
                 end |-> B!After(s[4]), created |-> second, customer |-> c]
<1>2. UNCHANGED <<record, pointers, made, remembered, invited, second, webhook, checkout>>
      /\ Len(emitted) < MaxEvents
  BY DEF B!Emit
<1>3. e \in B!Event
  <2>1. s \in B!Type \X B!State \X (0..2) \X (0..2)
    BY AccessAssumption DEF B!BillingAssumption
  <2>2. B!After(s[3]) \in B!Instant /\ B!After(s[4]) \in B!Instant
    BY <2>1, AccessAssumption DEF B!After, B!Instant, BillingInv, StripeOK, B!BillingAssumption
  <2>3. second \in 1..MaxSecond /\ c \in B!Customer
    BY DEF BillingInv, StripeOK
  <2> QED
    BY <2>1, <2>2, <2>3 DEF B!Event
<1> HIDE DEF e
<1>4. emitted' = Append(emitted, e) /\ emitted \in Seq(B!Event)
  BY <1>1 DEF e, BillingInv, StripeOK
<1>5. /\ emitted' \in Seq(B!Event) /\ Len(emitted') = Len(emitted) + 1
      /\ \A i \in DOMAIN emitted : i \in DOMAIN emitted' /\ emitted'[i] = emitted[i]
      /\ \A i \in DOMAIN emitted' : i \in DOMAIN emitted \/ emitted'[i] = e
  BY <1>3, <1>4
<1>6. Grown
  BY <1>2, <1>5 DEF Grown
<1>7. e.customer \in pointers
  BY DEF e, BillingInv, StripeOK
<1>8. Len(emitted') <= MaxEvents
  BY <1>2, <1>4, <1>5, AccessAssumption DEF B!BillingAssumption
<1>9. \A i \in DOMAIN emitted' : emitted'[i].customer \in pointers'
  BY <1>2, <1>5, <1>7 DEF BillingInv, StripeOK
<1>10. StripeOK'
  BY <1>2, <1>5, <1>8, <1>9 DEF BillingInv, StripeOK
<1> QED
  BY <1>2, <1>6, <1>10, Standing DEF BillingInv

\* A step of a call that leaves what is given and linked alone.
LEMMA Unmoved ==
  ASSUME UNCHANGED <<pointers, emitted>>
  PROVE  Grown
BY DEF Grown

LEMMA DeliverStep ==
  ASSUME BillingInv, NEW w \in Webhooks, B!Deliver(w)
  PROVE  BillingInv'
<1>1. UNCHANGED <<record, pointers, made, remembered, invited, second, emitted, checkout>>
  BY DEF B!Deliver, B!stripe
<1>2. PICK i \in DOMAIN emitted : B!Hear(w, [pc |-> "get", event |-> i, seen |-> Absent])
  BY DEF B!Deliver
<1>3. i \in 1..MaxEvents
  BY AccessAssumption DEF BillingInv, StripeOK, B!BillingAssumption
<1> DEFINE h == [pc |-> "get", event |-> i, seen |-> Absent]
<1>4. h \in B!Hook
  BY <1>3 DEF B!Hook
<1>5. webhook'[w] = h
  BY <1>2 DEF B!Hear, BillingInv, CallsOK
<1>6. HookOK(w)'
  BY <1>1, <1>4, <1>5 DEF HookOK
<1>7. CallsOK'
  BY <1>1, <1>2, <1>4, <1>6, Unmoved, HookMoves DEF BillingInv
<1>8. RecordOK'
  BY <1>1 DEF BillingInv, RecordOK, Paid, B!Given
<1> QED
  BY <1>1, <1>7, <1>8 DEF BillingInv, StripeOK

LEMMA GetStep ==
  ASSUME BillingInv, NEW w \in Webhooks, B!GetEntitlement(w)
  PROVE  BillingInv'
<1>1. UNCHANGED <<record, pointers, made, remembered, invited, second, emitted, checkout>>
  BY DEF B!GetEntitlement, B!stripe
<1>2. webhook[w] \in B!Hook /\ webhook[w].event \in DOMAIN emitted
  BY DEF BillingInv, CallsOK, HookOK, B!GetEntitlement, B!Idle
<1>3. PICK h : B!Hear(w, h) /\ (h = B!Idle \/ h = [webhook[w] EXCEPT !.pc = "save", !.seen = record])
  BY DEF B!GetEntitlement
<1>4. record \in B!Entitlement \cup {Absent} /\ Paid(record)
  BY DEF BillingInv, RecordOK
<1>5. webhook'[w] = h
  BY <1>3 DEF B!Hear, BillingInv, CallsOK
<1>6. h = B!Idle \/ (h \in B!Hook /\ h.event = webhook[w].event /\ h.seen = record)
  BY <1>2, <1>3, <1>4 DEF B!Hook
<1>7. HookOK(w)'
  BY <1>1, <1>2, <1>4, <1>5, <1>6 DEF HookOK, Paid, B!Given
<1>8. CallsOK'
  BY <1>1, <1>3, <1>6, <1>7, Unmoved, HookMoves DEF BillingInv
<1>9. RecordOK'
  BY <1>1 DEF BillingInv, RecordOK, Paid, B!Given
<1> QED
  BY <1>1, <1>8, <1>9 DEF BillingInv, StripeOK

LEMMA BoundaryGiven ==
  ASSUME NEW state, NEW trial, NEW end,
         trial # 0 => B!Given(trial), end # 0 => B!Given(end)
  PROVE  B!Boundary(state, trial, end) # 0 => B!Given(B!Boundary(state, trial, end))
BY DEF B!Boundary, B!Or

\* Folding a known event into a record makes it say nothing that Stripe has not.
LEMMA ReducedPaid ==
  ASSUME StripeOK, NEW r \in B!Entitlement, Paid(r), NEW i \in DOMAIN emitted
  PROVE  Paid(B!Reduced(r, emitted[i]))
<1> DEFINE e == emitted[i]
<1>1. e \in B!Event /\ r # Absent
  BY AccessAssumption DEF StripeOK, B!BillingAssumption
<1>2. /\ r.until # 0 => B!Given(r.until)
      /\ r.period # 0 => B!Given(r.period)
      /\ r.trial # 0 => B!Given(r.trial)
  BY <1>1 DEF Paid
<1>3. e.type \in {"subscription", "deleted", "paid"}
        => B!Given(e.end) /\ B!Given(e.trial)
  BY DEF B!Given
<1> SUFFICES Paid(B!Reduced(r, e))
  OBVIOUS
<1> HIDE DEF e
<1>4. e.type \in {"subscription", "deleted", "paid"}
        => (B!Or(e.end, r.period) # 0 => B!Given(B!Or(e.end, r.period)))
  BY <1>2, <1>3 DEF B!Or
<1>5. CASE e.type = "deleted"
  <2>1. B!Reduced(r, e) = [r EXCEPT !.state = "canceled", !.until = 0,
                                    !.period = B!Or(e.end, r.period)]
    BY <1>5 DEF B!Reduced
  <2>2. /\ B!Reduced(r, e).until = 0 /\ B!Reduced(r, e).period = B!Or(e.end, r.period)
        /\ B!Reduced(r, e).trial = r.trial
    BY <2>1 DEF B!Entitlement
  <2> QED
    BY <1>2, <1>4, <1>5, <2>2 DEF Paid
<1>6. CASE e.type = "subscription"
  <2> DEFINE trial == B!Or(e.trial, r.trial)
             end == B!Or(e.end, r.period)
  <2>1. B!Reduced(r, e) = [r EXCEPT !.state = e.state, !.until = B!Boundary(e.state, trial, end),
                                    !.trial = trial, !.period = end]
    BY <1>6 DEF B!Reduced, B!OfSubscription
  <2>2. (trial # 0 => B!Given(trial)) /\ (end # 0 => B!Given(end))
    BY <1>2, <1>3, <1>4, <1>6 DEF B!Or
  <2> HIDE DEF trial, end
  <2>3. B!Boundary(e.state, trial, end) # 0 => B!Given(B!Boundary(e.state, trial, end))
    BY <2>2, BoundaryGiven
  <2>4. /\ B!Reduced(r, e).until = B!Boundary(e.state, trial, end)
        /\ B!Reduced(r, e).period = end /\ B!Reduced(r, e).trial = trial
    BY <2>1 DEF B!Entitlement
  <2> QED
    BY <2>2, <2>3, <2>4 DEF Paid
<1>7. CASE e.type = "paid"
  <2> DEFINE state == IF r.trial > e.created THEN "trialing" ELSE "active"
             end == B!Or(e.end, r.period)
             until == B!Boundary(state, r.trial, end)
  <2>1. B!Reduced(r, e) = [r EXCEPT !.state = state, !.period = end,
                                    !.until = B!Later(r.until, until)]
    BY <1>7 DEF B!Reduced, B!OfPayment
  <2>2. end # 0 => B!Given(end)
    BY <1>4, <1>7
  <2> HIDE DEF state, end
  <2>3. until # 0 => B!Given(until)
    BY <1>2, <2>2, BoundaryGiven
  <2> HIDE DEF until
  <2>4. B!Later(r.until, until) # 0 => B!Given(B!Later(r.until, until))
    BY <1>2, <2>3 DEF B!Later
  <2>5. /\ B!Reduced(r, e).until = B!Later(r.until, until)
        /\ B!Reduced(r, e).period = end /\ B!Reduced(r, e).trial = r.trial
    BY <2>1 DEF B!Entitlement
  <2> QED
    BY <1>2, <2>2, <2>4, <2>5 DEF Paid
<1>8. CASE e.type = "failed"
  <2>1. B!Reduced(r, e) = [r EXCEPT !.state = "past_due"]
    BY <1>8 DEF B!Reduced, B!OfFailure
  <2>2. /\ B!Reduced(r, e).until = r.until /\ B!Reduced(r, e).period = r.period
        /\ B!Reduced(r, e).trial = r.trial
    BY <2>1 DEF B!Entitlement
  <2> QED
    BY <1>2, <2>2 DEF Paid
<1>9. CASE e.type = "session"
  <2>1. B!Reduced(r, e) = r
    BY <1>9 DEF B!Reduced
  <2> QED
    BY <2>1
<1>10. e.type \in B!Type
  BY <1>1, EventFields
<1> QED
  BY <1>5, <1>6, <1>7, <1>8, <1>9, <1>10 DEF B!Type

LEMMA SaveStep ==
  ASSUME BillingInv, NEW w \in Webhooks, B!Save(w)
  PROVE  BillingInv'
<1> DEFINE i == webhook[w].event
           r == B!Stored(webhook[w].seen)
           next == B!Fenced(B!Reduced(r, emitted[i]), i)
<1>1. UNCHANGED <<pointers, made, remembered, invited, second, emitted, checkout>>
      /\ record' \in {record, next} /\ B!Hear(w, B!Idle)
  BY DEF B!Save, B!stripe
<1>2. webhook[w] \in B!Hook /\ i \in DOMAIN emitted /\ Paid(webhook[w].seen)
  BY DEF BillingInv, CallsOK, HookOK, B!Save, B!Idle
<1>3. emitted[i] \in B!Event /\ i \in 1..MaxEvents
  BY <1>2, AccessAssumption DEF BillingInv, StripeOK, B!BillingAssumption
<1>4. r \in B!Entitlement /\ Paid(r)
  <2>1. CASE webhook[w].seen = Absent
    BY <2>1, NewEntitlement DEF B!Stored, B!New, Paid
  <2>2. CASE webhook[w].seen # Absent
    BY <1>2, <2>2 DEF B!Stored, B!Hook
  <2> QED
    BY <2>1, <2>2
<1> HIDE DEF r
<1>5. PICK d \in B!Entitlement : d = B!Reduced(r, emitted[i]) /\ Paid(d)
  BY <1>2, <1>3, <1>4, ReducedType, ReducedPaid DEF BillingInv
<1>6. /\ next = [d EXCEPT !.last = i, !.fence = emitted[i].created, !.customer = emitted[i].customer]
      /\ emitted[i].created \in 1..MaxSecond /\ emitted[i].customer \in B!Customer
      /\ emitted[i].customer \in pointers
  BY <1>2, <1>3, <1>5, EventFields DEF B!Fenced, BillingInv, StripeOK
<1> HIDE DEF next, i
<1>7. /\ next \in B!Entitlement /\ next.customer \in pointers
      /\ next.until = d.until /\ next.period = d.period /\ next.trial = d.trial
  <2>1. i \in 0..MaxEvents /\ emitted[i].created \in 0..MaxSecond
    BY <1>3, <1>6, AccessAssumption DEF B!BillingAssumption
  <2> QED
    BY <1>6, <2>1 DEF B!Entitlement
<1>8. d # Absent
  BY AccessAssumption DEF B!BillingAssumption
<1>9. Paid(next)
  BY <1>5, <1>7, <1>8 DEF Paid
<1>10. RecordOK'
  <2>1. Paid(record)'
    BY <1>1, <1>9 DEF BillingInv, RecordOK, Paid, B!Given
  <2> QED
    BY <1>1, <1>7, <2>1 DEF BillingInv, RecordOK
<1>11. HookOK(w)'
  BY <1>1 DEF B!Hear, HookOK, BillingInv, CallsOK
<1>12. CallsOK'
  BY <1>1, <1>11, Unmoved, HookMoves DEF BillingInv
<1> QED
  BY <1>1, <1>10, <1>12 DEF BillingInv, StripeOK

LEMMA OpenCheckoutStep ==
  ASSUME BillingInv, NEW c \in Checkouts, B!OpenCheckout(c)
  PROVE  BillingInv'
<1>1. UNCHANGED <<record, pointers, made, remembered, invited, second, emitted, webhook>>
  BY DEF B!OpenCheckout, B!stripe
<1> DEFINE k == B!Stored(record).customer
           s == [pc |-> B!AfterGet(k), customer |-> k]
<1>2. k \in B!Customer \cup {Absent} /\ (k # Absent => k \in pointers)
  BY EntitlementFields, NewEntitlement DEF BillingInv, RecordOK, B!Stored, B!New
<1>3. B!Shops(c, s)
  BY DEF B!OpenCheckout
<1> HIDE DEF k
<1>4. s \in B!Shop /\ s.customer = k /\ s.pc = B!AfterGet(k)
  BY <1>2 DEF B!Shop, B!AfterGet
<1> HIDE DEF s
<1>5. checkout'[c] = s
  BY <1>3 DEF B!Shops, BillingInv, CallsOK
<1>6. ShopOK(c)'
  BY <1>1, <1>2, <1>4, <1>5 DEF ShopOK, B!AfterGet, BillingInv, StripeOK
<1>7. CallsOK'
  BY <1>1, <1>3, <1>4, <1>6, Unmoved, ShopMoves DEF BillingInv
<1>8. RecordOK'
  BY <1>1 DEF BillingInv, RecordOK, Paid, B!Given
<1> QED
  BY <1>1, <1>7, <1>8 DEF BillingInv, StripeOK

LEMMA CreateCustomerStep ==
  ASSUME BillingInv, NEW c \in Checkouts, B!CreateCustomer(c)
  PROVE  BillingInv'
<1>1. UNCHANGED <<record, pointers, invited, second, emitted, webhook>>
  BY DEF B!CreateCustomer
<1>2. PICK n \in B!Customer : made' = n /\ remembered' = TRUE
                              /\ B!Shops(c, [pc |-> "link", customer |-> n])
  BY DEF B!CreateCustomer, B!AfterCreate
<1>3. made' \in 0..Customers /\ remembered' \in BOOLEAN
  BY <1>2, AccessAssumption DEF B!Customer, B!BillingAssumption
<1> DEFINE s == [pc |-> "link", customer |-> n]
<1>4. s \in B!Shop /\ s.customer = n /\ s.pc = "link"
  BY DEF B!Shop
<1>5. B!Shops(c, s)
  BY <1>2
<1> HIDE DEF s
<1>6. checkout'[c] = s
  BY <1>5 DEF B!Shops, BillingInv, CallsOK
<1>7. ShopOK(c)'
  BY <1>4, <1>6 DEF ShopOK
<1>8. CallsOK'
  BY <1>1, <1>4, <1>5, <1>7, Unmoved, ShopMoves DEF BillingInv
<1>9. RecordOK'
  BY <1>1 DEF BillingInv, RecordOK, Paid, B!Given
<1> QED
  BY <1>1, <1>3, <1>8, <1>9 DEF BillingInv, StripeOK

\* The customer is linked before the record, or Stripe, is told of it.
LEMMA LinkCustomerStep ==
  ASSUME BillingInv, NEW c \in Checkouts, B!LinkCustomer(c)
  PROVE  BillingInv'
<1>1. UNCHANGED <<record, made, remembered, invited, second, emitted, webhook>>
      /\ pointers' = pointers \cup {checkout[c].customer}
      /\ B!Shops(c, [checkout[c] EXCEPT !.pc = "attach"])
  BY DEF B!LinkCustomer, B!stripe
<1>2. checkout[c] \in B!Shop /\ checkout[c].customer \in B!Customer
  BY DEF BillingInv, CallsOK, ShopOK, B!LinkCustomer, B!Idle
<1>3. PICK s \in B!Shop : s = [checkout[c] EXCEPT !.pc = "attach"]
  BY <1>2 DEF B!Shop
<1>4. s.pc = "attach" /\ s.customer = checkout[c].customer
  BY <1>2, <1>3 DEF B!Shop
<1>5. checkout'[c] = s
  BY <1>1, <1>3 DEF B!Shops, BillingInv, CallsOK
<1>6. ShopOK(c)'
  BY <1>1, <1>2, <1>4, <1>5 DEF ShopOK
<1>7. Grown
  BY <1>1 DEF Grown
<1>8. CallsOK'
  BY <1>1, <1>3, <1>6, <1>7, ShopMoves DEF BillingInv
<1>9. RecordOK'
  BY <1>1 DEF BillingInv, RecordOK, Paid, B!Given
<1>10. StripeOK'
  BY <1>1, <1>2 DEF BillingInv, StripeOK
<1> QED
  BY <1>8, <1>9, <1>10 DEF BillingInv

LEMMA AttachCustomerStep ==
  ASSUME BillingInv, NEW c \in Checkouts, B!AttachCustomer(c)
  PROVE  BillingInv'
<1>1. UNCHANGED <<pointers, made, remembered, invited, second, emitted, webhook>>
      /\ record' = B!Attached(checkout[c].customer)
      /\ B!Shops(c, [checkout[c] EXCEPT !.pc = "session"])
  BY DEF B!AttachCustomer, B!stripe
<1>2. checkout[c] \in B!Shop /\ checkout[c].customer \in pointers
  BY DEF BillingInv, CallsOK, ShopOK, B!AttachCustomer, B!Idle
<1>3. PICK s \in B!Shop : s = [checkout[c] EXCEPT !.pc = "session"]
  BY <1>2 DEF B!Shop
<1>4. s.pc = "session" /\ s.customer = checkout[c].customer
  BY <1>2, <1>3 DEF B!Shop
<1>5. checkout'[c] = s
  BY <1>1, <1>3 DEF B!Shops, BillingInv, CallsOK
<1>6. ShopOK(c)'
  BY <1>1, <1>2, <1>4, <1>5 DEF ShopOK, BillingInv, StripeOK
<1>7. CallsOK'
  BY <1>1, <1>3, <1>6, Unmoved, ShopMoves DEF BillingInv
<1>8. PICK r \in B!Entitlement : r = B!Stored(record) /\ Paid(r)
  BY NewEntitlement DEF B!Stored, BillingInv, RecordOK, Paid, B!New
<1>9. record' = [r EXCEPT !.customer = checkout[c].customer] /\ r # Absent
  BY <1>1, <1>8, AccessAssumption DEF B!Attached, B!BillingAssumption
<1>10. /\ record' \in B!Entitlement /\ record'.customer \in pointers
       /\ record'.until = r.until /\ record'.period = r.period /\ record'.trial = r.trial
  BY <1>2, <1>9 DEF B!Entitlement, BillingInv, StripeOK
<1>11. Paid(record)'
  BY <1>1, <1>8, <1>9, <1>10 DEF Paid, B!Given
<1>12. RecordOK'
  BY <1>1, <1>10, <1>11 DEF RecordOK
<1> QED
  BY <1>1, <1>7, <1>12 DEF BillingInv, StripeOK

LEMMA CreateSessionStep ==
  ASSUME BillingInv, NEW c \in Checkouts, B!CreateSession(c)
  PROVE  BillingInv'
<1>1. UNCHANGED <<record, pointers, made, remembered, second, emitted, webhook>>
      /\ invited' = invited \cup {checkout[c].customer} /\ B!Shops(c, B!Idle)
  BY DEF B!CreateSession
<1>2. checkout[c].customer \in pointers
  BY DEF BillingInv, CallsOK, ShopOK, B!CreateSession, B!Idle
<1>3. ShopOK(c)'
  BY <1>1 DEF B!Shops, ShopOK, BillingInv, CallsOK
<1>4. CallsOK'
  BY <1>1, <1>3, Unmoved, ShopMoves DEF BillingInv
<1>5. RecordOK'
  BY <1>1 DEF BillingInv, RecordOK, Paid, B!Given
<1> QED
  BY <1>1, <1>2, <1>4, <1>5 DEF BillingInv, StripeOK

LEMMA BillingCutOff ==
  ASSUME BillingInv, B!CutOff
  PROVE  BillingInv'
<1>1. UNCHANGED <<record, pointers, made, remembered, invited, second, emitted>>
  BY DEF B!CutOff, B!stripe
<1>2. ASSUME NEW w \in Webhooks, B!Hear(w, B!Idle), UNCHANGED checkout PROVE CallsOK'
  <2>1. HookOK(w)'
    BY <1>2 DEF B!Hear, HookOK, BillingInv, CallsOK
  <2> QED
    BY <1>1, <1>2, <2>1, Unmoved, HookMoves DEF BillingInv
<1>3. ASSUME NEW c \in Checkouts, B!Shops(c, B!Idle), UNCHANGED webhook PROVE CallsOK'
  <2>1. ShopOK(c)'
    BY <1>3 DEF B!Shops, ShopOK, BillingInv, CallsOK
  <2> QED
    BY <1>1, <1>3, <2>1, Unmoved, ShopMoves DEF BillingInv
<1>4. CallsOK'
  BY <1>2, <1>3 DEF B!CutOff
<1>5. RecordOK'
  BY <1>1 DEF BillingInv, RecordOK, Paid, B!Given
<1> QED
  BY <1>1, <1>4, <1>5 DEF BillingInv, StripeOK

LEMMA BillingStep == BillingInv /\ [B!Next]_(B!vars) => BillingInv'
<1> SUFFICES ASSUME BillingInv, [B!Next]_(B!vars) PROVE BillingInv'
  OBVIOUS
<1>1. CASE UNCHANGED B!vars
  <2>1. UNCHANGED <<record, pointers, made, remembered, invited, second, emitted, webhook, checkout>>
    BY <1>1 DEF B!vars, B!stripe
  <2>2. RecordOK' /\ CallsOK'
    BY <2>1, Unmoved, Standing
  <2> QED
    BY <2>1, <2>2 DEF BillingInv, StripeOK
<1> QED
  BY <1>1, ForgetStep, EmitStep, BillingCutOff, DeliverStep, GetStep, SaveStep, OpenCheckoutStep,
     CreateCustomerStep, LinkCustomerStep, AttachCustomerStep, CreateSessionStep DEF B!Next

LEMMA BillingInit == B!Init => BillingInv
<1> SUFFICES ASSUME B!Init PROVE BillingInv
  OBVIOUS
<1>1. RecordOK
  BY DEF B!Init, RecordOK, Paid
<1>2. StripeOK
  <2>1. /\ pointers = {} /\ invited = {} /\ made = 0 /\ remembered = FALSE /\ second = 1
        /\ emitted = <<>>
    BY DEF B!Init
  <2>2. emitted \in Seq(B!Event) /\ Len(emitted) = 0 /\ DOMAIN emitted = {}
    BY <2>1
  <2>3. Customers \in Nat /\ MaxEvents \in Nat /\ MaxSecond \in Nat \ {0}
    BY AccessAssumption DEF B!BillingAssumption
  <2>4. made \in 0..Customers /\ second \in 1..MaxSecond /\ Len(emitted) <= MaxEvents
    BY <2>1, <2>2, <2>3
  <2> QED
    BY <2>1, <2>2, <2>4 DEF StripeOK
<1>3. CallsOK
  BY DEF B!Init, CallsOK, HookOK, ShopOK
<1> QED
  BY <1>1, <1>2, <1>3 DEF BillingInv

LEMMA BillingHolds ==
  BillingInv => B!TypeOK /\ B!NoEventUnattributed /\ B!NothingUnpaid
BY DEF BillingInv, RecordOK, StripeOK, CallsOK, Paid, B!TypeOK, B!NoEventUnattributed,
       B!NothingUnpaid

LEMMA SavedType ==
  ASSUME BillingInv, NEW w \in Webhooks, webhook[w].pc = "save", NEW next,
         next = B!Fenced(B!Reduced(B!Stored(webhook[w].seen), emitted[webhook[w].event]),
                         webhook[w].event)
  PROVE  next # Absent
<1> DEFINE i == webhook[w].event
<1>1. webhook[w] \in B!Hook /\ i \in DOMAIN emitted
  BY DEF BillingInv, CallsOK, HookOK, B!Idle
<1>2. emitted[i] \in B!Event /\ i \in 1..MaxEvents
  BY <1>1, AccessAssumption DEF BillingInv, StripeOK, B!BillingAssumption
<1>3. B!Stored(webhook[w].seen) \in B!Entitlement
  BY <1>1, NewEntitlement DEF B!Stored, B!Hook
<1>4. PICK d \in B!Entitlement : d = B!Reduced(B!Stored(webhook[w].seen), emitted[i])
  BY <1>2, <1>3, ReducedType
<1>5. next = [d EXCEPT !.last = i, !.fence = emitted[i].created, !.customer = emitted[i].customer]
  BY <1>4 DEF B!Fenced
<1>6. /\ i \in 0..MaxEvents /\ emitted[i].created \in 0..MaxSecond
      /\ emitted[i].customer \in B!Customer
  BY <1>2, EventFields, AccessAssumption DEF B!BillingAssumption
<1> HIDE DEF i
<1>7. next \in B!Entitlement
  BY <1>5, <1>6 DEF B!Entitlement
<1> QED
  BY <1>7, AccessAssumption DEF B!BillingAssumption

\* What a step of Billing may not do.
LEMMA BillingRises ==
  ASSUME BillingInv, [B!Next]_(B!vars)
  PROVE  /\ record # Absent => record' # Absent /\ record'.fence >= record.fence
         /\ webhook' = webhook => /\ B!Stored(record').state = B!Stored(record).state
                                  /\ B!Stored(record').until = B!Stored(record).until
<1>1. BillingInv'
  BY BillingStep
<1>2. record # Absent => record \in B!Entitlement /\ record.fence \in 0..MaxSecond
  BY EntitlementFields DEF BillingInv, RecordOK
<1>3. record' # Absent => record' \in B!Entitlement
  BY <1>1 DEF BillingInv, RecordOK
<1>4. CASE UNCHANGED record
  BY <1>2, <1>4
<1>5. ASSUME NEW w \in Webhooks, B!Save(w), record' # record
      PROVE  /\ record' # Absent /\ (record # Absent => record'.fence >= record.fence)
             /\ webhook' # webhook
  <2>1. PICK next :
          /\ next = B!Fenced(B!Reduced(B!Stored(webhook[w].seen), emitted[webhook[w].event]),
                             webhook[w].event)
          /\ record' = next /\ B!MaySave(next)
    BY <1>5 DEF B!Save
  <2>2. webhook[w].pc = "save" /\ B!Hear(w, B!Idle)
    BY <1>5 DEF B!Save
  <2>3. webhook' # webhook
    BY <2>2 DEF B!Hear, B!Idle, BillingInv, CallsOK
  <2>4. record' # Absent
    BY <2>1, <2>2, SavedType
  <2> QED
    BY <2>1, <2>3, <2>4 DEF B!MaySave
<1>6. ASSUME NEW c \in Checkouts, B!AttachCustomer(c)
      PROVE  /\ record' # Absent /\ (record # Absent => record'.fence = record.fence)
             /\ B!Stored(record').state = B!Stored(record).state
             /\ B!Stored(record').until = B!Stored(record).until
  <2>1. record' = [B!Stored(record) EXCEPT !.customer = checkout[c].customer]
    BY <1>6 DEF B!AttachCustomer, B!Attached
  <2>2. B!Stored(record) \in B!Entitlement /\ (record # Absent => B!Stored(record) = record)
    BY <1>2, NewEntitlement DEF B!Stored
  <2>3. checkout[c].customer \in B!Customer
    BY <1>6 DEF BillingInv, CallsOK, ShopOK, B!AttachCustomer, B!Idle
  <2>4. PICK r \in B!Entitlement : r = B!Stored(record)
    BY <2>2
  <2>5. /\ record' \in B!Entitlement /\ record'.fence = r.fence /\ record'.state = r.state
        /\ record'.until = r.until
    BY <2>1, <2>3, <2>4 DEF B!Entitlement
  <2>6. record' # Absent /\ B!Stored(record') = record'
    BY <2>5, AccessAssumption DEF B!Stored, B!BillingAssumption
  <2> QED
    BY <2>2, <2>4, <2>5, <2>6
<1>7. \/ UNCHANGED record
      \/ \E w \in Webhooks : B!Save(w)
      \/ \E c \in Checkouts : B!AttachCustomer(c)
  BY DEF B!Next, B!vars, B!Forget, B!NextSecond, B!Emit, B!CutOff, B!Deliver, B!GetEntitlement,
         B!OpenCheckout, B!CreateCustomer, B!LinkCustomer, B!CreateSession
<1> QED
  BY <1>2, <1>4, <1>5, <1>6, <1>7

-----------------------------------------------------------------------------
(* Administered access.  A login that enters either found the owner entered *)
(* or is the owner's; a mutation that is about to write a grant knows       *)
(* whether the person was listed; and the audit rows of a person are one    *)
(* for every version of the grant.                                          *)

TablesOK ==
  /\ owner \in BOOLEAN /\ mapped \subseteq People /\ evidence \subseteq People
  /\ directory \in [People -> A!Lifecycle]
  /\ identity \in [People -> Nat \cup {None}]

GrantsOK ==
  /\ grant \in [People -> A!Grant]
  /\ audits \in [Keys -> A!Audit \cup {None}]
  /\ answers \subseteq A!Answer

LoginOK(l) == (l.owner => owner) /\ (l.pc = "enter" => l.owner \/ l.person = Owner)

Listed(l) == l.pc = "write" \/ (l.pc = "replay" /\ l.op # "grant")
MutationOK(l) == Listed(l) /\ ~l.fresh => directory[l.person] # "none"

TaskOK(r) ==
  \/ task[r] = A!Idle
  \/ task[r] \in A!Login /\ LoginOK(task[r])
  \/ task[r] \in A!Mutation /\ MutationOK(task[r])

TasksOK ==
  /\ task \in [Requests -> A!Login \cup A!Mutation \cup {A!Idle}]
  /\ \A r \in Requests : TaskOK(r)

Audited(p, v) == \E k \in Keys : /\ audits[k] # None
                                 /\ audits[k].person = p /\ audits[k].version = v
AllAudited(p) == \A v \in 1..grant[p].version : Audited(p, v)
WithinGrant(p) ==
  \A k \in Keys : audits[k] # None /\ audits[k].person = p
    => /\ audits[k].version \in 1..grant[p].version
       /\ audits[k].version = grant[p].version => audits[k].active = grant[p].active
NoTwoAlike(p) ==
  \A j, k \in Keys :
    audits[j] # None /\ audits[k] # None /\ audits[j].person = p /\ audits[k].person = p
      /\ audits[j].version = audits[k].version => j = k
History(p) == AllAudited(p) /\ WithinGrant(p) /\ NoTwoAlike(p)

AdminInv ==
  /\ TablesOK /\ GrantsOK /\ TasksOK
  /\ A!EnteredWhole /\ A!AnswersAreAudited
  /\ \A p \in People : History(p)

\* Whom the directory lists stays listed, and the owner stays entered.
Kept == /\ owner => owner'
        /\ \A p \in People : directory[p] # "none" => directory'[p] # "none"

LEMMA TaskMoves ==
  ASSUME TasksOK, Kept, NEW r \in Requests,
         NEW l \in A!Login \cup A!Mutation \cup {A!Idle}, A!Become(r, l), TaskOK(r)'
  PROVE  TasksOK'
<1>1. task' \in [Requests -> A!Login \cup A!Mutation \cup {A!Idle}]
      /\ \A s \in Requests : s # r => task'[s] = task[s]
  BY DEF TasksOK, A!Become
<1>2. ASSUME NEW s \in Requests, s # r PROVE TaskOK(s)'
  <2>1. task'[s] = task[s] /\ TaskOK(s)
    BY <1>1, <1>2 DEF TasksOK
  <2>2. task[s] \in A!Mutation => task[s].person \in People
    BY DEF A!Mutation
  <2>3. task[s] \in A!Mutation /\ MutationOK(task[s]) => MutationOK(task[s])'
    BY <2>1, <2>2 DEF MutationOK, Listed, Kept
  <2>4. task[s] \in A!Login /\ LoginOK(task[s]) => LoginOK(task[s])'
    BY <2>1 DEF LoginOK, Kept
  <2> QED
    BY <2>1, <2>3, <2>4 DEF TaskOK
<1> QED
  BY <1>1, <1>2 DEF TasksOK

LEMMA TaskPlaced ==
  ASSUME TasksOK, NEW r \in Requests, NEW l, A!Become(r, l)
  PROVE  task'[r] = l
BY DEF TasksOK, A!Become

\* A step that writes no row.
LEMMA Reading ==
  ASSUME AdminInv, NEW r \in Requests, NEW l \in A!Login \cup A!Mutation \cup {A!Idle},
         A!Become(r, l), UNCHANGED <<owner, directory, identity, mapped, evidence>>,
         UNCHANGED <<grant, audits, answers>>,
         \/ l = A!Idle
         \/ l \in A!Login /\ LoginOK(l)
         \/ l \in A!Mutation /\ MutationOK(l)
  PROVE  AdminInv'
<1>1. task'[r] = l
  BY TaskPlaced DEF AdminInv
<1>2. TaskOK(r)'
  BY <1>1 DEF TaskOK, LoginOK, MutationOK, Listed
<1>3. TasksOK'
  BY <1>2, TaskMoves DEF AdminInv, Kept
<1>4. TablesOK' /\ GrantsOK' /\ A!EnteredWhole' /\ A!AnswersAreAudited'
  BY DEF AdminInv, TablesOK, GrantsOK, A!EnteredWhole, A!AnswersAreAudited
<1>5. ASSUME NEW p \in People PROVE History(p)'
  BY DEF AdminInv, History, AllAudited, WithinGrant, NoTwoAlike, Audited
<1> QED
  BY <1>3, <1>4, <1>5 DEF AdminInv

LEMMA PlaceOfTask ==
  ASSUME AdminInv, NEW r \in Requests
  PROVE  /\ task[r].pc \in {"allowed", "read", "enter", "return", "recheck"}
              => task[r] \in A!Login /\ LoginOK(task[r])
         /\ task[r].pc \in {"item", "replay", "write", "again"}
              => task[r] \in A!Mutation /\ MutationOK(task[r])
BY DEF AdminInv, TasksOK, TaskOK, A!Idle, A!Login, A!Mutation

LEMMA LoginFields ==
  ASSUME NEW l \in A!Login
  PROVE  /\ l.person \in People /\ l.todo \subseteq A!Read /\ l.directory \in A!Lifecycle
         /\ l.identity \in Nat \cup {None} /\ l.owner \in BOOLEAN
BY DEF A!Login

LEMMA MutationFields ==
  ASSUME NEW l \in A!Mutation
  PROVE  /\ l.op \in A!Action /\ l.person \in People /\ l.key \in Keys
         /\ l.expected \in 0..MaxGrants /\ l.fresh \in BOOLEAN /\ l.seen \in A!Grant
BY DEF A!Mutation

LEMMA BeginLoginStep ==
  ASSUME AdminInv, NEW r \in Requests, A!BeginLogin(r)
  PROVE  AdminInv'
<1>1. PICK p \in People :
        A!Become(r, [pc |-> "allowed", person |-> p, todo |-> A!Read, directory |-> "none",
                     identity |-> None, owner |-> FALSE])
  BY DEF A!BeginLogin
<1> DEFINE l == [pc |-> "allowed", person |-> p, todo |-> A!Read, directory |-> "none",
                 identity |-> None, owner |-> FALSE]
<1>2. l \in A!Login /\ LoginOK(l)
  BY DEF A!Login, A!Lifecycle, A!Read, LoginOK
<1> QED
  BY <1>1, <1>2, Reading DEF A!BeginLogin, A!login, A!grants

LEMMA AssertAllowedStep ==
  ASSUME AdminInv, NEW r \in Requests, A!AssertAllowed(r)
  PROVE  AdminInv'
<1>1. task[r] \in A!Login /\ LoginOK(task[r])
  BY PlaceOfTask DEF A!AssertAllowed, A!Step
<1>2. PICK l : A!Become(r, l) /\ (l = A!Idle \/ l = [task[r] EXCEPT !.pc = "read"])
  BY DEF A!AssertAllowed
<1>3. l = A!Idle \/ (l \in A!Login /\ LoginOK(l))
  BY <1>1, <1>2 DEF A!Login, LoginOK
<1> QED
  BY <1>2, <1>3, Reading DEF A!AssertAllowed, A!login, A!grants

LEMMA ReadRowStep ==
  ASSUME AdminInv, NEW r \in Requests, A!ReadRow(r)
  PROVE  AdminInv'
<1>1. task[r] \in A!Login /\ LoginOK(task[r]) /\ task[r].person \in People /\ task[r].pc = "read"
  BY PlaceOfTask, LoginFields DEF A!ReadRow, A!Step
<1>a. PICK row \in task[r].todo : \E m :
        /\ A!Become(r, [m EXCEPT !.todo = @ \ {row}])
        /\ \/ row = "directory" /\ m = [task[r] EXCEPT !.directory = directory[task[r].person]]
           \/ row = "identity" /\ m = [task[r] EXCEPT !.identity = identity[task[r].person]]
           \/ row = "owner" /\ m = [task[r] EXCEPT !.owner = owner]
  <2>1. task[r].todo \subseteq {"directory", "identity", "owner"}
    BY <1>1, LoginFields DEF A!Read
  <2> QED
    BY <2>1 DEF A!ReadRow
<1>2. PICK m :
        /\ A!Become(r, [m EXCEPT !.todo = @ \ {row}])
        /\ \/ row = "directory" /\ m = [task[r] EXCEPT !.directory = directory[task[r].person]]
           \/ row = "identity" /\ m = [task[r] EXCEPT !.identity = identity[task[r].person]]
           \/ row = "owner" /\ m = [task[r] EXCEPT !.owner = owner]
  BY <1>a
<1>3. m \in A!Login /\ LoginOK(m)
  <2>1. /\ directory[task[r].person] \in A!Lifecycle
        /\ identity[task[r].person] \in Nat \cup {None} /\ owner \in BOOLEAN
    BY <1>1 DEF AdminInv, TablesOK
  <2>2. m \in A!Login /\ m.pc = "read" /\ (m.owner => owner)
    BY <1>1, <1>2, <2>1 DEF A!Login, LoginOK
  <2> QED
    BY <2>2 DEF LoginOK
<1>4. PICK l : l = [m EXCEPT !.todo = @ \ {row}]
  OBVIOUS
<1>5. l \in A!Login /\ LoginOK(l)
  <2>1. m.todo \ {row} \in SUBSET A!Read
    BY <1>3, LoginFields
  <2> QED
    BY <1>3, <1>4, <2>1 DEF A!Login, LoginOK
<1> QED
  BY <1>2, <1>4, <1>5, Reading DEF A!ReadRow, A!login, A!grants

LEMMA DecideStep ==
  ASSUME AdminInv, NEW r \in Requests, A!Decide(r)
  PROVE  AdminInv'
<1>1. task[r] \in A!Login /\ LoginOK(task[r])
  BY PlaceOfTask DEF A!Decide, A!Step
<1>2. PICK l : /\ A!Become(r, l)
               /\ \/ l = A!Idle
                  \/ A!Admits(task[r].person, task[r].owner) /\ l = [task[r] EXCEPT !.pc = "enter"]
                  \/ l = [task[r] EXCEPT !.pc = "return"]
  BY DEF A!Decide
<1>3. l = A!Idle \/ (l \in A!Login /\ LoginOK(l))
  <2>1. ASSUME A!Admits(task[r].person, task[r].owner), l = [task[r] EXCEPT !.pc = "enter"]
        PROVE  l \in A!Login /\ LoginOK(l)
    BY <1>1, <2>1 DEF A!Admits, A!Login, LoginOK
  <2>2. ASSUME l = [task[r] EXCEPT !.pc = "return"] PROVE l \in A!Login /\ LoginOK(l)
    BY <1>1, <2>2 DEF A!Login, LoginOK
  <2> QED
    BY <1>2, <2>1, <2>2
<1> QED
  BY <1>2, <1>3, Reading DEF A!Decide, A!login, A!grants

LEMMA GivesUp ==
  ASSUME AdminInv, NEW r \in Requests, A!Recheck(r) \/ A!CutOff(r)
  PROVE  AdminInv'
BY Reading DEF A!Recheck, A!CutOff, A!login, A!grants

\* A login that returns writes the token version it has just compared.
LEMMA ReturnStep ==
  ASSUME AdminInv, NEW r \in Requests, A!Return(r)
  PROVE  AdminInv' /\ identity' = identity
<1>1. task[r] \in A!Login /\ task[r].person \in People
  BY PlaceOfTask, LoginFields DEF A!Return, A!Step
<1>2. identity' = identity
  BY <1>1 DEF A!Return, A!SameVersion, AdminInv, TablesOK
<1> QED
  BY <1>2, Reading DEF A!Return, A!grants

LEMMA EnterStep ==
  ASSUME AdminInv, NEW r \in Requests, A!Enter(r)
  PROVE  AdminInv'
<1> DEFINE p == task[r].person
<1>1. task[r] \in A!Login /\ LoginOK(task[r]) /\ task[r].pc = "enter" /\ p \in People
  BY PlaceOfTask, LoginFields DEF A!Enter, A!Step
<1>2. UNCHANGED <<grant, audits, answers>>
  BY DEF A!Enter, A!grants
<1>3. CASE ~A!MayEnter(task[r])
  <2>1. PICK l \in A!Login : l = [task[r] EXCEPT !.pc = "recheck"]
    BY <1>1 DEF A!Login
  <2>2. LoginOK(l)
    BY <1>1, <2>1 DEF A!Login, LoginOK
  <2> QED
    BY <1>2, <1>3, <2>1, <2>2, Reading DEF A!Enter, A!login
<1>4. CASE A!MayEnter(task[r])
  <2>1. /\ identity' = [identity EXCEPT ![p] = 0] /\ directory' = [directory EXCEPT ![p] = "active"]
        /\ mapped' = mapped \cup {p} /\ evidence' = evidence \cup {p} /\ owner' = TRUE
        /\ A!Become(r, A!Idle)
    BY <1>4 DEF A!Enter
  <2>2. (~task[r].owner => ~owner) /\ identity[p] = None
    BY <1>4 DEF A!MayEnter
  <2>3. TablesOK'
    BY <1>1, <2>1 DEF AdminInv, TablesOK, A!Lifecycle
  <2>4. GrantsOK' /\ A!AnswersAreAudited'
    BY <1>2 DEF AdminInv, GrantsOK, A!AnswersAreAudited
  <2>5. Kept
    BY <1>1, <2>1 DEF Kept, AdminInv, TablesOK
  <2>6. TasksOK'
    BY <2>1, <2>5, TaskPlaced, TaskMoves DEF AdminInv, TaskOK
  <2>7. A!EnteredWhole'
    <3>1. None \notin Nat /\ Owner \in People
      BY AccessAssumption DEF A!AdminAssumption
    <3>2. identity'[Owner] # None
      <4>1. CASE p = Owner
        BY <1>1, <2>1, <3>1, <4>1 DEF AdminInv, TablesOK
      <4>2. CASE p # Owner
        <5>1. owner /\ identity[Owner] # None
          BY <1>1, <4>2 DEF LoginOK, AdminInv, A!EnteredWhole
        <5> QED
          BY <2>1, <3>1, <4>2, <5>1 DEF AdminInv, TablesOK
      <4> QED
        BY <4>1, <4>2
    <3>3. ASSUME NEW q \in People
          PROVE  /\ (identity'[q] # None) = (directory'[q] = "active")
                 /\ (identity'[q] # None) = (q \in mapped')
                 /\ (identity'[q] # None) = (q \in evidence')
                 /\ grant'[q] # A!NoGrant => directory'[q] # "none"
      <4>1. CASE q = p
        BY <2>1, <3>1, <4>1 DEF AdminInv, TablesOK
      <4>2. CASE q # p
        <5>1. identity'[q] = identity[q] /\ directory'[q] = directory[q] /\ grant'[q] = grant[q]
              /\ (q \in mapped' <=> q \in mapped) /\ (q \in evidence' <=> q \in evidence)
          BY <1>2, <2>1, <4>2 DEF AdminInv, TablesOK
        <5> QED
          BY <5>1 DEF AdminInv, A!EnteredWhole
      <4> QED
        BY <4>1, <4>2
    <3> QED
      BY <2>1, <3>2, <3>3 DEF A!EnteredWhole
  <2>8. ASSUME NEW q \in People PROVE History(q)'
    BY <1>2 DEF AdminInv, History, AllAudited, WithinGrant, NoTwoAlike, Audited
  <2> QED
    BY <2>3, <2>4, <2>6, <2>7, <2>8 DEF AdminInv
<1> QED
  BY <1>3, <1>4

LEMMA SignOutStep ==
  ASSUME AdminInv, NEW p \in People, A!SignOut(p)
  PROVE  AdminInv'
<1>1. UNCHANGED <<owner, directory, mapped, evidence, grant, audits, answers, task>>
      /\ identity' = [identity EXCEPT ![p] = @ + 1] /\ identity[p] # None
  BY DEF A!SignOut, A!grants
<1>2. PICK v \in Nat : identity' = [identity EXCEPT ![p] = v]
  <2>1. identity[p] \in Nat
    BY <1>1 DEF AdminInv, TablesOK
  <2>2. PICK v \in Nat : v = identity[p] + 1
    BY <2>1
  <2> QED
    BY <1>1, <2>2
<1>3. ASSUME NEW q \in People
      PROVE  identity'[q] \in Nat \cup {None} /\ (identity'[q] # None <=> identity[q] # None)
  BY <1>1, <1>2, AccessAssumption DEF AdminInv, TablesOK, A!AdminAssumption
<1>4. TablesOK'
  BY <1>1, <1>2 DEF AdminInv, TablesOK
<1>5. GrantsOK' /\ A!AnswersAreAudited'
  BY <1>1 DEF AdminInv, GrantsOK, A!AnswersAreAudited
<1>6. A!EnteredWhole'
  <2>1. Owner \in People
    BY AccessAssumption DEF A!AdminAssumption
  <2>2. ASSUME NEW q \in People
        PROVE  /\ (identity'[q] # None) = (directory'[q] = "active")
               /\ (identity'[q] # None) = (q \in mapped')
               /\ (identity'[q] # None) = (q \in evidence')
               /\ grant'[q] # A!NoGrant => directory'[q] # "none"
               /\ identity'[q] # None => owner'
    BY <1>1, <1>3 DEF AdminInv, A!EnteredWhole
  <2>3. owner' = (identity'[Owner] # None)
    BY <1>1, <1>3, <2>1 DEF AdminInv, A!EnteredWhole
  <2> QED
    BY <2>2, <2>3 DEF A!EnteredWhole
<1>7. TasksOK'
  <2>1. ASSUME NEW s \in Requests PROVE TaskOK(s)'
    BY <1>1 DEF AdminInv, TasksOK, TaskOK, LoginOK, MutationOK, Listed
  <2> QED
    BY <1>1, <2>1 DEF AdminInv, TasksOK
<1>8. ASSUME NEW q \in People PROVE History(q)'
  BY <1>1 DEF AdminInv, History, AllAudited, WithinGrant, NoTwoAlike, Audited
<1> QED
  BY <1>4, <1>5, <1>6, <1>7, <1>8 DEF AdminInv

LEMMA BeginMutationStep ==
  ASSUME AdminInv, NEW r \in Requests, A!BeginMutation(r)
  PROVE  AdminInv'
<1>1. PICK op \in A!Action, p \in People, k \in Keys, v \in 0..(MaxGrants - 1) :
        A!Become(r, [pc |-> IF op = "grant" THEN "replay" ELSE "item", op |-> op,
                     person |-> p, key |-> k, expected |-> v, fresh |-> FALSE,
                     seen |-> A!NoGrant])
  BY DEF A!BeginMutation
<1> DEFINE l == [pc |-> IF op = "grant" THEN "replay" ELSE "item", op |-> op,
                 person |-> p, key |-> k, expected |-> v, fresh |-> FALSE,
                 seen |-> A!NoGrant]
<1>2. v \in 0..MaxGrants /\ A!NoGrant \in A!Grant
  BY AccessAssumption DEF A!AdminAssumption, A!NoGrant, A!Grant
<1>3. l \in A!Mutation
  BY <1>2 DEF A!Mutation
<1>4. MutationOK(l)
  BY DEF MutationOK, Listed
<1> HIDE DEF l
<1> QED
  BY <1>1, <1>3, <1>4, Reading DEF A!BeginMutation, A!login, A!grants, l

LEMMA ReadItemStep ==
  ASSUME AdminInv, NEW r \in Requests, A!ReadItem(r)
  PROVE  AdminInv'
<1>1. task[r] \in A!Mutation
  BY PlaceOfTask DEF A!ReadItem, A!Step
<1> DEFINE p == task[r].person
           fresh == directory[p] = "none"
           pc == IF task[r].op = "grant" THEN "write" ELSE "replay"
<1>2. p \in People /\ grant[p] \in A!Grant
  BY <1>1, MutationFields DEF AdminInv, GrantsOK
<1>3. PICK l : A!Become(r, l) /\ (l = A!Idle \/ l = [task[r] EXCEPT !.pc = pc, !.fresh = fresh,
                                                                    !.seen = grant[p]])
  BY DEF A!ReadItem
<1>4. ASSUME l # A!Idle PROVE l \in A!Mutation /\ MutationOK(l)
  <2>1. fresh \in BOOLEAN /\ pc \in {"item", "replay", "write", "again"}
    OBVIOUS
  <2>2. fresh <=> directory[p] = "none"
    OBVIOUS
  <2> HIDE DEF fresh, pc
  <2>3. l \in A!Mutation /\ l.person = p /\ (l.fresh <=> fresh)
    BY <1>1, <1>2, <1>3, <1>4, <2>1 DEF A!Mutation
  <2> QED
    BY <2>2, <2>3 DEF MutationOK
<1> QED
  BY <1>3, <1>4, Reading DEF A!ReadItem, A!login, A!grants

\* An answer from the audit row says what the row says.
LEMMA AnswerReplayStep ==
  ASSUME AdminInv, NEW r \in Requests, task[r] \in A!Mutation, audits[task[r].key] # None,
         A!AnswerReplay(r), UNCHANGED <<owner, directory, identity, mapped, evidence>>,
         UNCHANGED <<grant, audits>>
  PROVE  AdminInv'
<1> DEFINE k == task[r].key
           a == audits[k]
           n == A!Answered(task[r], a.version)
<1>1. a \in A!Audit /\ k \in Keys
  BY MutationFields DEF AdminInv, GrantsOK
<1>2. A!Become(r, A!Idle) /\ answers' \in {answers, answers \cup {n}}
      /\ (answers' # answers => A!Replays(task[r]))
  BY DEF A!AnswerReplay
<1>3. TasksOK'
  BY <1>2, TaskPlaced, TaskMoves DEF AdminInv, TaskOK, Kept
<1>4. CASE UNCHANGED answers
  <2>1. TablesOK' /\ GrantsOK' /\ A!EnteredWhole' /\ A!AnswersAreAudited'
    BY <1>4 DEF AdminInv, TablesOK, GrantsOK, A!EnteredWhole, A!AnswersAreAudited
  <2>2. ASSUME NEW p \in People PROVE History(p)'
    BY DEF AdminInv, History, AllAudited, WithinGrant, NoTwoAlike, Audited
  <2> QED
    BY <1>3, <2>1, <2>2 DEF AdminInv
<1>5. CASE A!Replays(task[r]) /\ answers' = answers \cup {n}
  <2>1. a.active = A!Asked(task[r]) /\ a.person = task[r].person
    BY <1>5 DEF A!Replays
  <2>2. a.version \in 1..MaxGrants /\ a.active \in BOOLEAN /\ a.person \in People
    BY <1>1 DEF A!Audit
  <2>3. n = [key |-> k, active |-> a.active, person |-> a.person, version |-> a.version]
    BY <2>1 DEF A!Answered
  <2>4. a = [active |-> a.active, person |-> a.person, version |-> a.version]
    BY <1>1 DEF A!Audit
  <2> HIDE DEF a, k
  <2>5. n \in A!Answer /\ n.key = k /\ n.active = a.active /\ n.person = a.person
        /\ n.version = a.version
    BY <1>1, <2>2, <2>3 DEF A!Answer
  <2> HIDE DEF n
  <2>6. TablesOK' /\ GrantsOK' /\ A!EnteredWhole'
    BY <1>5, <2>5 DEF AdminInv, TablesOK, GrantsOK, A!EnteredWhole
  <2>7. audits[n.key] = [active |-> n.active, person |-> n.person, version |-> n.version]
    BY <2>4, <2>5 DEF a
  <2>8. A!AnswersAreAudited'
    BY <1>5, <2>7 DEF AdminInv, A!AnswersAreAudited
  <2>9. ASSUME NEW p \in People PROVE History(p)'
    BY DEF AdminInv, History, AllAudited, WithinGrant, NoTwoAlike, Audited
  <2> QED
    BY <1>3, <2>6, <2>8, <2>9 DEF AdminInv
<1> QED
  BY <1>2, <1>4, <1>5

LEMMA ReplaySteps ==
  ASSUME AdminInv, NEW r \in Requests, A!Replay(r) \/ A!ReplayAgain(r)
  PROVE  AdminInv'
<1>1. task[r] \in A!Mutation /\ MutationOK(task[r])
  BY PlaceOfTask DEF A!Replay, A!ReplayAgain, A!Step
<1>2. UNCHANGED <<owner, directory, identity, mapped, evidence>> /\ UNCHANGED <<grant, audits>>
  BY DEF A!Replay, A!ReplayAgain, A!login
<1>3. CASE audits[task[r].key] # None
  BY <1>1, <1>2, <1>3, AnswerReplayStep DEF A!Replay, A!ReplayAgain
<1>4. CASE audits[task[r].key] = None
  <2>1. PICK l : /\ A!Become(r, l) /\ UNCHANGED answers
                 /\ \/ l = A!Idle
                    \/ A!Step(r, "replay") /\ task[r].op = "grant" /\ l = [task[r] EXCEPT !.pc = "item"]
                    \/ A!Step(r, "replay") /\ task[r].op # "grant" /\ l = [task[r] EXCEPT !.pc = "write"]
    BY <1>4 DEF A!Replay, A!ReplayAgain
  <2>2. l = A!Idle \/ (l \in A!Mutation /\ MutationOK(l))
    BY <1>1, <2>1 DEF A!Mutation, MutationOK, Listed, A!Step
  <2> QED
    BY <1>2, <2>1, <2>2, Reading
<1> QED
  BY <1>3, <1>4

\* The transaction adds the next version of the grant, its audit row and its
\* answer; who was not listed is listed.
LEMMA WriteStep ==
  ASSUME AdminInv, NEW r \in Requests, A!Write(r)
  PROVE  AdminInv'
<1> DEFINE p == task[r].person
           k == task[r].key
           on == A!Asked(task[r])
           fresh == task[r].fresh
<1>1. task[r] \in A!Mutation /\ MutationOK(task[r]) /\ task[r].pc = "write"
  BY PlaceOfTask DEF A!Write, A!Step
<1>2. p \in People /\ k \in Keys /\ fresh \in BOOLEAN /\ task[r].seen.version \in 0..MaxGrants
      /\ on \in BOOLEAN
  BY <1>1, MutationFields DEF A!Grant, A!Asked
<1>3. UNCHANGED <<owner, identity, mapped, evidence>>
  BY DEF A!Write
<1>4. CASE ~A!Transaction(task[r])
  <2>1. PICK l \in A!Mutation : l = [task[r] EXCEPT !.pc = "again"]
    BY <1>1 DEF A!Mutation
  <2>2. MutationOK(l)
    BY <1>1, <2>1 DEF A!Mutation, MutationOK, Listed
  <2> QED
    BY <1>3, <1>4, <2>1, <2>2, Reading DEF A!Write, A!grants
<1>5. CASE A!Transaction(task[r])
  <2>1. PICK v : v = task[r].seen.version + 1
    OBVIOUS
  <2>2. /\ v <= MaxGrants
        /\ grant' = [grant EXCEPT ![p] = [version |-> v, active |-> on]]
        /\ audits' = [audits EXCEPT ![k] = [active |-> on, person |-> p, version |-> v]]
        /\ answers' = answers \cup {[key |-> k, active |-> on, person |-> p, version |-> v]}
        /\ directory' = IF fresh THEN [directory EXCEPT ![p] = "pending"] ELSE directory
        /\ A!Become(r, A!Idle)
    BY <1>5, <2>1 DEF A!Write, A!Answered
  <2>3. /\ audits[k] = None /\ grant[p].version = task[r].seen.version
        /\ fresh => directory[p] = "none"
    BY <1>5 DEF A!Transaction
  <2>4. ~fresh => directory[p] # "none"
    BY <1>1 DEF MutationOK, Listed
  <2> HIDE DEF p, k, on, fresh
  <2>5. v \in 1..MaxGrants /\ grant[p].version = v - 1
    BY <1>2, <2>1, <2>2, <2>3, AccessAssumption DEF A!AdminAssumption
  <2>5a. v \in 0..MaxGrants
    BY <2>5
  <2>6a. PICK g \in A!Grant : g = [version |-> v, active |-> on]
    BY <1>2, <2>5a DEF A!Grant
  <2>6b. PICK a \in A!Audit : a = [active |-> on, person |-> p, version |-> v]
    BY <1>2, <2>5 DEF A!Audit
  <2>6. PICK n \in A!Answer : n = [key |-> k, active |-> on, person |-> p, version |-> v]
    BY <1>2, <2>5 DEF A!Answer
  <2>7. /\ grant' = [grant EXCEPT ![p] = g] /\ audits' = [audits EXCEPT ![k] = a]
        /\ answers' = answers \cup {n}
        /\ g.version = v /\ g.active = on
        /\ a.active = on /\ a.person = p /\ a.version = v
        /\ n.key = k /\ n.active = on /\ n.person = p /\ n.version = v
    BY <2>2, <2>6, <2>6a, <2>6b
  <2>8. /\ TablesOK' /\ GrantsOK'
    BY <1>2, <1>3, <2>2, <2>7 DEF AdminInv, TablesOK, GrantsOK, A!Lifecycle
  <2>9. Kept
    BY <1>2, <1>3, <2>2 DEF Kept, AdminInv, TablesOK
  <2>10. TasksOK'
    BY <2>2, <2>9, TaskPlaced, TaskMoves DEF AdminInv, TaskOK
  <2>11. A!EnteredWhole'
    <3>1. ASSUME NEW q \in People
          PROVE  /\ (directory'[q] = "active") = (directory[q] = "active")
                 /\ grant'[q] # A!NoGrant => directory'[q] # "none"
      <4>1. CASE q = p
        BY <1>2, <2>2, <2>3, <2>4, <4>1 DEF AdminInv, TablesOK
      <4>2. CASE q # p
        <5>1. directory'[q] = directory[q] /\ grant'[q] = grant[q]
          BY <2>2, <4>2 DEF AdminInv, TablesOK, GrantsOK
        <5> QED
          BY <5>1 DEF AdminInv, A!EnteredWhole
      <4> QED
        BY <4>1, <4>2
    <3> QED
      BY <1>3, <3>1 DEF AdminInv, A!EnteredWhole
  <2>12. None \notin A!Audit /\ audits'[k] = a /\ audits'[k] # None
         /\ \A j \in Keys : j # k => audits'[j] = audits[j]
    BY <1>2, <2>6b, <2>7, AccessAssumption DEF AdminInv, GrantsOK, A!AdminAssumption
  <2>13. A!AnswersAreAudited'
    <3>1. ASSUME NEW b \in answers
          PROVE  audits'[b.key] = [active |-> b.active, person |-> b.person, version |-> b.version]
      <4>1. b.key \in Keys /\ audits[b.key] \in A!Audit
        <5>1. b \in A!Answer
          BY DEF AdminInv, GrantsOK
        <5>2. /\ b.key \in Keys /\ b.active \in BOOLEAN /\ b.person \in People
              /\ b.version \in 1..MaxGrants
          BY <5>1 DEF A!Answer
        <5>3. audits[b.key] = [active |-> b.active, person |-> b.person, version |-> b.version]
          BY DEF AdminInv, A!AnswersAreAudited
        <5> QED
          BY <5>2, <5>3 DEF A!Audit
      <4>2. b.key # k
        BY <2>3, <2>12, <4>1
      <4> QED
        BY <2>12, <4>1, <4>2 DEF AdminInv, A!AnswersAreAudited
    <3>2. audits'[n.key] = [active |-> n.active, person |-> n.person, version |-> n.version]
      BY <2>6b, <2>7, <2>12
    <3> QED
      BY <2>7, <3>1, <3>2 DEF A!AnswersAreAudited
  <2>14. ASSUME NEW q \in People PROVE History(q)'
    <3>1. CASE q # p
      <4>1. grant'[q] = grant[q]
        BY <2>2, <3>1 DEF AdminInv, GrantsOK
      <4>2. ASSUME NEW j \in Keys, audits'[j] # None, audits'[j].person = q
            PROVE  j # k /\ audits[j] = audits'[j]
        BY <2>7, <2>12, <3>1, <4>2
      <4>3. ASSUME NEW u, Audited(q, u) PROVE Audited(q, u)'
        <5>1. PICK j \in Keys : audits[j] # None /\ audits[j].person = q /\ audits[j].version = u
          BY <4>3 DEF Audited
        <5>2. j # k
          BY <2>3, <5>1
        <5> QED
          BY <2>12, <5>1, <5>2 DEF Audited
      <4>4. ASSUME NEW u \in 1..grant'[q].version
            PROVE  \E j \in Keys : /\ audits'[j] # None
                                   /\ audits'[j].person = q /\ audits'[j].version = u
        <5>1. Audited(q, u)
          BY <4>1 DEF AdminInv, History, AllAudited
        <5> QED
          BY <4>3, <5>1 DEF Audited
      <4>5. History(q)
        BY DEF AdminInv
      <4>6. ASSUME NEW j \in Keys, audits'[j] # None, audits'[j].person = q
            PROVE  /\ audits'[j].version \in 1..grant'[q].version
                   /\ audits'[j].version = grant'[q].version
                        => audits'[j].active = grant'[q].active
        BY <4>1, <4>2, <4>5, <4>6 DEF History, WithinGrant
      <4>7. ASSUME NEW i \in Keys, NEW j \in Keys, audits'[i] # None, audits'[j] # None,
                   audits'[i].person = q, audits'[j].person = q,
                   audits'[i].version = audits'[j].version
            PROVE  i = j
        BY <4>2, <4>5, <4>7 DEF History, NoTwoAlike
      <4>8. \A u \in 1..grant'[q].version : \E j \in Keys :
              /\ audits'[j] # None /\ audits'[j].person = q /\ audits'[j].version = u
        BY <4>4
      <4>9. \A j \in Keys : audits'[j] # None /\ audits'[j].person = q
              => /\ audits'[j].version \in 1..grant'[q].version
                 /\ audits'[j].version = grant'[q].version
                      => audits'[j].active = grant'[q].active
        BY <4>6
      <4>10. \A i, j \in Keys :
              audits'[i] # None /\ audits'[j] # None
                /\ audits'[i].person = q /\ audits'[j].person = q
                /\ audits'[i].version = audits'[j].version => i = j
        BY <4>7
      <4> QED
        <5>1. AllAudited(q)'
          BY ONLY <4>8 DEF AllAudited, Audited
        <5>2. WithinGrant(q)'
          BY ONLY <4>9 DEF WithinGrant
        <5>3. NoTwoAlike(q)'
          BY ONLY <4>10 DEF NoTwoAlike
        <5> QED
          BY <5>1, <5>2, <5>3 DEF History
    <3>2. CASE q = p
      <4>1. grant'[q] = g /\ grant[q].version = v - 1
        BY <1>2, <2>5, <2>7, <3>2 DEF AdminInv, GrantsOK
      <4>2. History(q)
        BY DEF AdminInv
      <4>3. ASSUME NEW j \in Keys, audits[j] # None, audits[j].person = q
            PROVE  audits[j].version \in 1..(v - 1) /\ j # k
        BY <2>3, <4>1, <4>2, <4>3 DEF History, WithinGrant
      <4>4. ASSUME NEW u \in 1..v
            PROVE  \E j \in Keys : /\ audits'[j] # None
                                   /\ audits'[j].person = q /\ audits'[j].version = u
        <5>1. CASE u = v
          BY <1>2, <2>7, <2>12, <3>2, <5>1
        <5>2. CASE u # v
          <6>1. u \in 1..(v - 1)
            BY <2>5, <5>2
          <6>2. PICK j \in Keys : audits[j] # None /\ audits[j].person = q /\ audits[j].version = u
            BY <4>1, <4>2, <6>1 DEF History, AllAudited, Audited
          <6>3. j # k
            BY <2>3, <6>2
          <6> QED
            BY <2>12, <6>2, <6>3
        <5> QED
          BY <5>1, <5>2
      <4>5. ASSUME NEW j \in Keys, audits'[j] # None, audits'[j].person = q
            PROVE  /\ audits'[j].version \in 1..v
                   /\ audits'[j].version = v => j = k
                   /\ j # k => audits'[j] = audits[j]
        BY <2>5, <2>7, <2>12, <4>3, <4>5
      <4>6. ASSUME NEW j \in Keys, audits'[j] # None, audits'[j].person = q
            PROVE  audits'[j].version = v => audits'[j].active = on
        BY <2>7, <2>12, <4>5, <4>6
      <4>7. ASSUME NEW i \in Keys, NEW j \in Keys, audits'[i] # None, audits'[j] # None,
                   audits'[i].person = q, audits'[j].person = q,
                   audits'[i].version = audits'[j].version
            PROVE  i = j
        <5>1. CASE i = k \/ j = k
          BY <2>7, <2>12, <4>5, <4>7, <5>1
        <5>2. CASE i # k /\ j # k
          BY <4>2, <4>5, <4>7, <5>2 DEF History, NoTwoAlike
        <5> QED
          BY <5>1, <5>2
      <4>8. grant'[q].version = v /\ grant'[q].active = on
        BY <2>7, <4>1
      <4>9. \A u \in 1..grant'[q].version : \E j \in Keys :
              /\ audits'[j] # None /\ audits'[j].person = q /\ audits'[j].version = u
        BY <4>4, <4>8
      <4>10. \A j \in Keys : audits'[j] # None /\ audits'[j].person = q
              => /\ audits'[j].version \in 1..grant'[q].version
                 /\ audits'[j].version = grant'[q].version
                      => audits'[j].active = grant'[q].active
        BY <4>5, <4>6, <4>8
      <4>11. \A i, j \in Keys :
              audits'[i] # None /\ audits'[j] # None
                /\ audits'[i].person = q /\ audits'[j].person = q
                /\ audits'[i].version = audits'[j].version => i = j
        BY <4>7
      <4> QED
        <5>1. AllAudited(q)'
          BY ONLY <4>9 DEF AllAudited, Audited
        <5>2. WithinGrant(q)'
          BY ONLY <4>10 DEF WithinGrant
        <5>3. NoTwoAlike(q)'
          BY ONLY <4>11 DEF NoTwoAlike
        <5> QED
          BY <5>1, <5>2, <5>3 DEF History
    <3> QED
      BY <3>1, <3>2
  <2> QED
    BY <2>8, <2>10, <2>11, <2>13, <2>14 DEF AdminInv
<1> QED
  BY <1>4, <1>5

LEMMA AdminCutOff ==
  ASSUME AdminInv, NEW r \in Requests, A!CutOff(r) \/ A!Recheck(r)
  PROVE  AdminInv'
<1>1. A!Become(r, A!Idle) /\ UNCHANGED <<owner, directory, identity, mapped, evidence>>
      /\ UNCHANGED <<grant, audits, answers>>
  BY DEF A!CutOff, A!Recheck, A!login, A!grants
<1> QED
  BY <1>1, GivesUp

LEMMA AdminStep == AdminInv /\ [A!Next]_(A!vars) => AdminInv'
<1> SUFFICES ASSUME AdminInv, [A!Next]_(A!vars) PROVE AdminInv'
  OBVIOUS
<1>1. CASE UNCHANGED A!vars
  <2>1. UNCHANGED <<owner, directory, identity, mapped, evidence>>
        /\ UNCHANGED <<grant, audits, answers>> /\ UNCHANGED task
    BY <1>1 DEF A!vars, A!login, A!grants
  <2>2. TablesOK' /\ GrantsOK' /\ A!EnteredWhole' /\ A!AnswersAreAudited'
    BY <2>1 DEF AdminInv, TablesOK, GrantsOK, A!EnteredWhole, A!AnswersAreAudited
  <2>3. TasksOK'
    BY <2>1 DEF AdminInv, TasksOK, TaskOK, LoginOK, MutationOK, Listed
  <2>4. ASSUME NEW q \in People PROVE History(q)'
    BY <2>1 DEF AdminInv, History, AllAudited, WithinGrant, NoTwoAlike, Audited
  <2> QED
    BY <2>2, <2>3, <2>4 DEF AdminInv
<1> QED
  BY <1>1, BeginLoginStep, AssertAllowedStep, ReadRowStep, DecideStep, ReturnStep, EnterStep,
     BeginMutationStep, ReadItemStep, ReplaySteps, WriteStep, AdminCutOff, SignOutStep
     DEF A!Next

LEMMA AdminInit == A!Init => AdminInv
<1> SUFFICES ASSUME A!Init PROVE AdminInv
  OBVIOUS
<1>1. MaxGrants \in Nat /\ A!NoGrant \in A!Grant /\ A!NoGrant.version = 0
  <2>1. MaxGrants \in Nat
    BY AccessAssumption DEF A!AdminAssumption
  <2> QED
    BY <2>1 DEF A!NoGrant, A!Grant
<1>2. TablesOK /\ TasksOK
  BY DEF A!Init, TablesOK, TasksOK, TaskOK, A!Lifecycle
<1>3. GrantsOK
  BY <1>1 DEF A!Init, GrantsOK
<1>4. A!EnteredWhole /\ A!AnswersAreAudited
  <2>1. /\ Owner \in People /\ owner = FALSE /\ mapped = {} /\ evidence = {} /\ answers = {}
        /\ \A p \in People : /\ directory[p] = "none" /\ identity[p] = None
                            /\ grant[p] = A!NoGrant
    BY AccessAssumption DEF A!Init, A!AdminAssumption
  <2>2. owner = (identity[Owner] # None)
    BY <2>1
  <2> QED
    BY <2>1, <2>2 DEF A!EnteredWhole, A!AnswersAreAudited
<1>5. ASSUME NEW p \in People PROVE History(p)
  <2>1. grant[p] = A!NoGrant /\ \A k \in Keys : audits[k] = None
    BY DEF A!Init
  <2>2. 1..grant[p].version = {}
    BY <1>1, <2>1
  <2> QED
    BY <2>1, <2>2 DEF History, AllAudited, WithinGrant, NoTwoAlike
<1> QED
  BY <1>2, <1>3, <1>4, <1>5 DEF AdminInv

\* The instances count as this module does.
LEMMA Counting ==
  ASSUME NEW T
  PROVE  A!Cardinality(T) = Cardinality(T)
BY DEF A!Cardinality, Cardinality

\* One row for every version makes as many rows as the grant's version counts.
LEMMA HistoryCounts ==
  ASSUME AdminInv, NEW p \in People
  PROVE  LET rows == {k \in Keys : audits[k] # None /\ audits[k].person = p}
         IN  /\ {audits[k].version : k \in rows} = 1..grant[p].version
             /\ A!Cardinality(rows) = grant[p].version
<1> DEFINE rows == {k \in Keys : audits[k] # None /\ audits[k].person = p}
<1>1. PICK n \in Nat : n = grant[p].version
  <2>1. grant[p] \in A!Grant
    BY DEF AdminInv, GrantsOK
  <2>2. grant[p].version \in 0..MaxGrants
    BY <2>1 DEF A!Grant
  <2> QED
    BY <2>2, AccessAssumption DEF A!AdminAssumption
<1>2. History(p)
  BY DEF AdminInv
<1>3. ASSUME NEW k \in rows PROVE audits[k].version \in 1..n
  BY <1>1, <1>2 DEF History, WithinGrant
<1>4. ASSUME NEW v \in 1..n PROVE \E k \in rows : audits[k].version = v
  BY <1>1, <1>2 DEF History, AllAudited, Audited
<1>5. ASSUME NEW i \in rows, NEW k \in rows, audits[i].version = audits[k].version
      PROVE  i = k
  BY <1>2, <1>5 DEF History, NoTwoAlike
<1> HIDE DEF rows
<1>6. {audits[k].version : k \in rows} = 1..n
  BY <1>3, <1>4
<1>7. PICK f : f = [v \in 1..n |-> CHOOSE k \in rows : audits[k].version = v]
  OBVIOUS
<1>8. ASSUME NEW v \in 1..n PROVE f[v] \in rows /\ audits[f[v]].version = v
  BY <1>4, <1>7
<1>9. f \in [1..n -> rows]
  BY <1>7, <1>8
<1>10. \A v, w \in 1..n : f[v] = f[w] => v = w
  BY <1>8
<1>11. \A k \in rows : \E v \in 1..n : f[v] = k
  BY <1>3, <1>5, <1>8
<1>12. f \in Injection(1..n, rows) /\ f \in Surjection(1..n, rows)
  BY <1>9, <1>10, <1>11 DEF Injection, IsInjective, Surjection
<1>13. ExistsBijection(1..n, rows)
  BY <1>12 DEF ExistsBijection, Bijection
<1>14. Cardinality(rows) = n
  BY <1>13, FS_CountingElements
<1> QED
  BY <1>1, <1>6, <1>14, Counting DEF rows

LEMMA AdminHolds ==
  AdminInv => A!TypeOK /\ A!EnteredWhole /\ A!AuditedHistory /\ A!AnswersAreAudited
<1> SUFFICES ASSUME AdminInv
             PROVE  A!TypeOK /\ A!EnteredWhole /\ A!AuditedHistory /\ A!AnswersAreAudited
  OBVIOUS
<1>1. A!TypeOK
  BY DEF AdminInv, TablesOK, GrantsOK, TasksOK, TaskOK, A!TypeOK
<1>2. ASSUME NEW p \in People
      PROVE  \A k \in Keys : audits[k] # None /\ audits[k].person = p =>
               (audits[k].version = grant[p].version => audits[k].active = grant[p].active)
  BY DEF AdminInv, History, WithinGrant
<1>3. ASSUME NEW p \in People
      PROVE  LET rows == {k \in Keys : audits[k] # None /\ audits[k].person = p}
             IN  /\ {audits[k].version : k \in rows} = 1..grant[p].version
                 /\ A!Cardinality(rows) = grant[p].version
                 /\ \A k \in rows : audits[k].version = grant[p].version
                                      => audits[k].active = grant[p].active
  <2> DEFINE rows == {k \in Keys : audits[k] # None /\ audits[k].person = p}
  <2>1. \A k \in rows : audits[k].version = grant[p].version
                         => audits[k].active = grant[p].active
    BY <1>2
  <2> QED
    BY <2>1, HistoryCounts
<1>4. A!AuditedHistory
  BY ONLY <1>3 DEF A!AuditedHistory
<1> QED
  BY <1>1, <1>4 DEF AdminInv

\* A token's version never falls.
LEMMA AdminRises ==
  ASSUME AdminInv, [A!Next]_(A!vars), NEW p \in People, identity[p] # None
  PROVE  identity'[p] # None /\ identity'[p] >= identity[p]
<1>1. identity[p] \in Nat /\ identity \in [People -> Nat \cup {None}]
  BY DEF AdminInv, TablesOK
<1>2. CASE UNCHANGED identity
  BY <1>1, <1>2
<1>3. ASSUME NEW r \in Requests, A!Return(r) PROVE identity'[p] = identity[p]
  BY <1>1, <1>3 DEF A!Return, A!SameVersion
<1>4. ASSUME NEW r \in Requests, A!Enter(r) PROVE identity'[p] = identity[p]
  BY <1>1, <1>4 DEF A!Enter, A!MayEnter, A!login
<1>5. ASSUME NEW q \in People, A!SignOut(q)
      PROVE  identity'[p] # None /\ identity'[p] >= identity[p]
  <2>1. PICK v \in Nat : v = identity[p] + 1
    BY <1>1
  <2>2. identity'[p] = IF p = q THEN v ELSE identity[p]
    BY <1>1, <1>5, <2>1 DEF A!SignOut
  <2> QED
    BY <1>1, <2>1, <2>2, AccessAssumption DEF A!AdminAssumption
<1>6. \/ UNCHANGED identity
      \/ \E r \in Requests : A!Return(r) \/ A!Enter(r)
      \/ \E q \in People : A!SignOut(q)
  BY DEF A!Next, A!vars, A!login, A!BeginLogin, A!AssertAllowed, A!ReadRow, A!Decide, A!Recheck,
         A!BeginMutation, A!ReadItem, A!Replay, A!Write, A!ReplayAgain, A!CutOff
<1> QED
  BY <1>1, <1>2, <1>3, <1>4, <1>5, <1>6

-----------------------------------------------------------------------------
(* Sign-in.  A code has one request, and one call at most that has consumed *)
(* it; a call ends before the challenge that refused its own may be gone;   *)
(* and what a call may still send or record is counted before it does.      *)

Asking == {"read", "put", "reread", "send"}
WindowsOK == 0..S!WindowOf(MaxTime)

ChallengeOK ==
  challenge # Absent => /\ challenge \in S!Challenge
                        /\ challenge.id \in stored

StoreOK ==
  /\ time \in 0..MaxTime /\ codes \in 0..MaxCodes
  /\ ChallengeOK
  /\ stored \subseteq 1..codes
  /\ spent \in [{"request", "verify"} -> [WindowsOK -> Nat]]
  /\ sent \subseteq [code: stored, window: WindowsOK]

SessionsOK ==
  /\ account \in Nat \cup {Absent} /\ signedOut \subseteq Nat
  /\ S!SignedOutStaysOut
  /\ opened \in [S!Code -> 0..1]
  /\ \A k \in S!Code : opened[k] = 1 => k \in stored

\* The challenge of a code no longer lets anyone in.
Used(k) == challenge # Absent /\ challenge.id = k => challenge.consumed

CallOK(l) ==
  /\ l.at <= time
  /\ l # S!Idle => time <= l.at + CallTime
  /\ l.pc \in Asking => l.code \in 1..codes
  /\ l.pc \in {"read", "put", "reread"} => l.code \notin stored
  /\ l.pc = "send" => l.code \in stored
  /\ l.pc = "reread" => challenge # Absent /\ challenge.issued >= l.at
  /\ l.pc \in {"fail", "consume", "account"} => l.seen \in stored
  /\ l.pc = "account" => Used(l.seen) /\ opened[l.seen] = 0
  /\ l.pc = "bump" => account # Absent /\ l.seen \in Nat /\ l.seen <= account

CallsMade ==
  /\ call \in [Callers -> S!Call]
  /\ \A c \in Callers : CallOK(call[c])

OneAsks == \A c, d \in Callers :
  call[c].pc \in Asking /\ call[d].pc \in Asking /\ call[c].code = call[d].code => c = d
OneOpens == \A c, d \in Callers :
  call[c].pc = "account" /\ call[d].pc = "account" /\ call[c].seen = call[d].seen => c = d
SpentOnce == \A k \in S!Code : opened[k] = 1 => Used(k)

\* What was sent in a window and what may still be.
Messages(w) ==
  {s \in sent : s.window = w} \cup
  {[code |-> call[c].code, window |-> w] :
     c \in {d \in Callers : call[d].pc \in Asking /\ S!WindowOf(call[d].at) = w}}
RequestsCounted ==
  \A w \in WindowsOK : /\ IsFiniteSet(Messages(w))
                       /\ Cardinality(Messages(w)) <= spent["request"][w]
                       /\ spent["request"][w] <= RequestLimit

\* The calls that may still record a failed attempt at a challenge.
Failing(k) == {c \in Callers : call[c].pc = "fail" /\ call[c].seen = k}
AttemptsCounted ==
  challenge # Absent =>
    challenge.attempts + Cardinality(Failing(challenge.id)) < MaxAttempts + Cardinality(Callers)

SignInv ==
  /\ StoreOK /\ SessionsOK /\ CallsMade
  /\ OneAsks /\ OneOpens /\ SpentOnce
  /\ RequestsCounted /\ AttemptsCounted

LEMMA SignConstants ==
  /\ Absent \notin Nat /\ Absent \notin S!Challenge
  /\ MaxAttempts \in Nat \ {0} /\ Window \in Nat \ {0}
  /\ CallTime \in Nat /\ Life \in Nat /\ CallTime < Life
  /\ RequestLimit \in Nat /\ VerifyLimit \in Nat /\ MaxTime \in Nat /\ MaxCodes \in Nat
  /\ IsFiniteSet(Callers) /\ Cardinality(Callers) \in Nat
<1>1. S!IsFiniteSet(Callers) = IsFiniteSet(Callers)
  BY DEF S!IsFiniteSet, IsFiniteSet
<1> QED
  BY <1>1, AccessAssumption, FS_CardinalityType DEF S!SignInAssumption

LEMMA CountingCalls ==
  ASSUME NEW T
  PROVE  S!Cardinality(T) = Cardinality(T)
BY DEF S!Cardinality, Cardinality

LEMMA WindowIn ==
  ASSUME NEW t \in 0..MaxTime
  PROVE  S!WindowOf(t) \in WindowsOK
<1>1. t \in Nat /\ MaxTime \in Nat /\ t <= MaxTime /\ Window \in Nat \ {0}
  BY SignConstants
<1>2. t \div Window \in Nat /\ MaxTime \div Window \in Nat
  BY <1>1
<1>3. t \div Window <= MaxTime \div Window
  BY <1>1
<1> QED
  BY <1>2, <1>3 DEF S!WindowOf, WindowsOK

LEMMA CallFields ==
  ASSUME NEW l \in S!Call
  PROVE  /\ l.at \in 0..MaxTime /\ l.at \in Nat
         /\ l.code \in S!Code \cup {Absent} /\ l.seen \in Nat \cup {Absent}
BY SignConstants DEF S!Call

LEMMA ChallengeFields ==
  ASSUME NEW k \in S!Challenge
  PROVE  /\ k.id \in S!Code /\ k.id \in Nat /\ k.issued \in 0..MaxTime /\ k.issued \in Nat
         /\ k.attempts \in Nat /\ k.consumed \in BOOLEAN
BY SignConstants DEF S!Challenge, S!Code

LEMMA IdleCall == S!Idle \in S!Call /\ S!Idle.pc = "idle" /\ S!Idle.at = 0
<1>1. 0 \in 0..MaxTime
  BY SignConstants
<1> QED
  BY <1>1 DEF S!Idle, S!Call

LEMMA IdleOK ==
  ASSUME SignInv
  PROVE  CallOK(S!Idle)
<1>1. time \in Nat
  BY SignConstants DEF SignInv, StoreOK
<1> QED
  BY <1>1, IdleCall DEF CallOK, Asking

LEMMA Called ==
  ASSUME CallsMade, NEW c \in Callers
  PROVE  call[c] \in S!Call /\ CallOK(call[c])
BY DEF CallsMade

\* A call moves on, and nothing is taken from the others.
LEMMA CallMoves ==
  ASSUME SignInv, NEW c \in Callers, NEW l \in S!Call, S!Become(c, l), CallOK(l)',
         UNCHANGED time, codes' \in Nat, codes <= codes', stored \subseteq stored',
         \A d \in Callers : d # c /\ call[d].pc \in {"read", "put", "reread"}
                              => call[d].code \notin stored',
         challenge # Absent => challenge' # Absent /\ challenge'.issued >= challenge.issued,
         challenge' # Absent => challenge' \in S!Challenge,
         \A k \in stored : Used(k) => Used(k)',
         \A d \in Callers : d # c /\ call[d].pc = "account"
                              => opened'[call[d].seen] = opened[call[d].seen],
         account # Absent => account' # Absent /\ account' >= account /\ account' \in Nat
  PROVE  CallsMade'
<1>1. call' \in [Callers -> S!Call] /\ call'[c] = l
      /\ \A d \in Callers : d # c => call'[d] = call[d]
  BY DEF SignInv, CallsMade, S!Become
<1>2. ASSUME NEW d \in Callers, d # c, NEW m \in S!Call, m = call[d]
      PROVE  CallOK(m)'
  <2>1. CallOK(m)
    BY <1>2 DEF SignInv, CallsMade
  <2>2. m.at \in Nat /\ m.seen \in Nat \cup {Absent}
    BY CallFields
  <2>3. /\ m.at <= time' /\ (m # S!Idle => time' <= m.at + CallTime)
        /\ m.pc \in {"read", "put", "reread"} => m.code \notin stored'
        /\ m.pc = "send" => m.code \in stored'
        /\ m.pc \in {"fail", "consume", "account"} => m.seen \in stored'
    BY <1>2, <2>1 DEF CallOK
  <2>4. m.pc \in Asking => m.code \in 1..codes'
    <3>1. codes \in Nat
      BY SignConstants DEF SignInv, StoreOK
    <3> QED
      BY <2>1, <3>1 DEF CallOK
  <2>5. m.pc = "reread" => challenge' # Absent /\ challenge'.issued >= m.at
    <3>1. challenge # Absent => challenge.issued \in Nat
      BY ChallengeFields DEF SignInv, StoreOK, ChallengeOK
    <3>2. challenge' # Absent => challenge'.issued \in Nat
      BY ChallengeFields
    <3> QED
      BY <2>1, <2>2, <3>1, <3>2 DEF CallOK
  <2>6. m.pc = "account" => Used(m.seen)' /\ opened'[m.seen] = 0
    <3>1. m.pc = "account" => m.seen \in stored /\ Used(m.seen) /\ opened[m.seen] = 0
      BY <2>1 DEF CallOK
    <3> QED
      BY <1>2, <3>1
  <2>7. m.pc = "bump" => account' # Absent /\ m.seen \in Nat /\ m.seen <= account'
    <3>1. account \in Nat \cup {Absent}
      BY DEF SignInv, SessionsOK
    <3> QED
      BY <2>1, <3>1 DEF CallOK
  <2> QED
    BY <2>3, <2>4, <2>5, <2>6, <2>7 DEF CallOK
<1>3. ASSUME NEW d \in Callers PROVE CallOK(call[d])'
  <2>1. CASE d = c
    BY <1>1, <2>1 DEF CallOK, Used
  <2>2. CASE d # c
    <3>1. PICK m \in S!Call : m = call[d]
      BY DEF SignInv, CallsMade
    <3>2. CallOK(m)' /\ call'[d] = m
      BY <1>1, <1>2, <2>2, <3>1
    <3> QED
      BY <3>2 DEF CallOK, Used
  <2> QED
    BY <2>1, <2>2
<1> QED
  BY <1>1, <1>3 DEF CallsMade

LEMMA CallPlaced ==
  ASSUME SignInv, NEW c \in Callers, NEW l, S!Become(c, l)
  PROVE  call'[c] = l /\ \A d \in Callers : d # c => call'[d] = call[d]
BY DEF SignInv, CallsMade, S!Become

LEMMA AsksApart ==
  ASSUME SignInv, NEW c \in Callers, NEW l, S!Become(c, l),
         l.pc \in Asking => \A d \in Callers : d # c /\ call[d].pc \in Asking
                                                 => call[d].code # l.code
  PROVE  OneAsks'
BY CallPlaced DEF SignInv, OneAsks

LEMMA OpensApart ==
  ASSUME SignInv, NEW c \in Callers, NEW l, S!Become(c, l),
         l.pc = "account" => \A d \in Callers : d # c /\ call[d].pc = "account"
                                                 => call[d].seen # l.seen
  PROVE  OneOpens'
BY CallPlaced DEF SignInv, OneOpens

\* A call that asks for nothing new adds no message.
LEMMA NoMessageAdded ==
  ASSUME SignInv, NEW c \in Callers, NEW l, S!Become(c, l), sent' = sent,
         \A w \in WindowsOK : spent'["request"][w] = spent["request"][w],
         l.pc \in Asking => call[c].pc \in Asking /\ l.code = call[c].code /\ l.at = call[c].at
  PROVE  RequestsCounted'
<1>1. ASSUME NEW w \in WindowsOK PROVE Messages(w)' \in SUBSET Messages(w)
  <2>1. ASSUME NEW d \in Callers, call'[d].pc \in Asking, S!WindowOf(call'[d].at) = w
        PROVE  /\ call[d].pc \in Asking /\ S!WindowOf(call[d].at) = w
               /\ call'[d].code = call[d].code
    BY <2>1, CallPlaced
  <2> QED
    BY <2>1 DEF Messages, S!WindowOf
<1>2. ASSUME NEW w \in WindowsOK
      PROVE  /\ IsFiniteSet(Messages(w)') /\ Cardinality(Messages(w)') <= spent'["request"][w]
             /\ spent'["request"][w] <= RequestLimit
  <2>1. /\ IsFiniteSet(Messages(w)) /\ Cardinality(Messages(w)) <= spent["request"][w]
        /\ spent["request"][w] <= RequestLimit
    BY DEF SignInv, RequestsCounted
  <2>2. PICK T \in SUBSET Messages(w) : T = Messages(w)'
    BY <1>1
  <2>3. IsFiniteSet(T) /\ Cardinality(T) <= Cardinality(Messages(w))
    BY <2>1, <2>2, FS_Subset
  <2>4. Cardinality(T) \in Nat /\ Cardinality(Messages(w)) \in Nat
    BY <2>1, <2>3, FS_CardinalityType
  <2>5. spent["request"][w] \in Nat
    BY DEF SignInv, StoreOK
  <2> QED
    BY <2>1, <2>2, <2>3, <2>4, <2>5
<1> QED
  BY <1>2 DEF RequestsCounted, WindowsOK, S!WindowOf

\* No call but the one that compared a code joins those that may record a failure.
LEMMA FailingStays ==
  ASSUME SignInv, NEW c \in Callers, NEW l, S!Become(c, l), NEW k,
         l.pc # "fail" \/ l.seen # k
  PROVE  /\ IsFiniteSet(Failing(k)') /\ IsFiniteSet(Failing(k))
         /\ Cardinality(Failing(k)') \in Nat /\ Cardinality(Failing(k)) \in Nat
         /\ Cardinality(Failing(k)') <= Cardinality(Failing(k))
         /\ call[c].pc = "fail" /\ call[c].seen = k
              => Cardinality(Failing(k)') < Cardinality(Failing(k))
<1>1. Failing(k)' = Failing(k) \ {c}
  BY CallPlaced DEF Failing
<1>2. IsFiniteSet(Failing(k)) /\ Cardinality(Failing(k)) \in Nat
  <2>1. Failing(k) \in SUBSET Callers
    BY DEF Failing
  <2> QED
    BY <2>1, SignConstants, FS_Subset, FS_CardinalityType
<1>3. /\ IsFiniteSet(Failing(k) \ {c})
      /\ Cardinality(Failing(k) \ {c}) = IF c \in Failing(k) THEN Cardinality(Failing(k)) - 1
                                                            ELSE Cardinality(Failing(k))
  BY <1>2, FS_RemoveElement
<1>4. Cardinality(Failing(k) \ {c}) \in Nat
  BY <1>3, FS_CardinalityType
<1>5. call[c].pc = "fail" /\ call[c].seen = k => c \in Failing(k)
  BY DEF Failing
<1> QED
  BY <1>1, <1>2, <1>3, <1>4, <1>5

\* Whoever may fail is a caller.
LEMMA FailingBounded ==
  ASSUME NEW k
  PROVE  Cardinality(Failing(k)) \in Nat /\ Cardinality(Failing(k)) <= Cardinality(Callers)
<1>1. Failing(k) \in SUBSET Callers
  BY DEF Failing
<1> QED
  BY <1>1, SignConstants, FS_Subset, FS_CardinalityType

LEMMA AttemptsStay ==
  ASSUME SignInv, NEW c \in Callers, NEW l, S!Become(c, l), challenge' = challenge,
         l.pc # "fail"
  PROVE  AttemptsCounted'
<1>1. CASE challenge = Absent
  BY <1>1 DEF AttemptsCounted
<1>2. CASE challenge # Absent
  <2>1. PICK k \in Nat : k = challenge.id
    BY <1>2, ChallengeFields DEF SignInv, StoreOK, ChallengeOK
  <2>2. challenge.attempts \in Nat
    BY <1>2, ChallengeFields DEF SignInv, StoreOK, ChallengeOK
  <2>3. challenge.attempts + Cardinality(Failing(k)) < MaxAttempts + Cardinality(Callers)
    BY <1>2, <2>1 DEF SignInv, AttemptsCounted
  <2>4. /\ Cardinality(Failing(k)') \in Nat /\ Cardinality(Failing(k)) \in Nat
        /\ Cardinality(Failing(k)') <= Cardinality(Failing(k))
    BY FailingStays
  <2>5. challenge.attempts + Cardinality(Failing(k)') < MaxAttempts + Cardinality(Callers)
    BY <2>2, <2>3, <2>4, SignConstants
  <2>6. Failing(challenge.id)' = Failing(k)'
    BY <2>1 DEF Failing
  <2> QED
    BY <2>5, <2>6 DEF AttemptsCounted
<1> QED
  BY <1>1, <1>2

\* A step that only moves a call on.
LEMMA CallReads ==
  ASSUME SignInv, NEW c \in Callers, NEW l \in S!Call, S!Become(c, l), CallOK(l),
         UNCHANGED <<time, challenge, account, spent, codes, stored, sent, opened, signedOut>>,
         l.pc \in Asking => call[c].pc \in Asking /\ l.code = call[c].code /\ l.at = call[c].at,
         l.pc \notin {"account", "fail"}
  PROVE  SignInv'
<1>1. StoreOK' /\ SessionsOK' /\ SpentOnce'
  BY DEF SignInv, StoreOK, ChallengeOK, SessionsOK, S!SignedOutStaysOut, SpentOnce, Used
<1>2. CallOK(l)'
  BY DEF CallOK, Used
<1>3. CallsMade'
  <2>1. codes \in Nat
    BY SignConstants DEF SignInv, StoreOK
  <2>2. challenge # Absent => challenge \in S!Challenge /\ challenge.issued \in Nat
    BY ChallengeFields DEF SignInv, StoreOK, ChallengeOK
  <2>3. account \in Nat \cup {Absent}
    BY DEF SignInv, SessionsOK
  <2>4. \A k \in stored : Used(k) => Used(k)'
    BY DEF Used
  <2>5. \A d \in Callers : call[d].pc \in {"read", "put", "reread"} => call[d].code \notin stored
    BY DEF SignInv, CallsMade, CallOK
  <2> QED
    BY <1>2, <2>1, <2>2, <2>3, <2>4, <2>5, CallMoves
<1>4. OneAsks'
  BY AsksApart DEF SignInv, OneAsks
<1>5. OneOpens'
  BY OpensApart
<1>6. RequestsCounted'
  BY NoMessageAdded
<1>7. AttemptsCounted'
  BY AttemptsStay
<1> QED
  BY <1>1, <1>3, <1>4, <1>5, <1>6, <1>7 DEF SignInv

LEMMA GivingUp ==
  ASSUME SignInv, NEW c \in Callers, S!Become(c, S!Idle),
         UNCHANGED <<time, challenge, account, spent, codes, stored, sent, opened, signedOut>>
  PROVE  SignInv'
<1>1. S!Idle \in S!Call /\ S!Idle.pc \notin Asking /\ S!Idle.pc \notin {"account", "fail"}
  BY IdleCall DEF Asking
<1> QED
  BY <1>1, IdleOK, CallReads

\* A budget is drawn on.
LEMMA Spending ==
  ASSUME SignInv, NEW action \in {"request", "verify"}, S!Spend(action)
  PROVE  /\ S!WindowOf(time) \in WindowsOK
         /\ spent' \in [{"request", "verify"} -> [WindowsOK -> Nat]]
         /\ spent'[action][S!WindowOf(time)] = spent[action][S!WindowOf(time)] + 1
         /\ spent[action][S!WindowOf(time)] < S!Limit[action]
         /\ \A a \in {"request", "verify"}, w \in WindowsOK :
              a # action \/ w # S!WindowOf(time) => spent'[a][w] = spent[a][w]
<1>1. PICK w \in WindowsOK : w = S!WindowOf(time)
  BY WindowIn DEF SignInv, StoreOK
<1>2. spent \in [{"request", "verify"} -> [WindowsOK -> Nat]]
  BY DEF SignInv, StoreOK
<1>3. PICK n \in Nat : n = spent[action][w] + 1
  BY <1>2
<1>4. /\ spent' = [spent EXCEPT ![action][w] = n]
      /\ spent[action][w] < S!Limit[action]
  BY <1>1, <1>3 DEF S!Spend, S!MaySpend
<1> QED
  BY <1>1, <1>2, <1>3, <1>4

LEMMA RequestCodeStep ==
  ASSUME SignInv, NEW c \in Callers, S!RequestCode(c)
  PROVE  SignInv'
<1>1. /\ call[c] = S!Idle /\ codes < MaxCodes /\ S!Spend("request") /\ codes' = codes + 1
      /\ UNCHANGED <<time, challenge, account, stored, sent, opened, signedOut>>
  BY DEF S!RequestCode
<1>2. codes \in Nat /\ codes + 1 \in S!Code /\ time \in 0..MaxTime /\ time \in Nat
  BY <1>1, SignConstants DEF SignInv, StoreOK, S!Code
<1>3. PICK k \in Nat : k = codes + 1
  BY <1>2
<1>4. PICK l \in S!Call : l = [S!Idle EXCEPT !.pc = "read", !.at = time, !.code = k]
  BY <1>2, <1>3, IdleCall DEF S!Call
<1>5. l.pc = "read" /\ l.at = time /\ l.code = k
  BY <1>4, IdleCall DEF S!Call
<1>6. S!Become(c, l)
  BY <1>3, <1>4 DEF S!RequestCode
<1>7. stored \subseteq 1..codes /\ k \notin stored
  BY <1>2, <1>3 DEF SignInv, StoreOK
<1>8. CallOK(l)'
  BY <1>1, <1>2, <1>3, <1>5, <1>7, SignConstants DEF CallOK, Asking
<1>9. CallsMade'
  <2>1. codes' \in Nat /\ codes <= codes'
    BY <1>1, <1>2
  <2>2. challenge # Absent => challenge \in S!Challenge /\ challenge.issued \in Nat
    BY ChallengeFields DEF SignInv, StoreOK, ChallengeOK
  <2>3. account \in Nat \cup {Absent}
    BY DEF SignInv, SessionsOK
  <2>4. \A j \in stored : Used(j) => Used(j)'
    BY <1>1 DEF Used
  <2>5. \A d \in Callers : call[d].pc \in {"read", "put", "reread"} => call[d].code \notin stored
    BY DEF SignInv, CallsMade, CallOK
  <2> QED
    BY <1>1, <1>6, <1>8, <2>1, <2>2, <2>3, <2>4, <2>5, CallMoves
<1>10. StoreOK'
  <2>1. spent' \in [{"request", "verify"} -> [WindowsOK -> Nat]]
    BY <1>1, Spending
  <2>2. codes' \in 0..MaxCodes /\ stored' \subseteq 1..codes'
    BY <1>1, <1>2, <1>7, SignConstants
  <2>3. ChallengeOK'
    BY <1>1 DEF SignInv, StoreOK, ChallengeOK
  <2>4. WindowsOK' = WindowsOK
    BY DEF WindowsOK, S!WindowOf
  <2> QED
    BY <1>1, <2>1, <2>2, <2>3, <2>4 DEF SignInv, StoreOK
<1>11. SessionsOK' /\ SpentOnce'
  BY <1>1 DEF SignInv, SessionsOK, S!SignedOutStaysOut, SpentOnce, Used
<1>12. OneAsks'
  <2>1. ASSUME NEW d \in Callers, call[d].pc \in Asking PROVE call[d].code # l.code
    BY <1>2, <1>3, <1>5, <2>1 DEF SignInv, CallsMade, CallOK
  <2> QED
    BY <1>6, <2>1, AsksApart
<1>13. OneOpens'
  BY <1>5, <1>6, OpensApart
<1>14. AttemptsCounted'
  BY <1>1, <1>5, <1>6, AttemptsStay
<1>15. ASSUME NEW w \in WindowsOK
       PROVE  /\ IsFiniteSet(Messages(w)') /\ Cardinality(Messages(w)') <= spent'["request"][w]
              /\ spent'["request"][w] <= RequestLimit
  <2>1. /\ IsFiniteSet(Messages(w)) /\ Cardinality(Messages(w)) <= spent["request"][w]
        /\ spent["request"][w] <= RequestLimit
    BY DEF SignInv, RequestsCounted
  <2>2. Cardinality(Messages(w)) \in Nat /\ spent["request"][w] \in Nat
    BY <2>1, FS_CardinalityType DEF SignInv, StoreOK
  <2>3. ASSUME NEW d \in Callers, call'[d].pc \in Asking, S!WindowOf(call'[d].at) = w
        PROVE  \/ d # c /\ call[d].pc \in Asking /\ S!WindowOf(call[d].at) = w
                  /\ call'[d].code = call[d].code
               \/ d = c /\ call'[d].code = k /\ S!WindowOf(time) = w
    BY <1>5, <1>6, <2>3, CallPlaced
  <2>4. PICK x : x = [code |-> k, window |-> w]
    OBVIOUS
  <2>5. Messages(w)' \subseteq IF S!WindowOf(time) = w THEN Messages(w) \cup {x} ELSE Messages(w)
    BY <1>1, <2>3, <2>4 DEF Messages, S!WindowOf
  <2>6. CASE S!WindowOf(time) = w
    <3>1. PICK U : U = Messages(w) \cup {x}
      OBVIOUS
    <3>2. IsFiniteSet(U) /\ Cardinality(U) <= Cardinality(Messages(w)) + 1
      <4>1. PICK M : M = Messages(w)
        OBVIOUS
      <4>2. /\ IsFiniteSet(M \cup {x})
            /\ Cardinality(M \cup {x}) = IF x \in M THEN Cardinality(M) ELSE Cardinality(M) + 1
        BY <2>1, <4>1, FS_AddElement
      <4> QED
        BY <2>2, <3>1, <4>1, <4>2
    <3>3. PICK T \in SUBSET U : T = Messages(w)'
      BY <2>5, <2>6, <3>1
    <3>4. IsFiniteSet(T) /\ Cardinality(T) <= Cardinality(U)
      BY <3>2, <3>3, FS_Subset
    <3>5. Cardinality(T) \in Nat /\ Cardinality(U) \in Nat
      BY <3>2, <3>4, FS_CardinalityType
    <3>6. spent'["request"][w] = spent["request"][w] + 1 /\ spent["request"][w] < RequestLimit
      BY <1>1, <2>6, Spending DEF S!Limit
    <3> QED
      BY <2>1, <2>2, <3>2, <3>3, <3>4, <3>5, <3>6, SignConstants
  <2>7. CASE S!WindowOf(time) # w
    <3>1. PICK T \in SUBSET Messages(w) : T = Messages(w)'
      BY <2>5, <2>7
    <3>2. IsFiniteSet(T) /\ Cardinality(T) <= Cardinality(Messages(w))
      BY <2>1, <3>1, FS_Subset
    <3>3. Cardinality(T) \in Nat
      BY <3>2, FS_CardinalityType
    <3>4. spent'["request"][w] = spent["request"][w]
      BY <1>1, <2>7, Spending
    <3> QED
      BY <2>1, <2>2, <3>1, <3>2, <3>3, <3>4
  <2> QED
    BY <2>6, <2>7
<1>16. RequestsCounted'
  BY <1>15 DEF RequestsCounted, WindowsOK, S!WindowOf
<1> QED
  BY <1>9, <1>10, <1>11, <1>12, <1>13, <1>14, <1>16 DEF SignInv

LEMMA ReadForRequestStep ==
  ASSUME SignInv, NEW c \in Callers, S!ReadForRequest(c)
  PROVE  SignInv'
<1>1. /\ call[c] \in S!Call /\ CallOK(call[c]) /\ call[c].pc = "read"
      /\ UNCHANGED <<time, challenge, account, spent, codes, stored, sent, opened, signedOut>>
  BY Called DEF SignInv, S!ReadForRequest
<1>2. CASE S!Become(c, S!Idle)
  BY <1>1, <1>2, GivingUp
<1>3. CASE S!Become(c, [call[c] EXCEPT !.pc = "put"])
  <2>1. PICK l \in S!Call : l = [call[c] EXCEPT !.pc = "put"]
    BY <1>1 DEF S!Call
  <2>2. l.pc = "put" /\ l.code = call[c].code /\ l.at = call[c].at
    BY <1>1, <2>1 DEF S!Call
  <2>3. call[c] # S!Idle
    BY <1>1, IdleCall
  <2>4. CallOK(l)
    BY <1>1, <2>2, <2>3 DEF CallOK, Asking
  <2> QED
    BY <1>1, <1>3, <2>1, <2>2, <2>4, CallReads DEF Asking
<1> QED
  BY <1>2, <1>3 DEF S!ReadForRequest

\* A request that lost finds the challenge it lost to: it cannot be gone while the call runs.
LEMMA RereadStep ==
  ASSUME SignInv, NEW c \in Callers, S!Reread(c)
  PROVE  SignInv'
<1>1. /\ CallOK(call[c]) /\ call[c].pc = "reread"
      /\ UNCHANGED <<time, challenge, account, spent, codes, stored, sent, opened, signedOut>>
  BY Called DEF SignInv, S!Reread
<1>2. challenge # Absent
  BY <1>1 DEF CallOK
<1>3. S!Become(c, S!Idle)
  BY <1>2 DEF S!Reread, S!AfterRefusal
<1> QED
  BY <1>1, <1>3, GivingUp

LEMMA CheckCodeStep ==
  ASSUME SignInv, NEW c \in Callers, S!CheckCode(c)
  PROVE  SignInv'
<1>1. /\ call[c] \in S!Call /\ CallOK(call[c]) /\ call[c].pc = "check"
      /\ UNCHANGED <<time, challenge, account, spent, codes, stored, sent, opened, signedOut>>
  BY Called DEF SignInv, S!CheckCode
<1>2. CASE S!Become(c, S!Idle)
  BY <1>1, <1>2, GivingUp
<1>3. CASE S!Comparable(call[c].at)
  <2>1. challenge # Absent /\ challenge.attempts < MaxAttempts
    BY <1>3 DEF S!Comparable, S!Live
  <2>2. challenge \in S!Challenge /\ challenge.id \in stored
    BY <2>1 DEF SignInv, StoreOK, ChallengeOK
  <2>3. PICK k \in Nat : k = challenge.id
    BY <2>2, ChallengeFields
  <2>4. PICK pc \in {"consume", "fail"} : S!Become(c, [call[c] EXCEPT !.pc = pc, !.seen = k])
    BY <1>3, <2>3 DEF S!CheckCode
  <2>5. PICK l \in S!Call : l = [call[c] EXCEPT !.pc = pc, !.seen = k]
    BY <1>1, <2>3, <2>4 DEF S!Call
  <2>6. l.pc = pc /\ l.seen = k /\ l.at = call[c].at
    BY <1>1, <2>5 DEF S!Call
  <2>7. call[c] # S!Idle
    BY <1>1, IdleCall
  <2>8. CallOK(l)
    BY <1>1, <2>2, <2>3, <2>4, <2>6, <2>7 DEF CallOK, Asking
  <2>9. S!Become(c, l)
    BY <2>4, <2>5
  <2>10. CASE pc = "consume"
    BY <1>1, <2>6, <2>8, <2>9, <2>10, CallReads DEF Asking
  <2>11. CASE pc = "fail"
    <3>1. StoreOK' /\ SessionsOK' /\ SpentOnce'
      BY <1>1 DEF SignInv, StoreOK, ChallengeOK, SessionsOK, S!SignedOutStaysOut, SpentOnce, Used
    <3>2. CallOK(l)'
      BY <1>1, <2>8 DEF CallOK, Used
    <3>3. CallsMade'
      <4>1. codes \in Nat
        BY SignConstants DEF SignInv, StoreOK
      <4>2. challenge.issued \in Nat
        BY <2>2, ChallengeFields
      <4>3. account \in Nat \cup {Absent}
        BY DEF SignInv, SessionsOK
      <4>4. \A j \in stored : Used(j) => Used(j)'
        BY <1>1 DEF Used
      <4>5. \A d \in Callers : call[d].pc \in {"read", "put", "reread"}
                                 => call[d].code \notin stored
        BY DEF SignInv, CallsMade, CallOK
      <4> QED
        BY <1>1, <2>2, <2>9, <3>2, <4>1, <4>2, <4>3, <4>4, <4>5, CallMoves
    <3>4. OneAsks' /\ OneOpens' /\ RequestsCounted'
      BY <1>1, <2>6, <2>9, <2>11, AsksApart, OpensApart, NoMessageAdded DEF Asking
    <3>5. AttemptsCounted'
      <4>1. challenge.attempts \in Nat
        BY <2>2, ChallengeFields
      <4>2. PICK F \in SUBSET Callers : F = Failing(challenge.id)'
        BY DEF Failing
      <4>3. Cardinality(F) \in Nat /\ Cardinality(F) <= Cardinality(Callers)
        BY <4>2, SignConstants, FS_Subset, FS_CardinalityType
      <4>4. challenge.attempts + Cardinality(F) < MaxAttempts + Cardinality(Callers)
        BY <2>1, <4>1, <4>3, SignConstants
      <4> QED
        BY <1>1, <4>2, <4>4 DEF AttemptsCounted
    <3> QED
      BY <3>1, <3>3, <3>4, <3>5 DEF SignInv
  <2> QED
    BY <2>4, <2>10, <2>11
<1> QED
  BY <1>2, <1>3 DEF S!CheckCode

LEMMA SignOutStarts ==
  ASSUME SignInv, NEW c \in Callers, S!SignOut(c)
  PROVE  SignInv'
<1>1. /\ call[c] = S!Idle /\ account # Absent
      /\ S!Become(c, [S!Idle EXCEPT !.pc = "bump", !.at = time, !.seen = account])
      /\ UNCHANGED <<time, challenge, account, spent, codes, stored, sent, opened, signedOut>>
  BY DEF S!SignOut
<1>2. account \in Nat /\ time \in 0..MaxTime /\ time \in Nat
  BY <1>1, SignConstants DEF SignInv, StoreOK, SessionsOK
<1>3. PICK l \in S!Call : l = [S!Idle EXCEPT !.pc = "bump", !.at = time, !.seen = account]
  BY <1>2, IdleCall DEF S!Call
<1>4. l.pc = "bump" /\ l.at = time /\ l.seen = account
  BY <1>3, IdleCall DEF S!Call
<1>5. CallOK(l)
  BY <1>1, <1>2, <1>4, SignConstants DEF CallOK, Asking
<1> QED
  BY <1>1, <1>3, <1>4, <1>5, CallReads DEF Asking

LEMMA VerifyCodeStep ==
  ASSUME SignInv, NEW c \in Callers, S!VerifyCode(c)
  PROVE  SignInv'
<1>1. /\ S!Spend("verify")
      /\ UNCHANGED <<time, challenge, account, codes, stored, sent, opened, signedOut>>
  BY DEF S!VerifyCode
<1>2. PICK k \in {s.code : s \in sent} \cup {Absent} :
        S!Become(c, [S!Idle EXCEPT !.pc = "check", !.at = time, !.code = k])
  BY DEF S!VerifyCode
<1>3. time \in 0..MaxTime /\ time \in Nat /\ codes \in 0..MaxCodes
  BY SignConstants DEF SignInv, StoreOK
<1>4. k \in S!Code \cup {Absent}
  <2>1. stored \subseteq 1..codes /\ sent \subseteq [code: stored, window: WindowsOK]
    BY DEF SignInv, StoreOK
  <2>2. \A s \in sent : s.code \in stored
    BY <2>1
  <2>3. stored \subseteq S!Code
    BY <1>3, <2>1, SignConstants DEF S!Code
  <2> QED
    BY <1>2, <2>2, <2>3
<1>5. PICK l \in S!Call : l = [S!Idle EXCEPT !.pc = "check", !.at = time, !.code = k]
  BY <1>3, <1>4, IdleCall DEF S!Call
<1>6. l.pc = "check" /\ l.at = time
  BY <1>5, IdleCall DEF S!Call
<1>7. S!Become(c, l)
  BY <1>2, <1>5
<1>8. CallOK(l)'
  BY <1>1, <1>3, <1>6, SignConstants DEF CallOK, Asking
<1>9. CallsMade'
  <2>1. codes \in Nat
    BY <1>3, SignConstants
  <2>2. challenge # Absent => challenge \in S!Challenge /\ challenge.issued \in Nat
    BY ChallengeFields DEF SignInv, StoreOK, ChallengeOK
  <2>3. account \in Nat \cup {Absent}
    BY DEF SignInv, SessionsOK
  <2>4. \A j \in stored : Used(j) => Used(j)'
    BY <1>1 DEF Used
  <2>5. \A d \in Callers : call[d].pc \in {"read", "put", "reread"} => call[d].code \notin stored
    BY DEF SignInv, CallsMade, CallOK
  <2> QED
    BY <1>1, <1>7, <1>8, <2>1, <2>2, <2>3, <2>4, <2>5, CallMoves
<1>10. StoreOK'
  <2>1. spent' \in [{"request", "verify"} -> [WindowsOK -> Nat]]
    BY <1>1, Spending
  <2>2. ChallengeOK' /\ WindowsOK' = WindowsOK
    BY <1>1 DEF SignInv, StoreOK, ChallengeOK, WindowsOK, S!WindowOf
  <2> QED
    BY <1>1, <2>1, <2>2 DEF SignInv, StoreOK
<1>11. SessionsOK' /\ SpentOnce'
  BY <1>1 DEF SignInv, SessionsOK, S!SignedOutStaysOut, SpentOnce, Used
<1>12. OneAsks' /\ OneOpens' /\ AttemptsCounted'
  BY <1>1, <1>6, <1>7, AsksApart, OpensApart, AttemptsStay DEF Asking
<1>13. RequestsCounted'
  BY <1>1, <1>6, <1>7, Spending, NoMessageAdded DEF Asking
<1> QED
  BY <1>9, <1>10, <1>11, <1>12, <1>13 DEF SignInv

\* A challenge put in the place of another is of a code no call has been compared with.
LEMMA PutChallengeStep ==
  ASSUME SignInv, NEW c \in Callers, S!PutChallenge(c)
  PROVE  SignInv'
<1>1. /\ call[c] \in S!Call /\ CallOK(call[c]) /\ call[c].pc = "put"
      /\ UNCHANGED <<time, account, spent, codes, sent, opened, signedOut>>
  BY Called DEF SignInv, S!PutChallenge
<1>2. call[c] # S!Idle
  BY <1>1, IdleCall
<1>3. PICK k \in 1..codes : k = call[c].code
  BY <1>1 DEF CallOK, Asking
<1>4. PICK at \in 0..MaxTime : at = call[c].at
  BY <1>1, CallFields
<1>5. /\ codes \in Nat /\ k \in S!Code /\ k \notin stored /\ at \in Nat
      /\ at <= time /\ time <= at + CallTime
  BY <1>1, <1>2, <1>3, <1>4, SignConstants DEF SignInv, StoreOK, CallOK, S!Code
<1>6. challenge # Absent => challenge \in S!Challenge /\ challenge.issued \in Nat
  BY ChallengeFields DEF SignInv, StoreOK, ChallengeOK
<1>7. CASE S!Replaces(at)
  <2>1. PICK n \in S!Challenge :
          n = [id |-> k, issued |-> at, attempts |-> 0, consumed |-> FALSE]
    BY <1>5 DEF S!Challenge
  <2>2. n.id = k /\ n.issued = at /\ n.attempts = 0 /\ n # Absent /\ ~n.consumed
    BY <2>1, SignConstants
  <2>3. challenge' = n /\ stored' = stored \cup {k}
    BY <1>3, <1>4, <1>7, <2>1 DEF S!PutChallenge, S!Made
  <2>4. PICK l \in S!Call : l = [call[c] EXCEPT !.pc = "send"]
    BY <1>1 DEF S!Call
  <2>5. l.pc = "send" /\ l.code = k /\ l.at = at
    BY <1>1, <1>3, <1>4, <2>4 DEF S!Call
  <2>6. S!Become(c, l)
    BY <1>4, <1>7, <2>4 DEF S!PutChallenge
  <2>7. CallOK(l)'
    BY <1>1, <1>3, <1>5, <2>3, <2>5 DEF CallOK, Asking
  <2>8. \A j \in stored : Used(j)'
    BY <1>5, <2>2, <2>3 DEF Used
  <2>9. CallsMade'
    <3>1. challenge # Absent => challenge'.issued >= challenge.issued
      BY <1>5, <1>6, <1>7, <2>2, <2>3 DEF S!Replaces
    <3>2. \A d \in Callers : d # c /\ call[d].pc \in {"read", "put", "reread"}
                               => call[d].code \notin stored'
      BY <1>1, <1>3, <2>3 DEF SignInv, CallsMade, CallOK, OneAsks, Asking
    <3>3. account \in Nat \cup {Absent}
      BY DEF SignInv, SessionsOK
    <3> QED
      BY <1>1, <1>5, <2>2, <2>3, <2>6, <2>7, <2>8, <3>1, <3>2, <3>3, CallMoves
  <2>10. StoreOK'
    <3>1. ChallengeOK'
      BY <2>1, <2>2, <2>3 DEF ChallengeOK
    <3>2. stored' \subseteq 1..codes'
      BY <1>1, <2>3 DEF SignInv, StoreOK
    <3>3. sent \subseteq [code: stored', window: WindowsOK]
      BY <2>3 DEF SignInv, StoreOK
    <3> QED
      BY <1>1, <3>1, <3>2, <3>3 DEF SignInv, StoreOK, WindowsOK, S!WindowOf
  <2>11. SessionsOK'
    BY <1>1, <2>3 DEF SignInv, SessionsOK, S!SignedOutStaysOut
  <2>12. SpentOnce'
    <3>1. ASSUME NEW j \in S!Code, opened[j] = 1 PROVE Used(j)'
      BY <2>8, <3>1 DEF SignInv, SessionsOK
    <3> QED
      BY <1>1, <3>1 DEF SpentOnce, S!Code
  <2>13. OneAsks' /\ OneOpens'
    BY <1>1, <1>3, <2>5, <2>6, AsksApart, OpensApart DEF SignInv, OneAsks, Asking
  <2>14. RequestsCounted'
    BY <1>1, <1>3, <1>4, <2>5, <2>6, NoMessageAdded DEF Asking
  <2>15. AttemptsCounted'
    <3>1. Failing(k)' = {}
      BY <1>5, <2>5, <2>6, CallPlaced DEF Failing, SignInv, CallsMade, CallOK
    <3>2. Cardinality({}) = 0
      BY FS_EmptySet
    <3>3. Failing(challenge.id)' = {}
      BY <2>2, <2>3, <3>1 DEF Failing
    <3>4. 0 + Cardinality({}) < MaxAttempts + Cardinality(Callers)
      BY <3>2, SignConstants
    <3> QED
      BY <2>2, <2>3, <3>3, <3>4 DEF AttemptsCounted
  <2> QED
    BY <2>9, <2>10, <2>11, <2>12, <2>13, <2>14, <2>15 DEF SignInv
<1>8. CASE ~S!Replaces(at)
  <2>1. challenge # Absent /\ challenge.issued >= at
    BY <1>5, <1>6, <1>8 DEF S!Replaces
  <2>2. PICK l \in S!Call : l = [call[c] EXCEPT !.pc = "reread"]
    BY <1>1 DEF S!Call
  <2>3. l.pc = "reread" /\ l.code = k /\ l.at = at
    BY <1>1, <1>3, <1>4, <2>2 DEF S!Call
  <2>4. S!Become(c, l) /\ UNCHANGED <<challenge, stored>>
    BY <1>4, <1>8, <2>2 DEF S!PutChallenge
  <2>5. CallOK(l)
    BY <1>3, <1>5, <2>1, <2>3 DEF CallOK, Asking
  <2> QED
    BY <1>1, <1>3, <1>4, <2>3, <2>4, <2>5, CallReads DEF Asking
<1> QED
  BY <1>7, <1>8

\* A message was counted when its call asked for it.
LEMMA SendStep ==
  ASSUME SignInv, NEW c \in Callers, S!Send(c)
  PROVE  SignInv'
<1>1. /\ call[c] \in S!Call /\ CallOK(call[c]) /\ call[c].pc = "send" /\ S!Become(c, S!Idle)
      /\ UNCHANGED <<time, challenge, account, spent, codes, stored, opened, signedOut>>
  BY Called DEF SignInv, S!Send
<1>2. PICK v \in WindowsOK : v = S!WindowOf(call[c].at)
  BY <1>1, CallFields, WindowIn
<1>3. PICK k \in stored : k = call[c].code
  BY <1>1 DEF CallOK
<1>4. PICK s \in [code: stored, window: WindowsOK] : s = [code |-> k, window |-> v]
  OBVIOUS
<1>5. sent' = sent \cup {s}
  BY <1>2, <1>3, <1>4 DEF S!Send
<1>6. StoreOK'
  BY <1>1, <1>5 DEF SignInv, StoreOK, ChallengeOK, WindowsOK, S!WindowOf
<1>7. SessionsOK' /\ SpentOnce'
  BY <1>1 DEF SignInv, SessionsOK, S!SignedOutStaysOut, SpentOnce, Used
<1>8. CallsMade'
  <2>1. codes \in Nat
    BY SignConstants DEF SignInv, StoreOK
  <2>2. challenge # Absent => challenge \in S!Challenge /\ challenge.issued \in Nat
    BY ChallengeFields DEF SignInv, StoreOK, ChallengeOK
  <2>3. account \in Nat \cup {Absent}
    BY DEF SignInv, SessionsOK
  <2>4. \A j \in stored : Used(j) => Used(j)'
    BY <1>1 DEF Used
  <2>5. \A d \in Callers : call[d].pc \in {"read", "put", "reread"} => call[d].code \notin stored
    BY DEF SignInv, CallsMade, CallOK
  <2>6. CallOK(S!Idle)'
    BY <1>1, IdleOK DEF CallOK, Used
  <2> QED
    BY <1>1, <2>1, <2>2, <2>3, <2>4, <2>5, <2>6, IdleCall, CallMoves
<1>9. OneAsks' /\ OneOpens' /\ AttemptsCounted'
  BY <1>1, IdleCall, AsksApart, OpensApart, AttemptsStay DEF Asking
<1>10. ASSUME NEW w \in WindowsOK
       PROVE  /\ IsFiniteSet(Messages(w)') /\ Cardinality(Messages(w)') <= spent'["request"][w]
              /\ spent'["request"][w] <= RequestLimit
  <2>1. Messages(w)' \subseteq Messages(w)
    <3>1. ASSUME NEW d \in Callers, call'[d].pc \in Asking
          PROVE  call[d] = call'[d]
      BY <1>1, <3>1, IdleCall, CallPlaced DEF Asking
    <3>2. ASSUME s.window = w PROVE s \in Messages(w)
      <4>1. v = w /\ s = [code |-> call[c].code, window |-> w]
        BY <1>3, <1>4, <3>2
      <4>2. call[c].pc \in Asking /\ S!WindowOf(call[c].at) = w
        BY <1>1, <1>2, <4>1 DEF Asking
      <4> QED
        BY <4>1, <4>2 DEF Messages
    <3> QED
      BY <1>5, <3>1, <3>2 DEF Messages, S!WindowOf
  <2>2. /\ IsFiniteSet(Messages(w)) /\ Cardinality(Messages(w)) <= spent["request"][w]
        /\ spent["request"][w] <= RequestLimit
    BY DEF SignInv, RequestsCounted
  <2>3. PICK T \in SUBSET Messages(w) : T = Messages(w)'
    BY <2>1
  <2>4. IsFiniteSet(T) /\ Cardinality(T) <= Cardinality(Messages(w))
    BY <2>2, <2>3, FS_Subset
  <2>5. /\ Cardinality(T) \in Nat /\ Cardinality(Messages(w)) \in Nat
        /\ spent["request"][w] \in Nat
    BY <2>2, <2>4, FS_CardinalityType DEF SignInv, StoreOK
  <2> QED
    BY <1>1, <2>2, <2>3, <2>4, <2>5
<1>11. RequestsCounted'
  BY <1>10 DEF RequestsCounted, WindowsOK, S!WindowOf
<1> QED
  BY <1>6, <1>7, <1>8, <1>9, <1>11 DEF SignInv

\* A recorded failure counts the call that leaves.
LEMMA RecordFailedStep ==
  ASSUME SignInv, NEW c \in Callers, S!RecordFailedAttempt(c)
  PROVE  SignInv'
<1>1. /\ call[c] \in S!Call /\ CallOK(call[c]) /\ call[c].pc = "fail" /\ S!Become(c, S!Idle)
      /\ UNCHANGED <<time, account, spent, codes, stored, sent, opened, signedOut>>
  BY Called DEF SignInv, S!RecordFailedAttempt
<1>2. CASE ~S!Current(call[c])
  BY <1>1, <1>2, GivingUp DEF S!RecordFailedAttempt
<1>3. CASE S!Current(call[c])
  <2>1. challenge \in S!Challenge /\ challenge.id \in stored /\ challenge # Absent
    BY <1>3 DEF S!Current, SignInv, StoreOK, ChallengeOK
  <2>2. PICK n \in Nat : n = challenge.attempts + 1
    BY <2>1, ChallengeFields
  <2>3. PICK m \in S!Challenge : m = [challenge EXCEPT !.attempts = n]
    BY <2>1 DEF S!Challenge
  <2>4. challenge' = m
    BY <1>3, <2>2, <2>3 DEF S!RecordFailedAttempt
  <2>5. /\ m.id = challenge.id /\ m.issued = challenge.issued /\ m.attempts = n
        /\ m.consumed = challenge.consumed /\ m # Absent
    BY <2>1, <2>3, SignConstants DEF S!Challenge
  <2>6. ASSUME NEW j PROVE Used(j) <=> Used(j)'
    BY <2>1, <2>4, <2>5 DEF Used
  <2>7. StoreOK'
    BY <1>1, <2>1, <2>4, <2>5
       DEF SignInv, StoreOK, ChallengeOK, WindowsOK, S!WindowOf
  <2>8. SessionsOK'
    BY <1>1 DEF SignInv, SessionsOK, S!SignedOutStaysOut
  <2>9. SpentOnce'
    <3>1. ASSUME NEW j \in S!Code, opened[j] = 1 PROVE Used(j)'
      BY <2>6, <3>1 DEF SignInv, SpentOnce
    <3> QED
      BY <1>1, <3>1 DEF SpentOnce, S!Code
  <2>10. CallsMade'
    <3>1. codes \in Nat
      BY SignConstants DEF SignInv, StoreOK
    <3>2. challenge.issued \in Nat
      BY <2>1, ChallengeFields
    <3>3. account \in Nat \cup {Absent}
      BY DEF SignInv, SessionsOK
    <3>4. \A j \in stored : Used(j) => Used(j)'
      BY <2>6
    <3>5. \A d \in Callers : call[d].pc \in {"read", "put", "reread"}
                               => call[d].code \notin stored
      BY DEF SignInv, CallsMade, CallOK
    <3>6. CallOK(S!Idle)'
      BY <1>1, IdleOK, IdleCall DEF CallOK, Asking
    <3> QED
      BY <1>1, <2>1, <2>4, <2>5, <3>1, <3>2, <3>3, <3>4, <3>5, <3>6, IdleCall, CallMoves
  <2>11. OneAsks' /\ OneOpens' /\ RequestsCounted'
    BY <1>1, IdleCall, AsksApart, OpensApart, NoMessageAdded DEF Asking
  <2>12. AttemptsCounted'
    <3>1. PICK k : k = challenge.id
      OBVIOUS
    <3>2. call[c].seen = k
      BY <1>3, <3>1 DEF S!Current
    <3>3. /\ Cardinality(Failing(k)') \in Nat /\ Cardinality(Failing(k)) \in Nat
          /\ Cardinality(Failing(k)') < Cardinality(Failing(k))
      BY <1>1, <3>2, IdleCall, FailingStays
    <3>4. challenge.attempts + Cardinality(Failing(k)) < MaxAttempts + Cardinality(Callers)
      BY <2>1, <3>1 DEF SignInv, AttemptsCounted
    <3>5. challenge.attempts \in Nat
      BY <2>1, ChallengeFields
    <3>6. n + Cardinality(Failing(k)') < MaxAttempts + Cardinality(Callers)
      BY <2>2, <3>3, <3>4, <3>5, SignConstants
    <3>7. Failing(challenge.id)' = Failing(k)'
      BY <2>4, <2>5, <3>1 DEF Failing
    <3> QED
      BY <2>4, <2>5, <3>6, <3>7 DEF AttemptsCounted
  <2> QED
    BY <2>7, <2>8, <2>9, <2>10, <2>11, <2>12 DEF SignInv
<1> QED
  BY <1>2, <1>3

\* Whoever consumes a challenge is the only one to.
LEMMA ConsumeStep ==
  ASSUME SignInv, NEW c \in Callers, S!ConsumeChallenge(c)
  PROVE  SignInv'
<1>1. /\ call[c] \in S!Call /\ CallOK(call[c]) /\ call[c].pc = "consume"
      /\ UNCHANGED <<time, account, spent, codes, stored, sent, opened, signedOut>>
  BY Called DEF SignInv, S!ConsumeChallenge
<1>2. CASE ~S!Current(call[c])
  BY <1>1, <1>2, GivingUp DEF S!ConsumeChallenge, S!Consumable
<1>3. CASE S!Current(call[c])
  <2>1. challenge \in S!Challenge /\ challenge.id \in stored /\ challenge # Absent
    BY <1>3 DEF S!Current, SignInv, StoreOK, ChallengeOK
  <2>2. PICK k \in S!Code : k = challenge.id
    BY <2>1, ChallengeFields
  <2>3. call[c].seen = k /\ ~challenge.consumed
    BY <1>3, <2>2 DEF S!Current
  <2>4. ~Used(k)
    BY <2>1, <2>2, <2>3 DEF Used
  <2>5. PICK m \in S!Challenge : m = [challenge EXCEPT !.consumed = TRUE]
    BY <2>1 DEF S!Challenge
  <2>6. PICK l \in S!Call : l = [call[c] EXCEPT !.pc = "account"]
    BY <1>1 DEF S!Call
  <2>7. challenge' = m /\ S!Become(c, l)
    BY <1>3, <2>5, <2>6 DEF S!ConsumeChallenge, S!Consumable
  <2>8. /\ m.id = k /\ m.issued = challenge.issued /\ m.attempts = challenge.attempts
        /\ m.consumed /\ m # Absent
    BY <2>1, <2>2, <2>5, SignConstants DEF S!Challenge
  <2>9. l.pc = "account" /\ l.seen = k /\ l.at = call[c].at
    BY <1>1, <2>3, <2>6 DEF S!Call
  <2>10. ASSUME NEW j PROVE Used(j)'
    BY <2>7, <2>8 DEF Used
  <2>11. opened[k] = 0 /\ k \in stored
    BY <2>1, <2>2, <2>4 DEF SignInv, SpentOnce, SessionsOK
  <2>12. call[c] # S!Idle
    BY <1>1, IdleCall
  <2>13. CallOK(l)'
    BY <1>1, <2>9, <2>10, <2>11, <2>12 DEF CallOK, Asking
  <2>14. StoreOK'
    BY <1>1, <2>1, <2>2, <2>7, <2>8
       DEF SignInv, StoreOK, ChallengeOK, WindowsOK, S!WindowOf
  <2>15. SessionsOK'
    BY <1>1 DEF SignInv, SessionsOK, S!SignedOutStaysOut
  <2>16. SpentOnce'
    BY <2>10 DEF SpentOnce
  <2>17. CallsMade'
    <3>1. codes \in Nat
      BY SignConstants DEF SignInv, StoreOK
    <3>2. challenge.issued \in Nat
      BY <2>1, ChallengeFields
    <3>3. account \in Nat \cup {Absent}
      BY DEF SignInv, SessionsOK
    <3>4. \A j \in stored : Used(j) => Used(j)'
      BY <2>10
    <3>5. \A d \in Callers : call[d].pc \in {"read", "put", "reread"}
                               => call[d].code \notin stored
      BY DEF SignInv, CallsMade, CallOK
    <3> QED
      BY <1>1, <2>1, <2>7, <2>8, <2>13, <3>1, <3>2, <3>3, <3>4, <3>5, CallMoves
  <2>18. OneOpens'
    <3>1. ASSUME NEW d \in Callers, call[d].pc = "account" PROVE call[d].seen # l.seen
      <4>1. Used(call[d].seen)
        BY <3>1 DEF SignInv, CallsMade, CallOK
      <4> QED
        BY <2>4, <2>9, <4>1
    <3> QED
      BY <2>7, <3>1, OpensApart
  <2>19. OneAsks' /\ RequestsCounted'
    BY <1>1, <2>7, <2>9, AsksApart, NoMessageAdded DEF Asking
  <2>20. AttemptsCounted'
    <3>1. /\ Cardinality(Failing(k)') \in Nat /\ Cardinality(Failing(k)) \in Nat
          /\ Cardinality(Failing(k)') <= Cardinality(Failing(k))
      BY <2>7, <2>9, FailingStays
    <3>2. challenge.attempts + Cardinality(Failing(k)) < MaxAttempts + Cardinality(Callers)
      BY <2>1, <2>2 DEF SignInv, AttemptsCounted
    <3>3. challenge.attempts \in Nat
      BY <2>1, ChallengeFields
    <3>4. challenge.attempts + Cardinality(Failing(k)') < MaxAttempts + Cardinality(Callers)
      BY <3>1, <3>2, <3>3, SignConstants
    <3>5. Failing(challenge.id)' = Failing(k)'
      BY <2>7, <2>8 DEF Failing
    <3> QED
      BY <2>7, <2>8, <3>4, <3>5 DEF AttemptsCounted
  <2> QED
    BY <2>14, <2>15, <2>16, <2>17, <2>18, <2>19, <2>20 DEF SignInv
<1> QED
  BY <1>2, <1>3

LEMMA StoredCodes ==
  ASSUME SignInv
  PROVE  stored \subseteq S!Code
<1>1. codes \in 0..MaxCodes /\ stored \subseteq 1..codes
  BY DEF SignInv, StoreOK
<1> QED
  BY <1>1, SignConstants DEF S!Code

LEMMA OpenSessionStep ==
  ASSUME SignInv, NEW c \in Callers, S!OpenSession(c)
  PROVE  SignInv'
<1>1. /\ call[c] \in S!Call /\ CallOK(call[c]) /\ call[c].pc = "account" /\ S!Become(c, S!Idle)
      /\ UNCHANGED <<time, challenge, spent, codes, stored, sent, signedOut>>
  BY Called DEF SignInv, S!OpenSession
<1>2. PICK k : k = call[c].seen
  OBVIOUS
<1>3. k \in stored /\ k \in S!Code /\ Used(k) /\ opened[k] = 0
  BY <1>1, <1>2, StoredCodes DEF CallOK
<1>4. opened \in [S!Code -> 0..1]
  BY DEF SignInv, SessionsOK
<1>5. opened' = [opened EXCEPT ![k] = 1]
  <2>1. opened' = [opened EXCEPT ![k] = opened[k] + 1]
    BY <1>2 DEF S!OpenSession
  <2> QED
    BY <1>3, <2>1
<1>6. account' \in Nat /\ (account # Absent => account' = account)
  BY DEF S!OpenSession, S!Upserted, SignInv, SessionsOK
<1>7. StoreOK'
  BY <1>1 DEF SignInv, StoreOK, ChallengeOK, WindowsOK, S!WindowOf
<1>8. SessionsOK'
  <2>1. account' # Absent
    BY <1>6, SignConstants
  <2>2. S!SignedOutStaysOut'
    BY <1>1, <1>6, <2>1 DEF SignInv, SessionsOK, S!SignedOutStaysOut
  <2>3. opened' \in [S!Code -> 0..1] /\ \A j \in S!Code : opened'[j] = 1 => j \in stored
    BY <1>3, <1>4, <1>5 DEF SignInv, SessionsOK
  <2> QED
    BY <1>1, <1>6, <2>2, <2>3 DEF SignInv, SessionsOK, S!Code
<1>9. SpentOnce'
  <2>1. ASSUME NEW j \in S!Code, opened'[j] = 1 PROVE Used(j)
    BY <1>3, <1>4, <1>5, <2>1 DEF SignInv, SpentOnce
  <2> QED
    BY <1>1, <2>1 DEF SpentOnce, Used, S!Code
<1>10. CallsMade'
  <2>1. codes \in Nat
    BY SignConstants DEF SignInv, StoreOK
  <2>2. challenge # Absent => challenge \in S!Challenge /\ challenge.issued \in Nat
    BY ChallengeFields DEF SignInv, StoreOK, ChallengeOK
  <2>3. \A j \in stored : Used(j) => Used(j)'
    BY <1>1 DEF Used
  <2>4. \A d \in Callers : call[d].pc \in {"read", "put", "reread"} => call[d].code \notin stored
    BY DEF SignInv, CallsMade, CallOK
  <2>5. \A d \in Callers : d # c /\ call[d].pc = "account"
                             => opened'[call[d].seen] = opened[call[d].seen]
    <3>1. ASSUME NEW d \in Callers, d # c, call[d].pc = "account"
          PROVE  call[d].seen # k /\ call[d].seen \in S!Code
      BY <1>1, <1>2, <3>1, StoredCodes DEF SignInv, OneOpens, CallsMade, CallOK
    <3> QED
      BY <1>4, <1>5, <3>1
  <2>6. CallOK(S!Idle)'
    BY <1>1, IdleOK, IdleCall DEF CallOK, Asking
  <2>7. account # Absent => account' # Absent /\ account' >= account /\ account' \in Nat
    BY <1>6
  <2> QED
    BY <1>1, <2>1, <2>2, <2>3, <2>4, <2>5, <2>6, <2>7, IdleCall, CallMoves
<1>11. OneAsks' /\ OneOpens' /\ RequestsCounted' /\ AttemptsCounted'
  BY <1>1, IdleCall, AsksApart, OpensApart, NoMessageAdded, AttemptsStay DEF Asking
<1> QED
  BY <1>7, <1>8, <1>9, <1>10, <1>11 DEF SignInv

\* A sign-out raises the version above the one it was asked with.
LEMMA BumpStep ==
  ASSUME SignInv, NEW c \in Callers, S!BumpTokenVersion(c)
  PROVE  SignInv'
<1>1. /\ call[c] \in S!Call /\ CallOK(call[c]) /\ call[c].pc = "bump" /\ S!Become(c, S!Idle)
      /\ UNCHANGED <<time, challenge, spent, codes, stored, sent, opened>>
      /\ account' = account + 1 /\ signedOut' = signedOut \cup {call[c].seen}
  BY Called DEF SignInv, S!BumpTokenVersion
<1>2. PICK v \in Nat : v = call[c].seen /\ account # Absent /\ v <= account
  BY <1>1 DEF CallOK
<1>3. account \in Nat /\ account' \in Nat /\ account' # Absent /\ account' > account
  BY <1>1, <1>2, SignConstants DEF SignInv, SessionsOK
<1>4. StoreOK' /\ SpentOnce'
  BY <1>1 DEF SignInv, StoreOK, ChallengeOK, WindowsOK, S!WindowOf, SpentOnce, Used, S!Code
<1>5. SessionsOK'
  <2>1. ASSUME NEW u \in signedOut' PROVE u \in Nat /\ account' > u
    <3>1. u \in signedOut => u \in Nat /\ account > u
      BY DEF SignInv, SessionsOK, S!SignedOutStaysOut
    <3> QED
      BY <1>1, <1>2, <1>3, <3>1
  <2>2. S!SignedOutStaysOut'
    BY <1>3, <2>1 DEF S!SignedOutStaysOut
  <2> QED
    BY <1>1, <1>3, <2>1, <2>2 DEF SignInv, SessionsOK, S!Code
<1>6. CallsMade'
  <2>1. codes \in Nat
    BY SignConstants DEF SignInv, StoreOK
  <2>2. challenge # Absent => challenge \in S!Challenge /\ challenge.issued \in Nat
    BY ChallengeFields DEF SignInv, StoreOK, ChallengeOK
  <2>3. \A j \in stored : Used(j) => Used(j)'
    BY <1>1 DEF Used
  <2>4. \A d \in Callers : call[d].pc \in {"read", "put", "reread"} => call[d].code \notin stored
    BY DEF SignInv, CallsMade, CallOK
  <2>5. CallOK(S!Idle)'
    BY <1>1, IdleOK, IdleCall DEF CallOK, Asking
  <2> QED
    BY <1>1, <1>3, <2>1, <2>2, <2>3, <2>4, <2>5, IdleCall, CallMoves
<1>7. OneAsks' /\ OneOpens' /\ RequestsCounted' /\ AttemptsCounted'
  BY <1>1, IdleCall, AsksApart, OpensApart, NoMessageAdded, AttemptsStay DEF Asking
<1> QED
  BY <1>4, <1>5, <1>6, <1>7 DEF SignInv

\* The table removes a challenge no call under way was refused for.
LEMMA RemoveStep ==
  ASSUME SignInv, S!Remove
  PROVE  SignInv'
<1>1. /\ challenge # Absent /\ time >= challenge.issued + Life /\ challenge' = Absent
      /\ UNCHANGED <<time, account, spent, codes, stored, sent, opened, signedOut, call>>
  BY DEF S!Remove
<1>2. challenge.issued \in Nat /\ time \in Nat
  BY <1>1, ChallengeFields, SignConstants DEF SignInv, StoreOK, ChallengeOK
<1>3. ASSUME NEW j PROVE Used(j)'
  BY <1>1 DEF Used
<1>4. CallsMade'
  <2>1. ASSUME NEW c \in Callers PROVE CallOK(call[c])'
    <3>1. PICK l \in S!Call : l = call[c]
      BY DEF SignInv, CallsMade
    <3>2. CallOK(l) /\ l.at \in Nat /\ call'[c] = l
      BY <1>1, <3>1, CallFields DEF SignInv, CallsMade
    <3>3. l.pc # "reread"
      BY <1>1, <1>2, <3>2, IdleCall, SignConstants DEF CallOK
    <3>4. CallOK(l)'
      BY <1>1, <1>3, <3>2, <3>3 DEF CallOK
    <3> QED
      BY <3>2, <3>4 DEF CallOK, Used
  <2> QED
    BY <1>1, <2>1 DEF SignInv, CallsMade
<1>5. StoreOK' /\ SessionsOK' /\ OneAsks' /\ OneOpens'
  BY <1>1 DEF SignInv, StoreOK, ChallengeOK, WindowsOK, S!WindowOf, SessionsOK,
              S!SignedOutStaysOut, OneAsks, OneOpens, S!Code
<1>6. SpentOnce' /\ AttemptsCounted'
  BY <1>1, <1>3 DEF SpentOnce, AttemptsCounted
<1>7. RequestsCounted'
  BY <1>1 DEF SignInv, RequestsCounted, Messages, WindowsOK, S!WindowOf
<1> QED
  BY <1>4, <1>5, <1>6, <1>7 DEF SignInv

LEMMA TickStep ==
  ASSUME SignInv, S!Tick
  PROVE  SignInv'
<1>1. /\ time < MaxTime /\ time' = time + 1
      /\ \A c \in Callers : call[c] = S!Idle \/ time < call[c].at + CallTime
      /\ UNCHANGED <<challenge, account, spent, codes, stored, sent, opened, signedOut, call>>
  BY DEF S!Tick
<1>2. time \in Nat /\ time' \in 0..MaxTime
  BY <1>1, SignConstants DEF SignInv, StoreOK
<1>3. CallsMade'
  <2>1. ASSUME NEW c \in Callers PROVE CallOK(call[c])'
    <3>1. PICK l \in S!Call : l = call[c]
      BY DEF SignInv, CallsMade
    <3>2. CallOK(l) /\ l.at \in Nat /\ call'[c] = l
      BY <1>1, <3>1, CallFields DEF SignInv, CallsMade
    <3>3. l.at <= time' /\ (l # S!Idle => time' <= l.at + CallTime)
      BY <1>1, <1>2, <3>1, <3>2, SignConstants DEF CallOK
    <3>4. CallOK(l)'
      BY <1>1, <3>2, <3>3 DEF CallOK, Used
    <3> QED
      BY <3>2, <3>4 DEF CallOK, Used
  <2> QED
    BY <1>1, <2>1 DEF SignInv, CallsMade
<1>4. StoreOK'
  BY <1>1, <1>2 DEF SignInv, StoreOK, ChallengeOK, WindowsOK, S!WindowOf
<1>5. SessionsOK' /\ OneAsks' /\ OneOpens' /\ SpentOnce'
  BY <1>1 DEF SignInv, SessionsOK, S!SignedOutStaysOut, OneAsks, OneOpens, SpentOnce, Used, S!Code
<1>6. RequestsCounted' /\ AttemptsCounted'
  BY <1>1 DEF SignInv, RequestsCounted, Messages, WindowsOK, S!WindowOf, AttemptsCounted, Failing
<1> QED
  BY <1>3, <1>4, <1>5, <1>6 DEF SignInv

LEMMA SignStep == SignInv /\ [S!Next]_(S!vars) => SignInv'
<1> SUFFICES ASSUME SignInv, [S!Next]_(S!vars) PROVE SignInv'
  OBVIOUS
<1>1. CASE UNCHANGED S!vars
  <2>1. UNCHANGED <<time, challenge, account, spent, codes, stored, sent, opened, signedOut, call>>
    BY <1>1 DEF S!vars
  <2>2. StoreOK' /\ SessionsOK' /\ OneAsks' /\ OneOpens' /\ SpentOnce'
    BY <2>1 DEF SignInv, StoreOK, ChallengeOK, WindowsOK, S!WindowOf, SessionsOK,
                S!SignedOutStaysOut, OneAsks, OneOpens, SpentOnce, Used, S!Code
  <2>3. CallsMade'
    BY <2>1 DEF SignInv, CallsMade, CallOK, Used
  <2>4. RequestsCounted' /\ AttemptsCounted'
    BY <2>1
       DEF SignInv, RequestsCounted, Messages, WindowsOK, S!WindowOf, AttemptsCounted, Failing
  <2> QED
    BY <2>2, <2>3, <2>4 DEF SignInv
<1>2. ASSUME NEW c \in Callers, S!CutOff(c) PROVE SignInv'
  BY <1>2, GivingUp DEF S!CutOff
<1> QED
  BY <1>1, <1>2, RequestCodeStep, ReadForRequestStep, PutChallengeStep, RereadStep, SendStep,
     VerifyCodeStep, CheckCodeStep, RecordFailedStep, ConsumeStep, OpenSessionStep,
     SignOutStarts, BumpStep, RemoveStep, TickStep
     DEF S!Next

LEMMA SignInit == S!Init => SignInv
<1> SUFFICES ASSUME S!Init PROVE SignInv
  OBVIOUS
<1>1. /\ time = 0 /\ challenge = Absent /\ account = Absent /\ codes = 0
      /\ stored = {} /\ sent = {} /\ signedOut = {}
      /\ spent = [a \in {"request", "verify"} |-> [w \in WindowsOK |-> 0]]
      /\ opened = [k \in S!Code |-> 0] /\ call = [c \in Callers |-> S!Idle]
  BY DEF S!Init, WindowsOK
<1>2. StoreOK
  BY <1>1, SignConstants DEF StoreOK, ChallengeOK
<1>3. SessionsOK /\ SpentOnce
  BY <1>1 DEF SessionsOK, S!SignedOutStaysOut, SpentOnce
<1>4. CallsMade
  <2>1. CallOK(S!Idle)
    BY <1>1, IdleCall DEF CallOK, Asking
  <2> QED
    BY <1>1, <2>1, IdleCall DEF CallsMade
<1>5. OneAsks /\ OneOpens /\ AttemptsCounted
  BY <1>1, IdleCall DEF OneAsks, OneOpens, AttemptsCounted, Asking
<1>6. ASSUME NEW w \in WindowsOK
      PROVE  /\ IsFiniteSet(Messages(w)) /\ Cardinality(Messages(w)) <= spent["request"][w]
             /\ spent["request"][w] <= RequestLimit
  <2>1. Messages(w) = {}
    BY <1>1, IdleCall DEF Messages, Asking
  <2>2. spent["request"][w] = 0
    BY <1>1
  <2> QED
    BY <2>1, <2>2, FS_EmptySet, SignConstants
<1> QED
  BY <1>2, <1>3, <1>4, <1>5, <1>6 DEF SignInv, RequestsCounted

LEMMA SignHolds ==
  SignInv => /\ S!TypeOK /\ S!OneSessionPerCode /\ S!SentIsStored
             /\ S!BudgetHolds /\ S!SignedOutStaysOut
<1> SUFFICES ASSUME SignInv
             PROVE  /\ S!TypeOK /\ S!OneSessionPerCode /\ S!SentIsStored
                    /\ S!BudgetHolds /\ S!SignedOutStaysOut
  OBVIOUS
<1>1. stored \subseteq S!Code /\ \A s \in sent : s.code \in stored
  BY StoredCodes DEF SignInv, StoreOK
<1>2. S!OneSessionPerCode /\ S!SentIsStored /\ S!SignedOutStaysOut
  BY <1>1 DEF SignInv, SessionsOK, S!OneSessionPerCode, S!SentIsStored
<1>3. S!TypeOK
  <2>1. challenge \in S!Challenge \cup {Absent}
    BY DEF SignInv, StoreOK, ChallengeOK
  <2>2. opened \in [S!Code -> Nat]
    BY DEF SignInv, SessionsOK
  <2>3. sent \subseteq [code: S!Code, window: WindowsOK]
    BY <1>1 DEF SignInv, StoreOK
  <2>4. account \in Nat \cup {Absent} /\ signedOut \subseteq Nat /\ call \in [Callers -> S!Call]
    BY DEF SignInv, SessionsOK, CallsMade
  <2>5. /\ time \in 0..MaxTime /\ codes \in 0..MaxCodes
        /\ spent \in [{"request", "verify"} -> [WindowsOK -> Nat]]
    BY DEF SignInv, StoreOK
  <2> QED
    BY <1>1, <2>1, <2>2, <2>3, <2>4, <2>5 DEF S!TypeOK, WindowsOK
<1>4. ASSUME NEW w \in WindowsOK
      PROVE  S!Cardinality({s \in sent : s.window = w}) <= RequestLimit
  <2>1. PICK T \in SUBSET Messages(w) : T = {s \in sent : s.window = w}
    BY DEF Messages
  <2>2. /\ IsFiniteSet(Messages(w)) /\ Cardinality(Messages(w)) <= spent["request"][w]
        /\ spent["request"][w] <= RequestLimit
    BY DEF SignInv, RequestsCounted
  <2>3. IsFiniteSet(T) /\ Cardinality(T) <= Cardinality(Messages(w))
    BY <2>2, FS_Subset
  <2>4. /\ Cardinality(T) \in Nat /\ Cardinality(Messages(w)) \in Nat
        /\ spent["request"][w] \in Nat
    BY <2>2, <2>3, FS_CardinalityType DEF SignInv, StoreOK
  <2>5. Cardinality(T) <= RequestLimit
    BY <2>2, <2>3, <2>4, SignConstants
  <2> QED
    BY <2>1, <2>5, CountingCalls
<1>5. challenge # Absent => challenge.attempts < MaxAttempts + S!Cardinality(Callers)
  <2> SUFFICES ASSUME challenge # Absent
               PROVE  challenge.attempts < MaxAttempts + Cardinality(Callers)
    BY CountingCalls
  <2>1. challenge.attempts \in Nat
    BY ChallengeFields DEF SignInv, StoreOK, ChallengeOK
  <2>2. Cardinality(Failing(challenge.id)) \in Nat
    BY FailingBounded
  <2>3. challenge.attempts + Cardinality(Failing(challenge.id)) < MaxAttempts + Cardinality(Callers)
    BY DEF SignInv, AttemptsCounted
  <2> QED
    BY <2>1, <2>2, <2>3, SignConstants
<1> QED
  BY <1>2, <1>3, <1>4, <1>5 DEF S!BudgetHolds, WindowsOK

\* A challenge gives way only to one issued later.
LEMMA NewestStands ==
  ASSUME SignInv, [S!Next]_(S!vars), challenge # Absent, challenge' # Absent,
         challenge'.id # challenge.id
  PROVE  challenge'.issued > challenge.issued
<1>1. challenge \in S!Challenge /\ challenge.issued \in Nat
  BY ChallengeFields DEF SignInv, StoreOK, ChallengeOK
<1>2. ASSUME NEW c \in Callers, S!RecordFailedAttempt(c) PROVE challenge'.id = challenge.id
  <2>1. PICK n \in Nat : n = challenge.attempts + 1
    BY <1>1, ChallengeFields
  <2>2. challenge' = challenge \/ challenge' = [challenge EXCEPT !.attempts = n]
    BY <1>2, <2>1 DEF S!RecordFailedAttempt
  <2> QED
    BY <1>1, <2>2 DEF S!Challenge
<1>3. ASSUME NEW c \in Callers, S!ConsumeChallenge(c) PROVE challenge'.id = challenge.id
  BY <1>1, <1>3 DEF S!ConsumeChallenge, S!Challenge
<1>4. ASSUME NEW c \in Callers, S!PutChallenge(c), challenge' # challenge
      PROVE  challenge'.issued > challenge.issued
  <2>1. PICK at \in Nat : at = call[c].at
    BY CallFields DEF SignInv, CallsMade
  <2>2. challenge.issued < at
    BY <1>4, <2>1 DEF S!PutChallenge, S!Replaces
  <2>3. challenge'.issued = at
    BY <1>4, <2>1 DEF S!PutChallenge, S!Made
  <2> QED
    BY <1>1, <2>2, <2>3
<1>5. \/ UNCHANGED challenge \/ challenge' = Absent
      \/ \E c \in Callers : \/ S!RecordFailedAttempt(c) \/ S!ConsumeChallenge(c)
                            \/ S!PutChallenge(c)
  BY DEF S!Next, S!vars, S!RequestCode, S!ReadForRequest, S!Reread, S!Send, S!VerifyCode,
         S!CheckCode, S!OpenSession, S!SignOut, S!BumpTokenVersion, S!CutOff, S!Remove, S!Tick
<1> QED
  BY <1>2, <1>3, <1>4, <1>5

-----------------------------------------------------------------------------
(* The three together: a step is one component's, and leaves the others.    *)

AccessInv == SignInv /\ AdminInv /\ BillingInv

LEMMA ComponentSteps ==
  ASSUME [Next]_vars
  PROVE  [S!Next]_(S!vars) /\ [A!Next]_(A!vars) /\ [B!Next]_(B!vars)
<1>1. UNCHANGED svars => UNCHANGED S!vars
  BY DEF svars, S!vars
<1>2. UNCHANGED avars => UNCHANGED A!vars
  BY DEF avars, A!vars, A!login, A!grants
<1>3. UNCHANGED bvars => UNCHANGED B!vars
  BY DEF bvars, B!vars, B!stripe
<1> QED
  BY <1>1, <1>2, <1>3 DEF Next, vars

LEMMA AccessHolds == Spec => []AccessInv
<1>1. Init => AccessInv
  BY SignInit, AdminInit, BillingInit DEF Init, AccessInv
<1>2. AccessInv /\ [Next]_vars => AccessInv'
  BY ComponentSteps, SignStep, AdminStep, BillingStep DEF AccessInv
<1> QED
  BY <1>1, <1>2, PTL DEF Spec

\* Rows, budgets and calls of sign-in, administered access and billing are of their kind
\* (identity-repository.ts, admin-access-repository.ts, billing-handler.ts).
THEOREM TypeCorrect == Spec => []TypeOK
<1>1. AccessInv => TypeOK
  BY SignHolds, AdminHolds, BillingHolds DEF AccessInv, TypeOK
<1> QED
  BY <1>1, AccessHolds, PTL

\* However many calls overlap and wherever they are cut off, a code opens one session and is
\* sent only where it is stored, guesses and requests keep to their budgets and a token
\* signed out stays out; and a person's rows are entered together, with audits that tell each
\* grant's history and each answer.
THEOREM CodesCorrect == Spec => []CodesAndEntry
<1>1. AccessInv => CodesAndEntry
  BY SignHolds, AdminHolds DEF AccessInv, CodesAndEntry
<1> QED
  BY <1>1, AccessHolds, PTL

\* In whatever order Stripe's events come and however calls overlap, every customer's event
\* finds its account, and no access goes beyond what was paid for or tried.
THEOREM PaidForCorrect == Spec => []PaidFor
<1>1. AccessInv => PaidFor
  BY BillingHolds DEF AccessInv, PaidFor
<1> QED
  BY <1>1, AccessHolds, PTL

\* No step takes back the newest code, a token's version, the second an entitlement was last
\* changed at, or access that Stripe's events gave.
THEOREM FencesCorrect == Spec => FencesRise
<1>1. AccessInv /\ [Next]_vars
        => [challenge # Absent /\ challenge' # Absent /\ challenge'.id # challenge.id
              => challenge'.issued > challenge.issued]_(S!vars)
  BY ComponentSteps, NewestStands DEF AccessInv
<1>2. AccessInv /\ [Next]_vars
        => [\A p \in People : identity[p] # None
              => identity'[p] # None /\ identity'[p] >= identity[p]]_(A!vars)
  BY ComponentSteps, AdminRises DEF AccessInv
<1>3. AccessInv /\ [Next]_vars
        => [record # Absent => record' # Absent /\ record'.fence >= record.fence]_(B!vars)
  BY ComponentSteps, BillingRises DEF AccessInv
<1>4. AccessInv /\ [Next]_vars
        => [webhook' = webhook => /\ B!Stored(record').state = B!Stored(record).state
                                  /\ B!Stored(record').until = B!Stored(record).until]_(B!vars)
  BY ComponentSteps, BillingRises DEF AccessInv
<1>5. Spec => S!NewestCodeStands
  BY <1>1, AccessHolds, PTL DEF Spec, S!NewestCodeStands
<1>6. Spec => A!TokenVersionRises
  BY <1>2, AccessHolds, PTL DEF Spec, A!TokenVersionRises
<1>7. Spec => B!FenceRises
  BY <1>3, AccessHolds, PTL DEF Spec, B!FenceRises
<1>8. Spec => B!OnlyEventsGrant
  BY <1>4, AccessHolds, PTL DEF Spec, B!OnlyEventsGrant
<1> QED
  BY <1>5, <1>6, <1>7, <1>8 DEF FencesRise
=============================================================================
