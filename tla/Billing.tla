------------------------------ MODULE Billing ------------------------------
(***************************************************************************)
(* The entitlement of one account: checkouts that give it a Stripe         *)
(* customer, and the webhook that folds Stripe's events into its record.   *)
(*                                                                         *)
(* Stripe is external.  It answers createCustomer with one customer as     *)
(* long as it remembers the idempotency key, emits events about customers  *)
(* that have a checkout session, stamps them with a second that does not   *)
(* go back, and delivers each any number of times in any order.  Instants  *)
(* are small numbers; 0 is a null one.                                     *)
(***************************************************************************)
EXTENDS Integers, Sequences

CONSTANTS
  Webhooks, Checkouts,  \* calls under way at a time
  Absent,
  Customers,            \* 1..Customers
  Says,                 \* what an event may say: its type, the state of its subscription,
                        \* its trial's end and its period's, in seconds from now
  MaxEvents, MaxSecond  \* bounds of the model

VARIABLES
  record,               \* the account's ENTITLEMENT row
  pointers,             \* customers whose STRIPE_CUSTOMER row names the account
  made, remembered,     \* Stripe: customers made; its memory of the idempotency key
  invited,              \* Stripe: customers with a checkout session
  second, emitted,      \* Stripe: its clock and its events
  webhook, checkout

stripe == <<made, remembered, invited, second, emitted>>
vars == <<record, pointers, stripe, webhook, checkout>>

Customer == 1..Customers
Instant == 0..(MaxSecond + 2)
State == {"none", "trialing", "active", "past_due", "canceled", "expired"}
Type == {"subscription", "deleted", "paid", "failed", "session"}
Event == [type: Type,
          state: State,            \* stateForStatus of a subscription's status
          trial: Instant, end: Instant, created: 1..MaxSecond, customer: Customer]
Entitlement == [state: State, until: Instant, period: Instant, trial: Instant,
                customer: Customer \cup {Absent},
                last: 0..MaxEvents, fence: 0..MaxSecond]
New == [state |-> "none", until |-> 0, period |-> 0, trial |-> 0,
        customer |-> Absent, last |-> 0, fence |-> 0]

BillingAssumption ==
  /\ Absent \notin Entitlement
  /\ Customers \in Nat /\ MaxEvents \in Nat /\ MaxSecond \in Nat \ {0}
  /\ Says \subseteq Type \X State \X (0..2) \X (0..2)

Hook == [pc: {"get", "save"}, event: 1..MaxEvents,
         seen: Entitlement \cup {Absent}]
Shop == [pc: {"create", "link", "attach", "session"},
         customer: Customer \cup {Absent}]
Idle == [pc |-> "idle"]

Init ==
  /\ record = Absent /\ pointers = {}
  /\ made = 0 /\ remembered = FALSE /\ invited = {} /\ second = 1 /\ emitted = <<>>
  /\ webhook = [w \in Webhooks |-> Idle]
  /\ checkout = [c \in Checkouts |-> Idle]

-----------------------------------------------------------------------------
(* Stripe. *)

Forget == remembered /\ remembered' = FALSE
          /\ UNCHANGED <<record, pointers, made, invited, second, emitted, webhook, checkout>>

NextSecond == second < MaxSecond /\ second' = second + 1
              /\ UNCHANGED <<record, pointers, made, remembered, invited, emitted,
                             webhook, checkout>>

After(n) == IF n = 0 THEN 0 ELSE second + n
Emit ==
  /\ Len(emitted) < MaxEvents
  /\ \E c \in invited, s \in Says :
       emitted' = Append(emitted, [type |-> s[1], state |-> s[2], trial |-> After(s[3]),
                                   end |-> After(s[4]), created |-> second, customer |-> c])
  /\ UNCHANGED <<record, pointers, made, remembered, invited, second, webhook, checkout>>

-----------------------------------------------------------------------------
(* The reducer. *)

Or(a, b) == IF a # 0 THEN a ELSE b
Later(a, b) == IF a > b THEN a ELSE b
Boundary(state, trial, end) == CASE state = "trialing" -> Or(trial, end)
                                 [] state \in {"active", "past_due"} -> end
                                 [] OTHER -> 0
Fenced(r, i) == [r EXCEPT !.last = i, !.fence = emitted[i].created,
                          !.customer = emitted[i].customer]

OfSubscription(r, e) ==
  LET trial == Or(e.trial, r.trial)
      end == Or(e.end, r.period)
  IN  [r EXCEPT !.state = e.state, !.until = Boundary(e.state, trial, end),
                !.trial = trial, !.period = end]
OfPayment(r, e) ==
  LET state == IF r.trial > e.created THEN "trialing" ELSE "active"
      end == Or(e.end, r.period)
  IN  [r EXCEPT !.state = state, !.period = end,
                !.until = Later(r.until, Boundary(state, r.trial, end))]
OfFailure(r, e) == [r EXCEPT !.state = "past_due"]
Reduced(r, e) ==
  CASE e.type = "deleted" -> [r EXCEPT !.state = "canceled", !.until = 0,
                                       !.period = Or(e.end, r.period)]
    [] e.type = "subscription" -> OfSubscription(r, e)
    [] e.type = "paid" -> OfPayment(r, e)
    [] e.type = "failed" -> OfFailure(r, e)
    [] OTHER -> r

-----------------------------------------------------------------------------
(* The webhook. *)

Hear(w, h) == webhook' = [webhook EXCEPT ![w] = h]

\* A delivery begins by looking for the account; an event of a customer that is not linked
\* is ignored.
Linked(i) == emitted[i].customer \in pointers
Deliver(w) ==
  /\ webhook[w] = Idle
  /\ \E i \in DOMAIN emitted :
       /\ Linked(i)
       /\ Hear(w, [pc |-> "get", event |-> i, seen |-> Absent])
  /\ UNCHANGED <<record, pointers, stripe, checkout>>

Stored(r) == IF r = Absent THEN New ELSE r
\* applyStripeEvent: a redelivery, and an event older than the fence, change nothing.
Applies(r, i) == r.last # i /\ emitted[i].created >= r.fence
GetEntitlement(w) ==
  /\ webhook[w].pc = "get"
  /\ Hear(w, IF Applies(Stored(record), webhook[w].event)
             THEN [webhook[w] EXCEPT !.pc = "save", !.seen = record] ELSE Idle)
  /\ UNCHANGED <<record, pointers, stripe, checkout>>

\* variant: the write trusts the check made on the copy.
SaveAlways(next) == TRUE
MaySave(next) == record = Absent \/ record.fence <= next.fence
Save(w) ==
  LET i == webhook[w].event
      next == Fenced(Reduced(Stored(webhook[w].seen), emitted[i]), i)
  IN  /\ webhook[w].pc = "save"
      /\ record' = IF MaySave(next) THEN next ELSE record
      /\ Hear(w, Idle)
      /\ UNCHANGED <<pointers, stripe, checkout>>

-----------------------------------------------------------------------------
(* A checkout. *)

Shops(c, s) == checkout' = [checkout EXCEPT ![c] = s]

AfterGet(customer) == IF customer = Absent THEN "create" ELSE "session"
OpenCheckout(c) ==
  /\ checkout[c] = Idle
  /\ Shops(c, [pc |-> AfterGet(Stored(record).customer), customer |-> Stored(record).customer])
  /\ UNCHANGED <<record, pointers, stripe, webhook>>

\* variant: the record is given the customer first, the pointer after it.
AttachFirst == "attach"
AfterCreate == "link"
CreateCustomer(c) ==
  LET n == IF remembered THEN made ELSE made + 1
  IN  /\ checkout[c].pc = "create" /\ n \in Customer
      /\ made' = n /\ remembered' = TRUE
      /\ Shops(c, [pc |-> AfterCreate, customer |-> n])
      /\ UNCHANGED <<record, pointers, invited, second, emitted, webhook>>

LinkCustomer(c) ==
  /\ checkout[c].pc = "link"
  /\ pointers' = pointers \cup {checkout[c].customer}
  /\ Shops(c, [checkout[c] EXCEPT !.pc = "attach"])
  /\ UNCHANGED <<record, stripe, webhook>>

Attached(customer) == [Stored(record) EXCEPT !.customer = customer]
AttachCustomer(c) ==
  /\ checkout[c].pc = "attach"
  /\ record' = Attached(checkout[c].customer)
  /\ Shops(c, [checkout[c] EXCEPT !.pc = "session"])
  /\ UNCHANGED <<pointers, stripe, webhook>>

CreateSession(c) ==
  /\ checkout[c].pc = "session"
  /\ invited' = invited \cup {checkout[c].customer}
  /\ Shops(c, Idle)
  /\ UNCHANGED <<record, pointers, made, remembered, second, emitted, webhook>>

\* A call is cut off, or Stripe fails it.
CutOff ==
  /\ \/ \E w \in Webhooks : webhook[w] # Idle /\ Hear(w, Idle) /\ UNCHANGED checkout
     \/ \E c \in Checkouts : checkout[c] # Idle /\ Shops(c, Idle) /\ UNCHANGED webhook
  /\ UNCHANGED <<record, pointers, stripe>>

Next ==
  \/ Forget \/ NextSecond \/ Emit \/ CutOff
  \/ \E w \in Webhooks : Deliver(w) \/ GetEntitlement(w) \/ Save(w)
  \/ \E c \in Checkouts : \/ OpenCheckout(c) \/ CreateCustomer(c) \/ LinkCustomer(c)
                          \/ AttachCustomer(c) \/ CreateSession(c)

Spec == Init /\ [][Next]_vars

-----------------------------------------------------------------------------
(* Properties. *)

\* Rows and calls are of their kind.
TypeOK ==
  /\ record \in Entitlement \cup {Absent} /\ pointers \subseteq Customer
  /\ made \in 0..Customers /\ remembered \in BOOLEAN /\ invited \subseteq Customer
  /\ second \in 1..MaxSecond /\ emitted \in Seq(Event)
  /\ webhook \in [Webhooks -> Hook \cup {Idle}]
  /\ checkout \in [Checkouts -> Shop \cup {Idle}]

\* No event of a customer sent to checkout can be ignored as unknown, and the record's own
\* customer leads back to the account.
NoEventUnattributed ==
  /\ invited \subseteq pointers
  /\ record # Absent /\ record.customer # Absent => record.customer \in pointers

\* The access boundary is one that Stripe gave for a trial, with a subscription (its
\* deletion tells its period too) or a paid invoice: never the period of an invoice that
\* failed.
Given(instant) == \E i \in DOMAIN emitted :
  /\ emitted[i].type \in {"subscription", "deleted", "paid"}
  /\ instant \in {emitted[i].end, emitted[i].trial}
NothingUnpaid == record # Absent /\ record.until # 0 => Given(record.until)

\* The fence never goes back, however deliveries overlap: an event older than one that was
\* applied changes nothing any more.
FenceRises == [][record # Absent => record' # Absent /\ record'.fence >= record.fence]_vars

\* State and boundary move with an event and nothing else: a checkout that finishes late
\* takes no access away and gives none.
OnlyEventsGrant ==
  [][webhook' = webhook
       => /\ Stored(record').state = Stored(record).state
          /\ Stored(record').until = Stored(record).until]_vars

\* As the handler's comment has it, two deliveries that read the same record are told apart
\* by the conditional write: what one of them saved is still in what the other saves.
DeletionStands ==
  [][record # Absent /\ record.state = "canceled" /\ record' # record
       => \/ record'.until = 0
          \/ emitted[record'.last].type \in {"subscription", "paid"}]_vars
=============================================================================
