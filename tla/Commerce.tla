------------------------------ MODULE Commerce -------------------------------
(***************************************************************************)
(* The payment service (compatibility-payment.module.ts) and the Stripe     *)
(* webhook (stripe-webhooks.module.ts) of one organization program.         *)
(*                                                                          *)
(* Every HTTP request is handled by a slot.  A handler is cut at its        *)
(* awaits: between two of them any other request may run, and the handler   *)
(* may be killed with its process.  A handler remembers the enrollment it   *)
(* read ("seen"), computes the new JSON columns from it and writes them     *)
(* back whole, so what another request wrote in between is overwritten.     *)
(***************************************************************************)
EXTENDS Naturals, FiniteSets

CONSTANTS
    Orders,             \* order rows, present or yet to be created
    Slots,              \* requests the API can be handling at the same time
    Kind,               \* how each order is paid
    Items,              \* the products each order contains
    Ops,                \* the operations that clients call
    HasDeal,            \* whether the enrollment has a dealExternalId in Zoho
    InitialEnrollment,  \* the enrollment before any of these orders
    MaxErrors,          \* bound: database and Zoho calls that fail
    MaxCrashes,         \* bound: handlers killed with their process
    NoOrder             \* the target of an idle slot

STANDARD_PACKAGE_ID == "report-standard-package"
SORTED_VERBATIMS_ID == "report-verbatims-sorted"
KEY_IMPACT_ID       == "report-kia"
RESPONSE_DETAIL_ID  == "report-response-detail"

Products == {STANDARD_PACKAGE_ID, SORTED_VERBATIMS_ID, KEY_IMPACT_ID,
             RESPONSE_DETAIL_ID}

\* "bare" orders come from paymentIntent() without a program: they have no
\* enrollment.  "ach" orders were created by earlier releases.
Kinds      == {"card", "ach", "invoice", "bare"}
AllOps     == {"checkout", "webhook", "confirm", "ach", "invoice", "reconcile"}
Statuses   == {"absent", "REQUIRES_PAYMENT", "PENDING", "PAID"}
Methods    == {"none", "Needs Invoiced", "Paid via Credit Card", "Paid via ACH",
               "Paid via Check"}

standardReportAccessKeys == {"WFR_Access", "EV_Access", "WBC_Access", "BBP_Access"}
AccessKeys == standardReportAccessKeys
                \cup {"SEV_Access", "RD_Access", "KIA_Access"}

\* reportAccess as the set of its "yes" keys, stage as "is Full Package",
\* metrics.KIA_Order_Status, and the resolved portalAccess of metadata.
Enrollments == [access : SUBSET AccessKeys, full : BOOLEAN,
                kia : {"none", "Processing", "Delivered"},
                portal : {"client", "promotional"}]

ASSUME CommerceAssumption ==
    /\ NoOrder \notin Orders
    /\ Kind \in [Orders -> Kinds]
    /\ Items \in [Orders -> SUBSET Products]
    /\ Ops \subseteq AllOps
    /\ HasDeal \in BOOLEAN
    /\ InitialEnrollment \in Enrollments
    /\ MaxErrors \in Nat
    /\ MaxCrashes \in Nat

VARIABLES
    status,        \* Order.status ("absent": no row)
    method,        \* Order.paymentMethod
    enrollment,    \* the OrganizationProgram row
    intent,        \* Stripe's PaymentIntent of the order
    event,         \* Stripe's delivery of payment_intent.succeeded
    webhookEvent,  \* the WebhookEvent row of that event
    audit,         \* how many AuditLog rows record a manual confirmation
    crm,           \* the Deal in Zoho
    req,           \* what each slot is doing
    errors,        \* failed calls so far
    crashes,       \* killed handlers so far
    abandoned      \* history: orders whose claim its own failure or a kill left behind

rows == <<status, method, enrollment, webhookEvent, audit>>
outside == <<intent, event, crm>>
faults == <<errors, crashes, abandoned>>
vars == <<status, method, enrollment, intent, event, webhookEvent, audit, crm,
          req, errors, crashes, abandoned>>

PCs == {"idle", "intent", "create", "keys", "retrieve", "claim", "fulfil",
        "commit", "zoho", "finish", "release", "next"}

Requests == [op : AllOps \cup {"none"}, pc : PCs, order : Orders \cup {NoOrder},
             seen : Enrollments, method : Methods, todo : SUBSET Orders]

Idle == [op |-> "none", pc |-> "idle", order |-> NoOrder,
         seen |-> InitialEnrollment, method |-> "none", todo |-> {}]

-----------------------------------------------------------------------------
(* Catalogue and entitlements *)

hasStandardPackage(e) == e.full \/ standardReportAccessKeys \subseteq e.access

productIsOwned(p, e) ==
    \/ p = STANDARD_PACKAGE_ID /\ hasStandardPackage(e)
    \/ p = SORTED_VERBATIMS_ID /\ "SEV_Access" \in e.access
    \/ p = RESPONSE_DETAIL_ID  /\ "RD_Access" \in e.access
    \/ p = KEY_IMPACT_ID       /\ ("KIA_Access" \in e.access \/ e.kia # "none")

\* catalogOrder() for products that are available, sold by checkout and priced.
catalogOrder(items, e) ==
    LET promotional == e.portal = "promotional"
    IN  /\ \A p \in items :
             productIsOwned(p, e) => promotional /\ p = STANDARD_PACKAGE_ID
        /\ \/ items = {}
           \/ STANDARD_PACKAGE_ID \in items
           \/ hasStandardPackage(e) /\ ~promotional

\* The access keys fulfillOrder() turns to "yes" for a product.
GrantedKeys(p) ==
    CASE p = STANDARD_PACKAGE_ID -> standardReportAccessKeys
      [] p = SORTED_VERBATIMS_ID -> {"EV_Access", "SEV_Access"}
      [] p = RESPONSE_DETAIL_ID  -> {"RD_Access"}
      [] p = KEY_IMPACT_ID       -> {"KIA_Access"}

\* Mutant: only the first report of an order is granted.
MutantFulfilled(e, items) ==
    [e EXCEPT !.access = @ \cup GrantedKeys(CHOOSE p \in items : TRUE),
              !.full   = @ \/ STANDARD_PACKAGE_ID \in items,
              !.portal = "client"]

\* The enrollment fulfillOrder() computes from the one it has read.
Fulfilled(e, items) ==
    [access |-> e.access \cup UNION {GrantedKeys(p) : p \in items},
     full   |-> e.full \/ STANDARD_PACKAGE_ID \in items,
     kia    |-> IF KEY_IMPACT_ID \in items THEN "Processing" ELSE e.kia,
     portal |-> "client"]

\* Mutant: a label the order log does not know.
MutantPaidMethod(m) == "Paid"

paidMethod(m) ==
    CASE m = "Paid via ACH"   -> "Paid via ACH"
      [] m = "Needs Invoiced" -> "Paid via Check"
      [] OTHER                -> "Paid via Credit Card"

\* zoho.updateRecord("Deals", ...) with crmFields(items, label).
CrmUpdated(items, label, full) ==
    [full |-> crm.full \/ full,
     payment |-> [p \in Products |-> IF p \in items THEN label ELSE crm.payment[p]]]

-----------------------------------------------------------------------------
(* Initial state *)

InitialStatus(o) == IF Kind[o] = "ach" THEN "REQUIRES_PAYMENT" ELSE "absent"
InitialMethod(o) == IF Kind[o] = "ach" THEN "Paid via ACH" ELSE "none"

Init ==
    /\ status = [o \in Orders |-> InitialStatus(o)]
    /\ method = [o \in Orders |-> InitialMethod(o)]
    /\ enrollment = InitialEnrollment
    /\ intent = [o \in Orders |-> IF Kind[o] = "ach" THEN "handed" ELSE "none"]
    /\ event = [o \in Orders |-> "none"]
    /\ webhookEvent = [o \in Orders |-> "absent"]
    /\ audit = [o \in Orders |-> 0]
    /\ crm = [full |-> InitialEnrollment.full,
              payment |-> [p \in Products |-> "none"]]
    /\ req = [s \in Slots |-> Idle]
    /\ errors = 0
    /\ crashes = 0
    /\ abandoned = {}

-----------------------------------------------------------------------------
(* Control flow of a handler *)

Goto(s, pc) == req' = [req EXCEPT ![s].pc = pc]

Return(s) == req' = [req EXCEPT ![s] = Idle]

\* A new request starts; it has read the enrollment and, for an order, its row.
Accept(s, op, o, pc) ==
    /\ req[s].pc = "idle"
    /\ op \in Ops
    /\ req' = [req EXCEPT ![s] = [op |-> op, pc |-> pc, order |-> o,
                                  seen |-> enrollment, method |-> method[o],
                                  todo |-> {}]]

\* Where fulfillPaidOrder() or fulfillOrder() returns to.
AfterFulfillment(s) ==
    CASE req[s].op = "confirm"   -> Return(s)
      [] req[s].op = "reconcile" -> Goto(s, "next")
      [] OTHER                   -> Goto(s, "finish")

\* Mutant: errors of a fulfilment are logged and ignored.
MutantErrorIgnored(s) ==
    IF req[s].pc \in {"fulfil", "commit", "zoho"} THEN Goto(s, "finish") ELSE Return(s)

\* Mutant: the manual confirmations do not catch.
MutantNotCaught(s) == Return(s)

\* The manual confirmations catch what their fulfilment throws; every other
\* error ends the request.
AfterError(s) ==
    IF req[s].op \in {"ach", "invoice"} /\ req[s].pc \in {"fulfil", "commit", "zoho"}
      THEN Goto(s, "release")
      ELSE Return(s)

\* The call was applied, but its caller gets an error.  (Nothing tells a lost answer
\* from an answer where the handler ends with it, so those steps have no such case.)
LoseAnswer(s) ==
    /\ errors < MaxErrors
    /\ errors' = errors + 1
    /\ AfterError(s)
    /\ UNCHANGED crashes

-----------------------------------------------------------------------------
(* Checkout: paymentIntent() and checkout() *)

\* o stands for the order that this request is about to create.
StartCheckout(s, o) ==
    /\ Kind[o] # "ach"
    /\ status[o] = "absent"
    /\ \A t \in Slots : req[t].op = "checkout" => req[t].order # o
    /\ Kind[o] # "bare" => catalogOrder(Items[o], enrollment)
    /\ Accept(s, "checkout", o, IF Kind[o] = "invoice" THEN "create" ELSE "intent")
    /\ UNCHANGED <<rows, outside, faults>>

CreateIntent(s) ==
    LET o == req[s].order IN
    /\ req[s].pc = "intent"
    /\ intent' = [intent EXCEPT ![o] = "created"]
    /\ \/ Goto(s, "create") /\ UNCHANGED faults
       \/ LoseAnswer(s) /\ UNCHANGED abandoned
    /\ UNCHANGED <<rows, event, crm>>

\* The client gets the intent's secret when the order row is there.
CreateStripeOrder(s) ==
    LET o == req[s].order IN
    /\ req[s].pc = "create"
    /\ Kind[o] # "invoice"
    /\ status' = [status EXCEPT ![o] = "REQUIRES_PAYMENT"]
    /\ method' = [method EXCEPT ![o] = "Paid via Credit Card"]
    /\ \/ intent' = [intent EXCEPT ![o] = "handed"] /\ Return(s) /\ UNCHANGED faults
       \/ LoseAnswer(s) /\ UNCHANGED <<intent, abandoned>>
    /\ UNCHANGED <<enrollment, webhookEvent, audit, event, crm>>

CreateInvoiceOrder(s) ==
    LET o == req[s].order IN
    /\ req[s].pc = "create"
    /\ Kind[o] = "invoice"
    /\ status' = [status EXCEPT ![o] = "PENDING"]
    /\ method' = [method EXCEPT ![o] = "Needs Invoiced"]
    /\ \/ Goto(s, "keys") /\ UNCHANGED faults
       \/ LoseAnswer(s) /\ UNCHANGED abandoned
    /\ UNCHANGED <<enrollment, webhookEvent, audit, outside>>

\* Mutant: an invoice order grants its reports before it is paid.
MutantInvoiceGrants(s) ==
    /\ req[s].pc = "keys"
    /\ enrollment' = Fulfilled(req[s].seen, Items[req[s].order])
    /\ IF HasDeal THEN Goto(s, "zoho") ELSE Return(s)
    /\ UNCHANGED <<status, method, webhookEvent, audit, outside, faults>>

\* reportAccess and metrics go back to what the request read before the order.
ApplyEnrollmentKeys(s) ==
    /\ req[s].pc = "keys"
    /\ enrollment' = [enrollment EXCEPT !.access = req[s].seen.access,
                                        !.kia = req[s].seen.kia]
    /\ \/ (IF HasDeal THEN Goto(s, "zoho") ELSE Return(s)) /\ UNCHANGED faults
       \/ LoseAnswer(s) /\ UNCHANGED abandoned
    /\ UNCHANGED <<status, method, webhookEvent, audit, outside>>

-----------------------------------------------------------------------------
(* Stripe, outside the program *)

\* Only a client that holds the intent's secret can pay.
Pay(o) ==
    /\ intent[o] = "handed"
    /\ intent' = [intent EXCEPT ![o] = "succeeded"]
    /\ event' = [event EXCEPT ![o] = "pending"]
    /\ UNCHANGED <<rows, crm, req, faults>>

-----------------------------------------------------------------------------
(* The requests that lead to a fulfilment *)

\* Mutant: an event that has a row counts as processed.
MutantDeliver(s, o) ==
    /\ event[o] # "none"
    /\ webhookEvent[o] = "absent"
    /\ webhookEvent' = [webhookEvent EXCEPT ![o] = "stored"]
    /\ Accept(s, "webhook", o, "fulfil")
    /\ UNCHANGED <<status, method, enrollment, audit, outside, faults>>

\* Stripe delivers an event at least once, and a second delivery may overlap
\* the first.
DeliverEvent(s, o) ==
    /\ event[o] # "none"
    /\ webhookEvent[o] # "processed"
    /\ webhookEvent' = [webhookEvent EXCEPT ![o] = "stored"]
    /\ Accept(s, "webhook", o, "fulfil")
    /\ UNCHANGED <<status, method, enrollment, audit, outside, faults>>

DeliverProcessedEvent(o) ==
    /\ "webhook" \in Ops
    /\ event[o] = "pending"
    /\ webhookEvent[o] = "processed"
    /\ event' = [event EXCEPT ![o] = "acked"]
    /\ UNCHANGED <<rows, intent, crm, req, faults>>

\* The client's browser asks for the order it has just paid.
StartConfirm(s, o) ==
    /\ Kind[o] # "invoice"
    /\ status[o] \notin {"absent", "PAID"}
    /\ Accept(s, "confirm", o, "retrieve")
    /\ UNCHANGED <<rows, outside, faults>>

\* Mutant: the intent's status is not looked at.
MutantRetrieve(s) ==
    /\ req[s].pc = "retrieve"
    /\ Goto(s, "fulfil")
    /\ UNCHANGED <<rows, outside, faults>>

RetrieveIntent(s) ==
    /\ req[s].pc = "retrieve"
    /\ IF intent[req[s].order] = "succeeded" THEN Goto(s, "fulfil") ELSE Return(s)
    /\ UNCHANGED <<rows, outside, faults>>

StartValidateAch(s, o) ==
    /\ method[o] = "Paid via ACH"
    /\ status[o] = "REQUIRES_PAYMENT"
    /\ Accept(s, "ach", o, "claim")
    /\ UNCHANGED <<rows, outside, faults>>

\* Mutant: the claim does not ask for the status it was read with.
MutantClaim(s) ==
    /\ req[s].op = "ach"
    /\ req[s].pc = "claim"
    /\ status' = [status EXCEPT ![req[s].order] = "PENDING"]
    /\ Goto(s, "fulfil")
    /\ UNCHANGED <<method, enrollment, webhookEvent, audit, outside, faults>>

\* updateMany tells by its count whether this request got the order.  It is awaited
\* outside the try: nobody gives back a claim whose answer is lost.
ClaimAchOrder(s) ==
    LET o == req[s].order IN
    /\ req[s].op = "ach"
    /\ req[s].pc = "claim"
    /\ IF status[o] = "REQUIRES_PAYMENT" /\ method[o] = "Paid via ACH"
         THEN /\ status' = [status EXCEPT ![o] = "PENDING"]
              /\ \/ Goto(s, "fulfil") /\ UNCHANGED faults
                 \/ LoseAnswer(s) /\ abandoned' = abandoned \cup {o}
         ELSE /\ Return(s)
              /\ UNCHANGED <<status, faults>>
    /\ UNCHANGED <<method, enrollment, webhookEvent, audit, outside>>

StartConfirmInvoice(s, o) ==
    /\ method[o] = "Needs Invoiced"
    /\ status[o] = "PENDING"
    /\ Accept(s, "invoice", o, "claim")
    /\ UNCHANGED <<rows, outside, faults>>

\* Fulfilment goes on with the order and enrollment read before the claim.
ClaimInvoiceOrder(s) ==
    LET o == req[s].order IN
    /\ req[s].op = "invoice"
    /\ req[s].pc = "claim"
    /\ IF status[o] = "PENDING" /\ method[o] = "Needs Invoiced"
         THEN /\ status' = [status EXCEPT ![o] = "REQUIRES_PAYMENT"]
              /\ \/ Goto(s, "commit") /\ UNCHANGED faults
                 \/ LoseAnswer(s) /\ abandoned' = abandoned \cup {o}
         ELSE /\ Return(s)
              /\ UNCHANGED <<status, faults>>
    /\ UNCHANGED <<method, enrollment, webhookEvent, audit, outside>>

\* Mutant: the release does not look whether the order got paid.
MutantRelease(s) ==
    /\ req[s].pc = "release"
    /\ status' = [status EXCEPT ![req[s].order] =
                     IF req[s].op = "ach" THEN "REQUIRES_PAYMENT" ELSE "PENDING"]
    /\ Return(s)
    /\ UNCHANGED <<method, enrollment, webhookEvent, audit, outside, faults>>

\* An error of the fulfilment gives the order back, unless it got paid.
ReleaseClaim(s) ==
    LET o == req[s].order
        claimed == IF req[s].op = "ach" THEN "PENDING" ELSE "REQUIRES_PAYMENT"
        open == IF req[s].op = "ach" THEN "REQUIRES_PAYMENT" ELSE "PENDING"
    IN
    /\ req[s].pc = "release"
    /\ status' = IF status[o] = claimed THEN [status EXCEPT ![o] = open] ELSE status
    /\ Return(s)
    /\ UNCHANGED <<method, enrollment, webhookEvent, audit, outside, faults>>

\* product narrows the orders, and an owned one needs no reconciliation.
StartReconcile(s, product) ==
    LET pending == {o \in Orders : /\ status[o] = "REQUIRES_PAYMENT"
                                   /\ Kind[o] \in {"card", "ach"}
                                   /\ product \in Products => product \in Items[o]}
    IN
    /\ "reconcile" \in Ops
    /\ req[s].pc = "idle"
    /\ product \in Products => ~productIsOwned(product, enrollment)
    /\ pending # {}
    /\ req' = [req EXCEPT ![s] = [Idle EXCEPT !.op = "reconcile", !.pc = "next",
                                              !.todo = pending]]
    /\ UNCHANGED <<rows, outside, faults>>

ReconcileOrder(s, o) ==
    /\ req[s].pc = "next"
    /\ o \in req[s].todo
    /\ req' = [req EXCEPT ![s].todo = @ \ {o},
                          ![s].order = o,
                          ![s].pc = IF intent[o] = "succeeded" THEN "fulfil" ELSE "next"]
    /\ UNCHANGED <<rows, outside, faults>>

FinishReconcile(s) ==
    /\ req[s].pc = "next"
    /\ req[s].todo = {}
    /\ Return(s)
    /\ UNCHANGED <<rows, outside, faults>>

-----------------------------------------------------------------------------
(* fulfillPaidOrder() and fulfillOrder() *)

ReadPaidOrder(s) ==
    LET o == req[s].order IN
    /\ req[s].pc = "fulfil"
    /\ req' = [req EXCEPT ![s].seen = enrollment,
                          ![s].method = method[o],
                          ![s].pc = "commit"]
    /\ UNCHANGED <<rows, outside, faults>>

\* One transaction writes the enrollment and the order.
CommitFulfillment(s) ==
    LET o == req[s].order IN
    /\ req[s].pc = "commit"
    /\ Kind[o] # "bare"
    /\ enrollment' = Fulfilled(req[s].seen, Items[o])
    /\ status' = [status EXCEPT ![o] = "PAID"]
    /\ method' = [method EXCEPT ![o] = paidMethod(req[s].method)]
    /\ \/ (IF HasDeal THEN Goto(s, "zoho") ELSE AfterFulfillment(s)) /\ UNCHANGED faults
       \/ LoseAnswer(s) /\ UNCHANGED abandoned
    /\ UNCHANGED <<webhookEvent, audit, outside>>

CommitBareOrder(s) ==
    LET o == req[s].order IN
    /\ req[s].pc = "commit"
    /\ Kind[o] = "bare"
    /\ status' = [status EXCEPT ![o] = "PAID"]
    /\ \/ AfterFulfillment(s) /\ UNCHANGED faults
       \/ LoseAnswer(s) /\ UNCHANGED abandoned
    /\ UNCHANGED <<method, enrollment, webhookEvent, audit, outside>>

\* What the Deal is set to by this request.
DealAfter(s) ==
    IF req[s].op = "checkout"
      THEN CrmUpdated(Items[req[s].order], "Needs Invoiced", FALSE)
      ELSE CrmUpdated(Items[req[s].order], paidMethod(req[s].method),
                      Fulfilled(req[s].seen, Items[req[s].order]).full)

UpdateZoho(s) ==
    /\ req[s].pc = "zoho"
    /\ crm' = DealAfter(s)
    /\ \/ /\ IF req[s].op = "checkout" THEN Return(s) ELSE AfterFulfillment(s)
          /\ UNCHANGED faults
       \/ LoseAnswer(s) /\ UNCHANGED abandoned
    /\ UNCHANGED <<rows, intent, event>>

\* The answer may not reach Stripe, which then delivers the event again.
MarkProcessed(s) ==
    LET o == req[s].order IN
    /\ req[s].op = "webhook"
    /\ req[s].pc = "finish"
    /\ webhookEvent' = [webhookEvent EXCEPT ![o] = "processed"]
    /\ event' \in {event, [event EXCEPT ![o] = "acked"]}
    /\ Return(s)
    /\ UNCHANGED <<status, method, enrollment, audit, intent, crm, faults>>

RecordConfirmation(s) ==
    LET o == req[s].order IN
    /\ req[s].op \in {"ach", "invoice"}
    /\ req[s].pc = "finish"
    /\ audit' = [audit EXCEPT ![o] = @ + 1]
    /\ Return(s)
    /\ UNCHANGED <<status, method, enrollment, webhookEvent, outside, faults>>

-----------------------------------------------------------------------------
(* Failures *)

\* The request has claimed the order and not yet released or completed it.
HoldsClaim(s, o) ==
    /\ req[s].order = o
    /\ \/ req[s].op = "ach" /\ req[s].pc \in {"fulfil", "commit", "zoho", "finish", "release"}
       \/ req[s].op = "invoice" /\ req[s].pc \in {"commit", "zoho", "finish", "release"}

\* The awaited call rejects and was not applied (LoseAnswer has the other case).
Fail(s) ==
    /\ req[s].pc # "idle"
    /\ req[s].pc = "next" => req[s].todo # {}
    /\ errors < MaxErrors
    /\ errors' = errors + 1
    /\ AfterError(s)
    /\ abandoned' = IF req[s].pc = "release" THEN abandoned \cup {req[s].order} ELSE abandoned
    /\ UNCHANGED <<rows, outside, crashes>>

\* The process that handles the request dies.
Crash(s) ==
    /\ req[s].pc # "idle"
    /\ crashes < MaxCrashes
    /\ crashes' = crashes + 1
    /\ Return(s)
    /\ abandoned' = abandoned \cup {o \in Orders : HoldsClaim(s, o)}
    /\ UNCHANGED <<rows, outside, errors>>

-----------------------------------------------------------------------------

StartRequest(s) ==
    \/ \E o \in Orders : \/ StartCheckout(s, o)
                         \/ DeliverEvent(s, o)
                         \/ StartConfirm(s, o)
                         \/ StartValidateAch(s, o)
                         \/ StartConfirmInvoice(s, o)
    \/ \E product \in Products \cup {"any"} : StartReconcile(s, product)

\* What a handler that is not interrupted does next, whether it gets the answer or not.
Proceed(s) ==
    \/ CreateIntent(s)
    \/ CreateStripeOrder(s)
    \/ CreateInvoiceOrder(s)
    \/ ApplyEnrollmentKeys(s)
    \/ RetrieveIntent(s)
    \/ ClaimAchOrder(s)
    \/ ClaimInvoiceOrder(s)
    \/ ReleaseClaim(s)
    \/ \E o \in Orders : ReconcileOrder(s, o)
    \/ FinishReconcile(s)
    \/ ReadPaidOrder(s)
    \/ CommitFulfillment(s)
    \/ CommitBareOrder(s)
    \/ UpdateZoho(s)
    \/ MarkProcessed(s)
    \/ RecordConfirmation(s)

Next ==
    \/ \E s \in Slots : StartRequest(s) \/ Proceed(s) \/ Fail(s) \/ Crash(s)
    \/ \E o \in Orders : Pay(o) \/ DeliverProcessedEvent(o)

Spec == Init /\ [][Next]_vars

\* A promise settles in the end, and Stripe retries an event until it gets a
\* 2xx.  Nothing makes customers pay or administrators confirm.
Fairness ==
    /\ \A s \in Slots : WF_vars(Proceed(s))
    /\ \A o \in Orders :
         /\ SF_vars(event[o] = "pending" /\ \E s \in Slots : DeliverEvent(s, o))
         /\ WF_vars(DeliverProcessedEvent(o))

FairSpec == Spec /\ Fairness

-----------------------------------------------------------------------------
(* Properties *)

TypeOK ==
    /\ status \in [Orders -> Statuses]
    /\ method \in [Orders -> Methods]
    /\ enrollment \in Enrollments
    /\ intent \in [Orders -> {"none", "created", "handed", "succeeded"}]
    /\ event \in [Orders -> {"none", "pending", "acked"}]
    /\ webhookEvent \in [Orders -> {"absent", "stored", "processed"}]
    /\ audit \in [Orders -> Nat]
    /\ crm \in [full : BOOLEAN, payment : [Products -> Methods]]
    /\ req \in [Slots -> Requests]
    /\ errors \in 0..MaxErrors
    /\ crashes \in 0..MaxCrashes
    /\ abandoned \subseteq Orders

\* Two administrators that confirm one order at the same time never both get
\* past the claim (validateAchOrder, confirmInvoiceOrder: updateMany + count).
ClaimIsExclusive ==
    \A o \in Orders : \A s, t \in Slots :
        HoldsClaim(s, o) /\ HoldsClaim(t, o) => s = t

Claimed(o) == \/ Kind[o] = "ach" /\ status[o] = "PENDING"
              \/ Kind[o] = "invoice" /\ status[o] = "REQUIRES_PAYMENT"

\* Whatever goes wrong in a fulfilment, its commit's lost answer included, never
\* leaves an order claimed by nobody, which no later confirmation would accept: that
\* takes a claim whose own answer is lost (it is awaited outside the try), a release
\* that fails too, or a handler killed between the two.
OrphansAreAbandoned ==
    \A o \in Orders : Claimed(o) => o \in abandoned \/ \E s \in Slots : HoldsClaim(s, o)

\* However often confirmation is requested, released and retried, the audit log
\* has at most one confirmation of an order, and then the order is paid.
AuditedOnce ==
    \A o \in Orders : /\ audit[o] <= 1
                      /\ audit[o] = 1 => status[o] = "PAID"

\* An order that is paid through Stripe alone is never PAID before Stripe has
\* the money, whichever of webhook, confirm and reconcile gets there first.
CardPaidOnlyIfFunded ==
    \A o \in Orders :
        Kind[o] \in {"card", "bare"} /\ status[o] = "PAID" => intent[o] = "succeeded"

\* An event is only closed (processedAt) once its order is PAID: Stripe never
\* stops retrying while the customer's order is still open.
ProcessedImpliesPaid ==
    \A o \in Orders : webhookEvent[o] = "processed" => status[o] = "PAID"

\* Every access key beyond those of the first day was paid for, also when an
\* enrollment is written back from a stale read.
PaidFor(e) ==
    \A k \in e.access \ InitialEnrollment.access :
        \E o \in Orders : /\ Kind[o] # "bare"
                          /\ status[o] = "PAID"
                          /\ \E p \in Items[o] : k \in GrantedKeys(p)

AccessIsPaidFor == PaidFor(enrollment)

\* PAID is final: no claim, release, retry or late checkout step takes it back,
\* and no second fulfilment relabels how an order was paid.
PaidIsFinal ==
    [][\A o \in Orders : status[o] = "PAID" =>
           status'[o] = "PAID" /\ method'[o] = method[o]]_vars

\* What a PAID order contains is owned by the organization.
PaidOrdersGranted ==
    \A o \in Orders : status[o] = "PAID" /\ Kind[o] # "bare" =>
        \A p \in Items[o] : productIsOwned(p, enrollment)

\* Money at Stripe ends in a PAID order, however many of the handlers fail or
\* die on the way.
FundedIsFulfilled ==
    \A o \in Orders : intent[o] = "succeeded" ~> status[o] = "PAID"

\* The webhook's retries also carry the payment to the Deal: the event stays
\* open until Zoho has taken the update.
FundedReachesCrm ==
    \A o \in Orders :
        HasDeal /\ Kind[o] \in {"card", "ach"} /\ intent[o] = "succeeded" ~>
            \A p \in Items[o] : crm.payment[p] \notin {"none", "Needs Invoiced"}

\* The ledger of PaymentLedger is what the order table keeps.
Ledger == INSTANCE PaymentLedger WITH
    StripeOrders <- {o \in Orders : Kind[o] \in {"card", "bare"}},
    opened  <- {o \in Orders : status[o] # "absent"},
    funded  <- {o \in Orders : intent[o] = "succeeded"},
    settled <- {o \in Orders : status[o] = "PAID"}

ImplementsLedger == Ledger!Spec
=============================================================================
