--------------------------- MODULE CommerceProofs ----------------------------
(* Proofs about Commerce, for every set of orders, slots and operations. *)
EXTENDS CommerceInvariant, TLAPS

-----------------------------------------------------------------------------
(* The catalogue *)

\* A fulfilment of known products yields an enrollment (fulfillOrder).
LEMMA FulfilledType ==
    ASSUME NEW e \in Enrollments, NEW items \in SUBSET Products
    PROVE  Fulfilled(e, items) \in Enrollments
<1>1. \A p \in Products : GrantedKeys(p) \subseteq AccessKeys
  BY DEF Products, GrantedKeys, AccessKeys, standardReportAccessKeys,
         STANDARD_PACKAGE_ID, SORTED_VERBATIMS_ID, KEY_IMPACT_ID, RESPONSE_DETAIL_ID
<1>2. UNION {GrantedKeys(p) : p \in items} \subseteq AccessKeys
  BY <1>1
<1>3. e.access \cup UNION {GrantedKeys(p) : p \in items} \in SUBSET AccessKeys
  BY <1>2 DEF Enrollments
<1> QED
  BY <1>3 DEF Fulfilled, Enrollments

\* What paidMethod() answers is one of the payment labels.
LEMMA PaidMethodType == \A m : paidMethod(m) \in Methods
  BY DEF paidMethod, Methods

\* An update of the deal writes payment labels of products, and nothing else.
LEMMA CrmType ==
    ASSUME crm \in [full : BOOLEAN, payment : [Products -> Methods]],
           NEW items, NEW label \in Methods, NEW full \in BOOLEAN
    PROVE  CrmUpdated(items, label, full) \in
               [full : BOOLEAN, payment : [Products -> Methods]]
<1>1. [p \in Products |-> IF p \in items THEN label ELSE crm.payment[p]]
        \in [Products -> Methods]
  OBVIOUS
<1> QED
  BY <1>1 DEF CrmUpdated

\* What a handler sends to Zoho is a Deal (crmFields).
LEMMA DealType ==
    ASSUME TypeOK, SlotShape, NEW s \in Slots, req[s].pc = "zoho"
    PROVE  DealAfter(s) \in [full : BOOLEAN, payment : [Products -> Methods]]
<1>1. "Needs Invoiced" \in Methods /\ paidMethod(req[s].method) \in Methods
  BY PaidMethodType DEF Methods
<1>2. Fulfilled(req[s].seen, Items[req[s].order]).full \in BOOLEAN
  BY CommerceAssumption, FulfilledType DEF TypeOK, SlotShape, Shape, Requests, Enrollments
<1> QED
  BY <1>1, <1>2, CrmType DEF DealAfter, TypeOK

-----------------------------------------------------------------------------
(* Control flow of a handler *)

\* Going on changes where the handler is, and nothing else about any request.
LEMMA GotoFacts ==
    ASSUME req \in [Slots -> Requests], NEW s \in Slots, NEW pc \in PCs, Goto(s, pc)
    PROVE  /\ req' \in [Slots -> Requests]
           /\ \A t \in Slots : t # s => req'[t] = req[t]
           /\ req'[s].op = req[s].op
           /\ req'[s].order = req[s].order
           /\ req'[s].todo = req[s].todo
           /\ req'[s].seen = req[s].seen
           /\ req'[s].method = req[s].method
           /\ req'[s].pc = pc
<1>1. [req[s] EXCEPT !.pc = pc] \in Requests
  BY DEF Requests
<1>2. req' = [req EXCEPT ![s] = [req[s] EXCEPT !.pc = pc]]
  BY DEF Goto
<1>3. \A t \in Slots : req'[t] = IF t = s THEN [req[s] EXCEPT !.pc = pc] ELSE req[t]
  BY <1>2
<1> QED
  BY <1>1, <1>2, <1>3 DEF Requests

\* A slot that serves no request holds a well-formed record.
LEMMA IdleType == Idle \in Requests
  BY CommerceAssumption DEF Idle, Requests, PCs, Methods

\* Returning frees the slot, and changes no other request.
LEMMA ReturnFacts ==
    ASSUME req \in [Slots -> Requests], NEW s \in Slots, Return(s)
    PROVE  /\ req' \in [Slots -> Requests]
           /\ \A t \in Slots : t # s => req'[t] = req[t]
           /\ req'[s] = Idle
  BY IdleType DEF Return

\* A call that fails, or whose answer is lost, ends its request or sends it to the
\* release, where a manual confirmation gives its order back.
LEMMA ErrorFacts ==
    ASSUME req \in [Slots -> Requests], NEW s \in Slots, AfterError(s)
    PROVE  /\ req' \in [Slots -> Requests]
           /\ \A t \in Slots : t # s => req'[t] = req[t]
           /\ \/ req'[s] = Idle
              \/ /\ req[s].op \in {"ach", "invoice"}
                 /\ req[s].pc \in {"fulfil", "commit", "zoho"}
                 /\ req'[s].op = req[s].op
                 /\ req'[s].order = req[s].order
                 /\ req'[s].todo = req[s].todo
                 /\ req'[s].seen = req[s].seen
                 /\ req'[s].method = req[s].method
                 /\ req'[s].pc = "release"
           /\ req[s].op \in {"ach", "invoice"} /\ req[s].pc \in {"fulfil", "commit", "zoho"}
                => req'[s].pc = "release"
<1>1. "release" \in PCs
  BY DEF PCs
<1> QED
  BY <1>1, GotoFacts, ReturnFacts DEF AfterError

\* The count of errors stays within its bound.
LEMMA LoseFacts ==
    ASSUME TypeOK, NEW s \in Slots, LoseAnswer(s)
    PROVE  /\ AfterError(s)
           /\ errors' \in 0..MaxErrors
           /\ crashes' \in 0..MaxCrashes
           /\ req' \in [Slots -> Requests]
<1>1. req \in [Slots -> Requests]
  BY DEF TypeOK
<1>2. AfterError(s)
  BY DEF LoseAnswer
<1>3. req' \in [Slots -> Requests]
  BY <1>1, <1>2, ErrorFacts
<1> QED
  BY <1>2, <1>3, CommerceAssumption DEF LoseAnswer, TypeOK

\* A request that is accepted starts with what the rows say now.
LEMMA AcceptFacts ==
    ASSUME TypeOK, NEW s \in Slots, NEW op \in AllOps, NEW o \in Orders, NEW pc \in PCs,
           Accept(s, op, o, pc)
    PROVE  /\ req' \in [Slots -> Requests]
           /\ \A t \in Slots : t # s => req'[t] = req[t]
           /\ req'[s].op = op
           /\ req'[s].pc = pc
           /\ req'[s].order = o
           /\ req'[s].seen = enrollment
           /\ req'[s].method = method[o]
           /\ req'[s].todo = {}
           /\ op \in Ops
           /\ req[s].pc = "idle"
<1>1. [op |-> op, pc |-> pc, order |-> o, seen |-> enrollment, method |-> method[o],
       todo |-> {}] \in Requests
  BY CommerceAssumption DEF Accept, TypeOK, Requests
<1> QED
  BY <1>1 DEF Accept, TypeOK

\* Before a commit a handler reads the enrollment and the order's method.
LEMMA ReadFacts ==
    ASSUME TypeOK, SlotShape, NEW s \in Slots, ReadPaidOrder(s)
    PROVE  /\ req' \in [Slots -> Requests]
           /\ \A t \in Slots : t # s => req'[t] = req[t]
           /\ req'[s].op = req[s].op
           /\ req'[s].order = req[s].order
           /\ req'[s].todo = req[s].todo
           /\ req'[s].seen = enrollment
           /\ req'[s].method = method[req[s].order]
           /\ req'[s].pc = "commit"
<1>1. method[req[s].order] \in Methods
  BY DEF ReadPaidOrder, SlotShape, Shape, TypeOK
<1> DEFINE r == [req[s] EXCEPT !.seen = enrollment, !.method = method[req[s].order],
                               !.pc = "commit"]
<1>2. req[s] \in Requests /\ enrollment \in Enrollments
  BY DEF TypeOK
<1>3. r \in Requests
  BY <1>1, <1>2 DEF Requests, PCs
<1>4. req' = [req EXCEPT ![s] = r]
  BY DEF ReadPaidOrder
<1> QED
  BY <1>2, <1>3, <1>4 DEF TypeOK, Requests

\* A reconciliation starts with the unpaid Stripe orders of that moment.
LEMMA ReconcileFacts ==
    ASSUME TypeOK, NEW s \in Slots, NEW product, StartReconcile(s, product)
    PROVE  /\ req' \in [Slots -> Requests]
           /\ \A t \in Slots : t # s => req'[t] = req[t]
           /\ req'[s].op = "reconcile"
           /\ req'[s].pc = "next"
           /\ req'[s].seen = InitialEnrollment
           /\ \A o \in req'[s].todo : o \in Orders /\ Kind[o] \in {"card", "ach"}
           /\ req[s].pc = "idle"
<1> DEFINE todo == {o \in Orders : /\ status[o] = "REQUIRES_PAYMENT"
                                   /\ Kind[o] \in {"card", "ach"}
                                   /\ product \in Products => product \in Items[o]}
           r == [Idle EXCEPT !.op = "reconcile", !.pc = "next", !.todo = todo]
<1>1. todo \in SUBSET Orders /\ \A o \in todo : Kind[o] \in {"card", "ach"}
  OBVIOUS
<1>2. req' = [req EXCEPT ![s] = r] /\ req[s].pc = "idle"
  BY DEF StartReconcile
<1> HIDE DEF todo
<1>3. r \in Requests
  BY <1>1, CommerceAssumption DEF Idle, Requests, PCs, AllOps, Methods
<1>4. r.op = "reconcile" /\ r.pc = "next" /\ r.seen = InitialEnrollment /\ r.todo = todo
  BY DEF Idle
<1> HIDE DEF r
<1> QED
  BY <1>1, <1>2, <1>3, <1>4 DEF TypeOK

\* A reconciliation takes the next of its orders, and looks at its intent.
LEMMA PickFacts ==
    ASSUME TypeOK, NEW s \in Slots, NEW o \in Orders, ReconcileOrder(s, o)
    PROVE  /\ req' \in [Slots -> Requests]
           /\ \A t \in Slots : t # s => req'[t] = req[t]
           /\ req'[s].op = req[s].op
           /\ req'[s].order = o
           /\ req'[s].todo = req[s].todo \ {o}
           /\ req'[s].seen = req[s].seen
           /\ req'[s].method = req[s].method
           /\ req'[s].pc = IF intent[o] = "succeeded" THEN "fulfil" ELSE "next"
<1> DEFINE pc == IF intent[o] = "succeeded" THEN "fulfil" ELSE "next"
           r == [req[s] EXCEPT !.todo = req[s].todo \ {o}, !.order = o, !.pc = pc]
<1>1. pc \in PCs
  BY DEF PCs
<1>2. req[s] \in Requests /\ req[s].todo \ {o} \in SUBSET Orders
  BY DEF TypeOK, Requests
<1>3. r \in Requests
  BY <1>1, <1>2 DEF Requests
<1>4. req' = [req EXCEPT ![s] = r]
  BY DEF ReconcileOrder
<1> QED
  BY <1>2, <1>3, <1>4 DEF TypeOK, Requests

-----------------------------------------------------------------------------
(* Type correctness *)

\* The rows, Stripe and the slots start within their types.
LEMMA InitType == Init => TypeOK
<1> SUFFICES ASSUME Init PROVE TypeOK
  OBVIOUS
<1> USE CommerceAssumption DEF Init
<1>1. Idle \in Requests
  BY IdleType
<1>2. crm \in [full : BOOLEAN, payment : [Products -> Methods]]
  BY DEF Methods, Enrollments
<1>3. status \in [Orders -> Statuses] /\ method \in [Orders -> Methods]
  BY DEF InitialStatus, InitialMethod, Statuses, Methods
<1> QED
  BY <1>1, <1>2, <1>3 DEF TypeOK

\* The steps of one handler keep every variable in its type.
LEMMA TypeStep ==
    ASSUME TypeOK, SlotShape, [Next]_vars
    PROVE  TypeOK'
<1> USE CommerceAssumption DEF TypeOK, rows, outside, faults
<1>1. ASSUME NEW s \in Slots, StartRequest(s) PROVE TypeOK'
  <2>1. ASSUME NEW o \in Orders, StartCheckout(s, o) PROVE TypeOK'
    BY <2>1, AcceptFacts DEF AllOps, StartCheckout, PCs
  <2>2. ASSUME NEW o \in Orders, DeliverEvent(s, o) PROVE TypeOK'
    BY <2>2, AcceptFacts DEF AllOps, DeliverEvent, PCs
  <2>3. ASSUME NEW o \in Orders, StartConfirm(s, o) PROVE TypeOK'
    BY <2>3, AcceptFacts DEF AllOps, StartConfirm, PCs
  <2>4. ASSUME NEW o \in Orders, StartValidateAch(s, o) PROVE TypeOK'
    BY <2>4, AcceptFacts DEF AllOps, StartValidateAch, PCs
  <2>5. ASSUME NEW o \in Orders, StartConfirmInvoice(s, o) PROVE TypeOK'
    BY <2>5, AcceptFacts DEF AllOps, StartConfirmInvoice, PCs
  <2>6. ASSUME NEW p, StartReconcile(s, p) PROVE TypeOK'
    <3>1. req' \in [Slots -> Requests]
      BY <2>6, ReconcileFacts
    <3> QED
      BY <2>6, <3>1 DEF StartReconcile
  <2> QED
    BY <1>1, <2>1, <2>2, <2>3, <2>4, <2>5, <2>6 DEF StartRequest
<1>2. ASSUME NEW s \in Slots, Proceed(s) PROVE TypeOK'
  <2>1. CASE CreateIntent(s)
    BY <2>1, GotoFacts, LoseFacts DEF CreateIntent, PCs
  <2>2. CASE CreateStripeOrder(s)
    <3>1. /\ req' \in [Slots -> Requests]
          /\ errors' \in 0..MaxErrors
          /\ crashes' \in 0..MaxCrashes
          /\ abandoned' \subseteq Orders
      BY <2>2, ReturnFacts, LoseFacts DEF CreateStripeOrder
    <3>2. intent' = intent \/ intent' = [intent EXCEPT ![req[s].order] = "handed"]
      BY <2>2 DEF CreateStripeOrder
    <3> QED
      BY <2>2, <3>1, <3>2 DEF CreateStripeOrder, Statuses, Methods
  <2>3. CASE CreateInvoiceOrder(s)
    <3>1. /\ req' \in [Slots -> Requests]
          /\ errors' \in 0..MaxErrors
          /\ crashes' \in 0..MaxCrashes
          /\ abandoned' \subseteq Orders
      BY <2>3, GotoFacts, LoseFacts DEF CreateInvoiceOrder, PCs
    <3> QED
      BY <2>3, <3>1 DEF CreateInvoiceOrder, Statuses, Methods
  <2>4. CASE ApplyEnrollmentKeys(s)
    <3>1. req[s].seen \in Enrollments
      BY DEF Requests
    <3>2. [enrollment EXCEPT !.access = req[s].seen.access, !.kia = req[s].seen.kia]
            \in Enrollments
      BY <3>1 DEF Enrollments
    <3>3. req' \in [Slots -> Requests]
      BY <2>4, GotoFacts, ReturnFacts, LoseFacts DEF ApplyEnrollmentKeys, PCs
    <3>4. errors' \in 0..MaxErrors /\ crashes' \in 0..MaxCrashes /\ abandoned' \subseteq Orders
      BY <2>4, LoseFacts DEF ApplyEnrollmentKeys
    <3> QED
      BY <2>4, <3>2, <3>3, <3>4 DEF ApplyEnrollmentKeys
  <2>5. CASE RetrieveIntent(s)
    BY <2>5, GotoFacts, ReturnFacts DEF RetrieveIntent, PCs
  <2>6. CASE ClaimAchOrder(s)
    <3>1. req' \in [Slots -> Requests]
      BY <2>6, GotoFacts, ReturnFacts, LoseFacts DEF ClaimAchOrder, PCs
    <3>0. /\ UNCHANGED status \/ status' = [status EXCEPT ![req[s].order] = "PENDING"]
          /\ \/ UNCHANGED <<errors, crashes, abandoned>>
             \/ LoseAnswer(s) /\ abandoned' = abandoned \cup {req[s].order}
      BY <2>6, Zenon DEF ClaimAchOrder
    <3>2. status' \in [Orders -> Statuses]
      BY <3>0 DEF Statuses
    <3>3. req[s].order \in Orders
      BY <2>6 DEF ClaimAchOrder, SlotShape, Shape
    <3>4. errors' \in 0..MaxErrors /\ crashes' \in 0..MaxCrashes /\ abandoned' \subseteq Orders
      BY <3>0, <3>3, LoseFacts
    <3> QED
      BY <2>6, <3>1, <3>2, <3>4 DEF ClaimAchOrder
  <2>7. CASE ClaimInvoiceOrder(s)
    <3>1. req' \in [Slots -> Requests]
      BY <2>7, GotoFacts, ReturnFacts, LoseFacts DEF ClaimInvoiceOrder, PCs
    <3>0. /\ UNCHANGED status \/ status' = [status EXCEPT ![req[s].order] = "REQUIRES_PAYMENT"]
          /\ \/ UNCHANGED <<errors, crashes, abandoned>>
             \/ LoseAnswer(s) /\ abandoned' = abandoned \cup {req[s].order}
      BY <2>7, Zenon DEF ClaimInvoiceOrder
    <3>2. status' \in [Orders -> Statuses]
      BY <3>0 DEF Statuses
    <3>3. req[s].order \in Orders
      BY <2>7 DEF ClaimInvoiceOrder, SlotShape, Shape
    <3>4. errors' \in 0..MaxErrors /\ crashes' \in 0..MaxCrashes /\ abandoned' \subseteq Orders
      BY <3>0, <3>3, LoseFacts
    <3> QED
      BY <2>7, <3>1, <3>2, <3>4 DEF ClaimInvoiceOrder
  <2>8. CASE ReleaseClaim(s)
    BY <2>8, ReturnFacts DEF ReleaseClaim, Statuses
  <2>9. ASSUME NEW o \in Orders, ReconcileOrder(s, o) PROVE TypeOK'
    BY <2>9, PickFacts DEF ReconcileOrder
  <2>10. CASE FinishReconcile(s)
    BY <2>10, ReturnFacts DEF FinishReconcile
  <2>11. CASE ReadPaidOrder(s)
    BY <2>11, ReadFacts DEF ReadPaidOrder
  <2>12. CASE CommitFulfillment(s)
    <3>1. Fulfilled(req[s].seen, Items[req[s].order]) \in Enrollments
      BY <2>12, FulfilledType DEF CommitFulfillment, SlotShape, Shape, Requests
    <3>2. method' \in [Orders -> Methods]
      BY <2>12, PaidMethodType, GotoFacts, ReturnFacts DEF CommitFulfillment, PCs
    <3>3. req' \in [Slots -> Requests]
      BY <2>12, GotoFacts, ReturnFacts, LoseFacts DEF CommitFulfillment, PCs, AfterFulfillment
    <3>4. errors' \in 0..MaxErrors /\ crashes' \in 0..MaxCrashes /\ abandoned' \subseteq Orders
      BY <2>12, LoseFacts DEF CommitFulfillment
    <3> QED
      BY <2>12, <3>1, <3>2, <3>3, <3>4 DEF CommitFulfillment, Statuses
  <2>13. CASE CommitBareOrder(s)
    <3>1. req' \in [Slots -> Requests]
      BY <2>13, GotoFacts, ReturnFacts, LoseFacts DEF CommitBareOrder, PCs, AfterFulfillment
    <3>2. errors' \in 0..MaxErrors /\ crashes' \in 0..MaxCrashes /\ abandoned' \subseteq Orders
      BY <2>13, LoseFacts DEF CommitBareOrder
    <3> QED
      BY <2>13, <3>1, <3>2 DEF CommitBareOrder, Statuses
  <2>14. CASE UpdateZoho(s)
    <3>1. req' \in [Slots -> Requests]
      BY <2>14, GotoFacts, ReturnFacts, LoseFacts DEF UpdateZoho, PCs, AfterFulfillment
    <3>2. errors' \in 0..MaxErrors /\ crashes' \in 0..MaxCrashes /\ abandoned' \subseteq Orders
      BY <2>14, LoseFacts DEF UpdateZoho
    <3> QED
      BY <2>14, DealType, <3>1, <3>2 DEF UpdateZoho
  <2>15. CASE MarkProcessed(s)
    BY <2>15, GotoFacts, ReturnFacts DEF MarkProcessed, PCs
  <2>16. CASE RecordConfirmation(s)
    <3>1. req[s].order \in Orders
      BY <2>16 DEF RecordConfirmation, SlotShape, Shape
    <3>2. audit' \in [Orders -> Nat]
      BY <2>16, <3>1 DEF RecordConfirmation
    <3>3. req' \in [Slots -> Requests]
      BY <2>16, ReturnFacts DEF RecordConfirmation
    <3> QED
      BY <2>16, <3>2, <3>3 DEF RecordConfirmation
  <2> QED
    BY <1>2, <2>1, <2>2, <2>3, <2>4, <2>5, <2>6, <2>7, <2>8, <2>9, <2>10,
       <2>11, <2>12, <2>13, <2>14, <2>15, <2>16 DEF Proceed
<1>3. ASSUME NEW s \in Slots, Fail(s) PROVE TypeOK'
  <2>1. req' \in [Slots -> Requests]
    BY <1>3, ErrorFacts DEF Fail
  <2>2. errors' \in 0..MaxErrors
    BY <1>3 DEF Fail
  <2>3. abandoned' \subseteq Orders
    BY <1>3 DEF Fail, SlotShape, Shape
  <2> QED
    BY <1>3, <2>1, <2>2, <2>3 DEF Fail
<1>4. ASSUME NEW s \in Slots, Crash(s) PROVE TypeOK'
  <2>1. crashes' \in 0..MaxCrashes
    BY <1>4, ReturnFacts DEF Crash
  <2>2. abandoned' \subseteq Orders
    BY <1>4 DEF Crash
  <2> QED
    BY <1>4, <2>1, <2>2, ReturnFacts DEF Crash
<1>5. ASSUME NEW o \in Orders, Pay(o) PROVE TypeOK'
  BY <1>5 DEF Pay
<1>6. ASSUME NEW o \in Orders, DeliverProcessedEvent(o) PROVE TypeOK'
  BY <1>6 DEF DeliverProcessedEvent
<1>7. CASE UNCHANGED vars
  BY <1>7 DEF vars
<1> QED
  BY <1>1, <1>2, <1>3, <1>4, <1>5, <1>6, <1>7 DEF Next

-----------------------------------------------------------------------------
(* Steps of one handler *)

\* A step of one request leaves the record of every other request alone.
LEMMA OthersWait ==
    ASSUME TypeOK, SlotShape, NEW s \in Slots,
           StartRequest(s) \/ Proceed(s) \/ Fail(s) \/ Crash(s)
    PROVE  \A t \in Slots : t # s => req'[t] = req[t]
<1> USE DEF TypeOK, PCs
<1>1. CASE StartRequest(s)
  <2> USE AcceptFacts DEF AllOps
  <2>1. ASSUME NEW p, StartReconcile(s, p) PROVE \A t \in Slots : t # s => req'[t] = req[t]
    BY <2>1, ReconcileFacts
  <2>2. ASSUME NEW o \in Orders, ~ \E p : StartReconcile(s, p)
        PROVE  \A t \in Slots : t # s => req'[t] = req[t]
    BY <1>1, <2>2 DEF StartRequest, StartCheckout, DeliverEvent, StartConfirm,
                      StartValidateAch, StartConfirmInvoice
  <2> QED
    BY <1>1, <2>1, <2>2 DEF StartRequest
<1>2. CASE Proceed(s)
  <2>1. ASSUME NEW o \in Orders, ReconcileOrder(s, o)
        PROVE  \A t \in Slots : t # s => req'[t] = req[t]
    BY <2>1, PickFacts
  <2>2. CASE ReadPaidOrder(s)
    BY <2>2, ReadFacts
  <2>3. ASSUME NEW pc \in PCs, Goto(s, pc) PROVE \A t \in Slots : t # s => req'[t] = req[t]
    BY <2>3, GotoFacts
  <2>4. CASE Return(s)
    BY <2>4, ReturnFacts
  <2>5. CASE AfterFulfillment(s)
    BY <2>3, <2>4, <2>5 DEF AfterFulfillment
  <2>6. CASE LoseAnswer(s)
    BY <2>6, ErrorFacts DEF LoseAnswer
  <2> QED
    BY <1>2, <2>1, <2>2, <2>3, <2>4, <2>5, <2>6
       DEF Proceed, CreateIntent, CreateStripeOrder, CreateInvoiceOrder,
           ApplyEnrollmentKeys, RetrieveIntent, ClaimAchOrder, ClaimInvoiceOrder,
           ReleaseClaim, FinishReconcile, CommitFulfillment, CommitBareOrder,
           UpdateZoho, MarkProcessed, RecordConfirmation
<1>3. CASE Fail(s)
  BY <1>3, ErrorFacts DEF Fail
<1>4. CASE Crash(s)
  BY <1>4, ReturnFacts DEF Crash
<1> QED
  BY <1>1, <1>2, <1>3, <1>4

\* Where a handler is tells what it may be doing.
LEMMA OpAt ==
    ASSUME TypeOK, SlotShape, NEW s \in Slots
    PROVE  /\ req[s].pc \in {"intent", "create", "keys"} => req[s].op = "checkout"
           /\ req[s].pc = "retrieve" => req[s].op = "confirm"
           /\ req[s].pc = "next" => req[s].op = "reconcile"
           /\ req[s].pc \in {"claim", "release"} => req[s].op \in {"ach", "invoice"}
           /\ req[s].pc = "fulfil" => req[s].op \in {"webhook", "confirm", "reconcile", "ach"}
           /\ req[s].pc = "commit" =>
                req[s].op \in {"webhook", "confirm", "reconcile", "ach", "invoice"}
           /\ req[s].pc = "zoho" => req[s].op # "none"
           /\ req[s].pc = "finish" => req[s].op \in {"webhook", "ach", "invoice"}
           /\ req[s].pc = "idle" <=> req[s].op = "none"
           /\ req[s].op \in AllOps \cup {"none"}
<1>1. req[s].op \in AllOps \cup {"none"} /\ req[s].pc \in PCsOf(req[s].op)
  BY DEF TypeOK, Requests, SlotShape, Shape
<1> QED
  BY <1>1 DEF PCsOf, AllOps

-----------------------------------------------------------------------------
(* Handlers stay where their operation can be *)

\* Going on to a program counter of its own route keeps the shape of a request.
LEMMA GotoShape ==
    ASSUME TypeOK, SlotShape, NEW s \in Slots, NEW pc \in PCsOf(req[s].op),
           Goto(s, pc), req[s].pc \notin {"idle", "next"}, pc # "intent"
    PROVE  Shape(s)'
<1>1. pc \in PCs
  BY OpAt DEF PCsOf, AllOps, PCs
<1> QED
  BY <1>1, GotoFacts DEF TypeOK, SlotShape, Shape

\* A slot that has answered has the shape of an idle one.
LEMMA ReturnShape ==
    ASSUME TypeOK, NEW s \in Slots, Return(s)
    PROVE  Shape(s)'
<1>1. req'[s] = Idle
  BY ReturnFacts DEF TypeOK
<1> QED
  BY <1>1 DEF Shape, Idle, PCsOf

\* So has a slot after an error, be it idle or about to release its claim.
LEMMA ErrorShape ==
    ASSUME TypeOK, SlotShape, NEW s \in Slots, AfterError(s)
    PROVE  Shape(s)'
<1>1. \/ req'[s] = Idle
      \/ /\ req[s].op \in {"ach", "invoice"}
         /\ req[s].pc \in {"fulfil", "commit", "zoho"}
         /\ req'[s].op = req[s].op
         /\ req'[s].order = req[s].order
         /\ req'[s].todo = req[s].todo
         /\ req'[s].pc = "release"
  BY ErrorFacts DEF TypeOK
<1>2. Shape(s)
  BY DEF SlotShape
<1> QED
  BY <1>1, <1>2 DEF Shape, Idle, PCsOf

\* A request accepted on a route of its kind of order has the shape of that route.
LEMMA AcceptShape ==
    ASSUME TypeOK, NEW s \in Slots, NEW op \in AllOps, NEW o \in Orders, NEW pc \in PCs,
           Accept(s, op, o, pc), pc \in PCsOf(op), Kind[o] \in KindsOf(op),
           pc = "intent" => Kind[o] # "invoice"
    PROVE  Shape(s)'
<1>1. req'[s].op = op /\ req'[s].pc = pc /\ req'[s].order = o /\ req'[s].todo = {}
  BY AcceptFacts
<1> QED
  BY <1>1 DEF Shape

\* Every step of a request keeps the shape of all requests: each route of the
\* controllers visits its own awaits, on an order of a kind that it accepts.
LEMMA ShapeStep ==
    ASSUME IInv, NEW s \in Slots,
           StartRequest(s) \/ Proceed(s) \/ Fail(s) \/ Crash(s)
    PROVE  SlotShape'
<1>0. TypeOK /\ SlotShape /\ Shape(s) /\ \A o \in Orders : OrderInv(o)
  BY DEF IInv, SlotShape
<1>1. SUFFICES Shape(s)'
  BY <1>0, OthersWait DEF SlotShape, Shape
<1> USE DEF PCs, PCsOf
<1>2. CASE StartRequest(s)
  <2>0. \A o \in Orders : Kind[o] \in Kinds
    BY CommerceAssumption
  <2> USE <1>0, <2>0, AcceptShape DEF AllOps, KindsOf, Kinds
  <2>1. ASSUME NEW o \in Orders, StartCheckout(s, o) PROVE Shape(s)'
    BY <2>1 DEF StartCheckout
  <2>2. ASSUME NEW o \in Orders, DeliverEvent(s, o) PROVE Shape(s)'
    BY <2>2 DEF DeliverEvent, OrderInv
  <2>3. ASSUME NEW o \in Orders, StartConfirm(s, o) PROVE Shape(s)'
    BY <2>3 DEF StartConfirm
  <2>4. ASSUME NEW o \in Orders, StartValidateAch(s, o) PROVE Shape(s)'
    BY <2>4 DEF StartValidateAch, OrderInv, MethodOf
  <2>5. ASSUME NEW o \in Orders, StartConfirmInvoice(s, o) PROVE Shape(s)'
    BY <2>5 DEF StartConfirmInvoice, OrderInv, MethodOf
  <2>6. ASSUME NEW p, StartReconcile(s, p) PROVE Shape(s)'
    BY <2>6, ReconcileFacts DEF Shape
  <2> QED
    BY <1>2, <2>1, <2>2, <2>3, <2>4, <2>5, <2>6 DEF StartRequest
<1>3. CASE Proceed(s)
  <2> USE <1>0, OpAt, GotoShape, ReturnShape
  <2>0. CASE LoseAnswer(s)
    BY <2>0, ErrorShape DEF LoseAnswer
  <2>1. CASE CreateIntent(s)
    BY <2>0, <2>1 DEF CreateIntent
  <2>2. CASE CreateStripeOrder(s)
    BY <2>0, <2>2 DEF CreateStripeOrder
  <2>3. CASE CreateInvoiceOrder(s)
    BY <2>0, <2>3 DEF CreateInvoiceOrder
  <2>4. CASE ApplyEnrollmentKeys(s)
    BY <2>0, <2>4 DEF ApplyEnrollmentKeys
  <2>5. CASE RetrieveIntent(s)
    BY <2>5 DEF RetrieveIntent
  <2>6. CASE ClaimAchOrder(s)
    BY <2>0, <2>6 DEF ClaimAchOrder
  <2>7. CASE ClaimInvoiceOrder(s)
    BY <2>0, <2>7 DEF ClaimInvoiceOrder
  <2>8. CASE ReleaseClaim(s)
    BY <2>8 DEF ReleaseClaim
  <2>9. ASSUME NEW o \in Orders, ReconcileOrder(s, o) PROVE Shape(s)'
    <3>1. /\ req'[s].op = "reconcile"
          /\ req'[s].order = o
          /\ req'[s].todo \subseteq req[s].todo
          /\ req'[s].pc \in {"fulfil", "next"}
      <4>1. req[s].op = "reconcile"
        BY <2>9, OpAt DEF ReconcileOrder
      <4>2. /\ req'[s].op = req[s].op
            /\ req'[s].order = o
            /\ req'[s].todo = req[s].todo \ {o}
            /\ req'[s].pc = IF intent[o] = "succeeded" THEN "fulfil" ELSE "next"
        BY <2>9, PickFacts
      <4> QED
        BY <4>1, <4>2
    <3>2. Kind[o] \in {"card", "ach"} /\ \A q \in req[s].todo : Kind[q] \in {"card", "ach"}
      BY <2>9 DEF ReconcileOrder, Shape
    <3> QED
      BY <3>1, <3>2 DEF Shape, KindsOf
  <2>10. CASE FinishReconcile(s)
    BY <2>10 DEF FinishReconcile
  <2>11. CASE ReadPaidOrder(s)
    <3>1. /\ req'[s].op = req[s].op
          /\ req'[s].order = req[s].order
          /\ req'[s].todo = req[s].todo
          /\ req'[s].pc = "commit"
      BY <2>11, ReadFacts
    <3>2. req[s].op \in {"webhook", "confirm", "reconcile", "ach"} /\ req[s].pc = "fulfil"
      BY <2>11 DEF ReadPaidOrder
    <3> QED
      BY <3>1, <3>2 DEF Shape
  <2>12. CASE CommitFulfillment(s)
    BY <2>0, <2>12 DEF CommitFulfillment, AfterFulfillment
  <2>13. CASE CommitBareOrder(s)
    BY <2>0, <2>13 DEF CommitBareOrder, AfterFulfillment
  <2>14. CASE UpdateZoho(s)
    <3>1. req[s].op \in {"checkout", "webhook", "confirm", "ach", "invoice", "reconcile"}
      BY <2>14 DEF UpdateZoho, AllOps
    <3>2. CASE ~LoseAnswer(s) /\ req[s].op \in {"checkout", "confirm"}
      BY <2>14, <3>2 DEF UpdateZoho, AfterFulfillment
    <3>3. CASE ~LoseAnswer(s) /\ req[s].op \notin {"checkout", "confirm"}
      <4>1. Goto(s, IF req[s].op = "reconcile" THEN "next" ELSE "finish")
        BY <2>14, <3>3 DEF UpdateZoho, AfterFulfillment
      <4>2. req[s].pc = "zoho"
        BY <2>14 DEF UpdateZoho
      <4> QED
        BY <3>1, <3>3, <4>1, <4>2
    <3> QED
      BY <2>0, <3>2, <3>3
  <2>15. CASE MarkProcessed(s)
    BY <2>15 DEF MarkProcessed
  <2>16. CASE RecordConfirmation(s)
    BY <2>16 DEF RecordConfirmation
  <2> QED
    BY <1>3, <2>1, <2>2, <2>3, <2>4, <2>5, <2>6, <2>7, <2>8, <2>9, <2>10,
       <2>11, <2>12, <2>13, <2>14, <2>15, <2>16 DEF Proceed
<1>4. CASE Fail(s)
  BY <1>0, <1>4, ErrorShape DEF Fail
<1>5. CASE Crash(s)
  BY <1>0, <1>5, ReturnShape DEF Crash
<1> QED
  BY <1>2, <1>3, <1>4, <1>5
-----------------------------------------------------------------------------
(* What a step may do to the other handlers *)

\* PAID and the money at Stripe stay; rows that t depends on are left alone.
Respects(t) ==
    /\ \A o \in Orders : /\ status[o] = "PAID" => status'[o] = "PAID"
                         /\ intent[o] = "succeeded" => intent'[o] = "succeeded"
                         /\ HoldsClaim(t, o) => /\ Claimed(o) => Claimed(o)' \/ status'[o] = "PAID"
                                                /\ audit'[o] = audit[o]
    /\ req[t].pc \in {"intent", "create"} =>
         status'[req[t].order] = status[req[t].order]

\* The access keys that were paid for stay paid for.
LEMMA PaidForStays ==
    ASSUME NEW e, PaidFor(e), \A o \in Orders : status[o] = "PAID" => status'[o] = "PAID"
    PROVE  \A k \in e.access \ InitialEnrollment.access :
             \E o \in Orders : /\ Kind[o] # "bare"
                               /\ status'[o] = "PAID"
                               /\ \E p \in Items[o] : k \in GrantedKeys(p)
  BY DEF PaidFor

\* What another request relies on survives a step that respects it.
LEMMA OtherSlots ==
    ASSUME TypeOK, TypeOK', SlotShape, NEW t \in Slots, SlotInv(t), req'[t] = req[t], Respects(t)
    PROVE  SlotInv(t)'
<1>1. PaidFor(req[t].seen)'
  BY PaidForStays DEF Respects, SlotInv, PaidFor
<1>2. \A o \in Orders : HoldsClaim(t, o)' = HoldsClaim(t, o)
  BY DEF HoldsClaim
<1>3. \A o \in Orders : HoldsClaim(t, o)' =>
         (Claimed(o)' \/ status'[o] = "PAID") /\ audit'[o] = 0
  BY <1>2 DEF Respects, SlotInv
<1>5. req[t].pc \in {"intent", "create"} => status'[req[t].order] = "absent"
  BY DEF Respects, SlotInv
<1>6. req[t].pc \notin {"idle", "next"} => req[t].order \in Orders
  BY DEF SlotShape, Shape
<1>7. /\ req[t].op \in StripeOps /\ req[t].pc \in {"fulfil", "commit", "zoho", "finish"}
           => intent'[req[t].order] = "succeeded"
      /\ req[t].pc \in {"zoho", "finish"} /\ req[t].op # "checkout"
           => status'[req[t].order] = "PAID"
  BY <1>6 DEF Respects, SlotInv
<1>8. /\ req[t].pc = "commit" => req[t].method = SeenMethod(req[t].order)
      /\ req[t].op = "invoice" => req[t].method = "Needs Invoiced"
  BY DEF SlotInv
<1> QED
  BY <1>1, <1>3, <1>5, <1>7, <1>8 DEF SlotInv, SeenMethod

\* The rest of the invariant, after a step of one handler.
LEMMA Frame ==
    ASSUME IInv, TypeOK', NEW s \in Slots,
           StartRequest(s) \/ Proceed(s) \/ Fail(s) \/ Crash(s),
           \A t \in Slots \ {s} : Respects(t),
           SlotInv(s)',
           \A o \in Orders : OrderInv(o)',
           req'[s].op = "checkout" =>
             \A t \in Slots \ {s} : req[t].op = "checkout" => req[t].order # req'[s].order,
           \A o \in Orders : \A t \in Slots \ {s} :
             HoldsClaim(s, o)' => ~HoldsClaim(t, o),
           OrphansAreAbandoned',
           PaidFor(enrollment)'
    PROVE  IInv'
<1>1. TypeOK /\ SlotShape /\ SlotShape'
  BY ShapeStep DEF IInv
<1>2. \A t \in Slots : t # s => req'[t] = req[t]
  BY <1>1, OthersWait
<1>3. \A t \in Slots : SlotInv(t)'
  <2> TAKE t \in Slots
  <2>1. CASE t = s
    BY <2>1
  <2>2. CASE t # s
    <3>1. SlotInv(t)
      BY DEF IInv
    <3> QED
      BY <1>1, <1>2, <2>2, <3>1, OtherSlots
  <2> QED
    BY <2>1, <2>2
<1>4. CheckoutIsExclusive'
  BY <1>2 DEF IInv, CheckoutIsExclusive
<1>5. ClaimIsExclusive'
  BY <1>2 DEF IInv, ClaimIsExclusive, HoldsClaim
<1> QED
  BY <1>1, <1>3, <1>4, <1>5 DEF IInv, AccessIsPaidFor

\* A handler that frees its slot relies on nothing.
LEMMA ReturnInv ==
    ASSUME TypeOK, NEW s \in Slots, Return(s)
    PROVE  SlotInv(s)' /\ \A o : ~HoldsClaim(s, o)'
<1>1. req'[s] = Idle
  BY ReturnFacts DEF TypeOK
<1>2. \A o : ~HoldsClaim(s, o)'
  BY <1>1 DEF HoldsClaim, Idle
<1> QED
  BY <1>1, <1>2 DEF SlotInv, Idle, PaidFor

\* A step that writes no order, audit record or entitlement.
LEMMA QuietStep ==
    ASSUME IInv, TypeOK', NEW s \in Slots,
           StartRequest(s) \/ Proceed(s) \/ Fail(s) \/ Crash(s),
           UNCHANGED <<status, method, audit>>,
           \A o \in Orders : intent[o] = "succeeded" => intent'[o] = "succeeded",
           abandoned \subseteq abandoned',
           PaidFor(enrollment'),
           SlotInv(s)',
           \A o \in Orders : OrderInv(o)',
           req'[s].op = "checkout" =>
             \A t \in Slots \ {s} : req[t].op = "checkout" => req[t].order # req'[s].order,
           \A o \in Orders : HoldsClaim(s, o)' => HoldsClaim(s, o),
           \A o \in Orders : HoldsClaim(s, o) /\ Claimed(o) => HoldsClaim(s, o)' \/ o \in abandoned'
    PROVE  IInv'
<1>1. TypeOK /\ SlotShape
  BY DEF IInv
<1>2. \A t \in Slots : t # s => req'[t] = req[t]
  BY <1>1, OthersWait
<1>3. \A t \in Slots \ {s} : Respects(t)
  BY DEF Respects, Claimed
<1>4. OrphansAreAbandoned'
  <2> SUFFICES ASSUME NEW o \in Orders, Claimed(o)', o \notin abandoned'
               PROVE  \E t \in Slots : HoldsClaim(t, o)'
    BY DEF OrphansAreAbandoned
  <2>2. Claimed(o) /\ o \notin abandoned
    BY DEF Claimed
  <2>3. PICK t \in Slots : HoldsClaim(t, o)
    BY <2>2 DEF IInv, OrphansAreAbandoned
  <2>4. CASE t = s
    BY <2>2, <2>3, <2>4
  <2>5. CASE t # s
    BY <1>2, <2>3, <2>5 DEF HoldsClaim
  <2> QED
    BY <2>4, <2>5
<1>5. PaidFor(enrollment)'
  BY DEF PaidFor
<1>6. \A o \in Orders : \A t \in Slots \ {s} : HoldsClaim(s, o)' => ~HoldsClaim(t, o)
  BY DEF IInv, ClaimIsExclusive
<1> QED
  BY <1>3, <1>4, <1>5, <1>6, Frame

\* A step that writes no row and no Stripe object keeps what is known of the orders.
LEMMA SameOrders ==
    ASSUME \A o \in Orders : OrderInv(o),
           UNCHANGED <<status, method, intent, event, webhookEvent, audit>>
    PROVE  \A o \in Orders : OrderInv(o)'
  BY DEF OrderInv, MethodOf

-----------------------------------------------------------------------------
(* Requests that start *)

\* What a request that is about to be accepted may rely on.
Acceptable(op, o, pc) ==
    /\ pc \notin {"commit", "zoho", "finish", "release"}
    /\ op \in {"ach", "invoice"} => pc = "claim"
    /\ op \in StripeOps /\ pc = "fulfil" => intent[o] = "succeeded"
    /\ op = "invoice" => method[o] = "Needs Invoiced"
    /\ op = "checkout" => \A t \in Slots : req[t].op = "checkout" => req[t].order # o
    /\ pc \in {"intent", "create"} => status[o] = "absent"

\* Accepting a request keeps the invariant, when the new request may rely on
\* no more than it has read.
LEMMA AcceptStep ==
    ASSUME IInv, TypeOK', NEW s \in Slots, StartRequest(s),
           NEW op \in AllOps, NEW o \in Orders, NEW pc \in PCs,
           Accept(s, op, o, pc), Acceptable(op, o, pc),
           UNCHANGED <<status, method, enrollment, audit, intent, abandoned>>,
           \A q \in Orders : OrderInv(q)'
    PROVE  IInv'
<1>1. TypeOK
  BY DEF IInv
<1>2. req[s].pc = "idle"
  BY <1>1, AcceptFacts
<1>3. /\ req'[s].op = op
      /\ req'[s].pc = pc
      /\ req'[s].order = o
      /\ req'[s].seen = enrollment
      /\ req'[s].method = method[o]
  BY <1>1, AcceptFacts
<1>4. \A q \in Orders : ~HoldsClaim(s, q)
  BY <1>2 DEF HoldsClaim
<1>5. \A q \in Orders : ~HoldsClaim(s, q)'
  BY <1>3 DEF HoldsClaim, Acceptable
<1>6. PaidFor(enrollment)
  BY DEF IInv, AccessIsPaidFor
<1>7. PaidFor(enrollment') /\ PaidFor(enrollment)'
  BY <1>6 DEF PaidFor
<1>8. SlotInv(s)'
  <2>1. PaidFor(req[s].seen)'
    BY <1>3, <1>7 DEF PaidFor
  <2>2. op \in StripeOps /\ pc \in {"fulfil", "commit", "zoho", "finish"} =>
           intent'[o] = "succeeded"
    BY DEF Acceptable
  <2>3. /\ pc \in {"intent", "create"} => status'[o] = "absent"
        /\ pc \notin {"commit", "zoho", "finish", "release"}
        /\ op = "invoice" => method[o] = "Needs Invoiced"
    BY DEF Acceptable
  <2> QED
    BY <1>3, <1>5, <2>1, <2>2, <2>3 DEF SlotInv
<1>10. req'[s].op = "checkout" =>
         \A t \in Slots \ {s} : req[t].op = "checkout" => req[t].order # req'[s].order
  BY <1>3 DEF Acceptable
<1> QED
  BY <1>4, <1>5, <1>7, <1>8, <1>10, QuietStep

\* Every route of the controllers accepts its requests so that the invariant holds.
LEMMA StartRequestKeeps ==
    ASSUME IInv, TypeOK', NEW s \in Slots, StartRequest(s)
    PROVE  IInv'
<1>1. TypeOK /\ SlotShape /\ \A o \in Orders : OrderInv(o)
  BY DEF IInv
<1> USE DEF AllOps, PCs, StripeOps, rows, outside, faults
<1>2. ASSUME NEW o \in Orders, StartCheckout(s, o) PROVE IInv'
  BY <1>1, <1>2, AcceptStep, SameOrders DEF Acceptable, StartCheckout
<1>3. ASSUME NEW o \in Orders, DeliverEvent(s, o) PROVE IInv'
  <2>1. \A q \in Orders : OrderInv(q)'
    <3> TAKE q \in Orders
    <3>1. /\ webhookEvent'[q] = IF q = o THEN "stored" ELSE webhookEvent[q]
          /\ UNCHANGED <<status, method, intent, event, audit>>
      BY <1>1, <1>3 DEF DeliverEvent, TypeOK
    <3>2. OrderInv(q)
      BY <1>1
    <3> QED
      BY <3>1, <3>2 DEF OrderInv, MethodOf
  <2>2. intent[o] = "succeeded"
    BY <1>1, <1>3 DEF DeliverEvent, OrderInv
  <2> QED
    BY <1>3, <2>1, <2>2, AcceptStep DEF Acceptable, DeliverEvent
<1>4. ASSUME NEW o \in Orders, StartConfirm(s, o) PROVE IInv'
  BY <1>1, <1>4, AcceptStep, SameOrders DEF Acceptable, StartConfirm
<1>5. ASSUME NEW o \in Orders, StartValidateAch(s, o) PROVE IInv'
  BY <1>1, <1>5, AcceptStep, SameOrders DEF Acceptable, StartValidateAch
<1>6. ASSUME NEW o \in Orders, StartConfirmInvoice(s, o) PROVE IInv'
  BY <1>1, <1>6, AcceptStep, SameOrders DEF Acceptable, StartConfirmInvoice
<1>7. ASSUME NEW p, StartReconcile(s, p) PROVE IInv'
  <2>1. UNCHANGED <<rows, outside, faults>>
    BY <1>7 DEF StartReconcile
  <2>2. /\ req'[s].op = "reconcile"
        /\ req'[s].pc = "next"
        /\ req'[s].seen = InitialEnrollment
        /\ req[s].pc = "idle"
    BY <1>1, <1>7, ReconcileFacts
  <2>3. \A q \in Orders : ~HoldsClaim(s, q) /\ ~HoldsClaim(s, q)'
    BY <2>2 DEF HoldsClaim
  <2>4. SlotInv(s)'
    BY <2>2, <2>3 DEF SlotInv, PaidFor
  <2>5. PaidFor(enrollment)
    BY DEF IInv, AccessIsPaidFor
  <2> QED
    BY <1>1, <2>1, <2>2, <2>3, <2>4, <2>5, QuietStep, SameOrders
<1> QED
  BY <1>2, <1>3, <1>4, <1>5, <1>6, <1>7 DEF StartRequest

-----------------------------------------------------------------------------
(* Steps that only move a handler *)

\* What a handler has made sure of before it goes on to pc.
MayGoto(s, pc) ==
    /\ pc \in {"create", "zoho", "fulfil", "next", "finish"}
    /\ pc = "create" => status[req[s].order] = "absent"
    /\ pc = "zoho" => req[s].op = "checkout"
    /\ pc = "fulfil" => req[s].op = "confirm" /\ intent[req[s].order] = "succeeded"
    /\ pc = "finish" => /\ req[s].pc = "zoho"
                        /\ status[req[s].order] = "PAID"
                        /\ req[s].op \in StripeOps => intent[req[s].order] = "succeeded"
    /\ req[s].op \in {"ach", "invoice"} => pc = "finish"

\* A step that only advances its handler, when it may go there, keeps the invariant.
LEMMA GotoStep ==
    ASSUME IInv, TypeOK', NEW s \in Slots, NEW pc \in PCs, Goto(s, pc), Proceed(s),
           req[s].pc \notin {"idle", "next"}, MayGoto(s, pc),
           UNCHANGED <<status, method, audit, abandoned>>,
           \A o \in Orders : intent[o] = "succeeded" => intent'[o] = "succeeded",
           PaidFor(enrollment'),
           \A o \in Orders : OrderInv(o)'
    PROVE  IInv'
<1>1. TypeOK /\ SlotShape /\ SlotInv(s)
  BY DEF IInv
<1>2. /\ req'[s].op = req[s].op
      /\ req'[s].order = req[s].order
      /\ req'[s].seen = req[s].seen
      /\ req'[s].method = req[s].method
      /\ req'[s].pc = pc
  BY <1>1, GotoFacts DEF TypeOK
<1>3. \A o \in Orders : HoldsClaim(s, o)' => HoldsClaim(s, o)
  BY <1>2 DEF HoldsClaim, MayGoto
<1>4. \A o \in Orders : HoldsClaim(s, o) => HoldsClaim(s, o)'
  BY <1>2 DEF HoldsClaim, MayGoto
<1>5. SlotInv(s)'
  <2>1. PaidFor(req[s].seen)'
    BY <1>1, <1>2 DEF PaidFor, SlotInv
  <2>2. \A o \in Orders : HoldsClaim(s, o)' => (Claimed(o)' \/ status'[o] = "PAID") /\ audit'[o] = 0
    BY <1>1, <1>3 DEF SlotInv, Claimed
  <2>3. req[s].op = "invoice" => req[s].method = "Needs Invoiced"
    BY <1>1 DEF SlotInv
  <2>4. req[s].order \in Orders
    BY <1>1 DEF SlotShape, Shape
  <2>5. req[s].op \in StripeOps /\ pc \in {"fulfil", "commit", "zoho", "finish"} =>
           intent'[req[s].order] = "succeeded"
    BY <2>4 DEF MayGoto, StripeOps
  <2>6. pc \in {"zoho", "finish"} /\ req[s].op # "checkout" => status'[req[s].order] = "PAID"
    BY DEF MayGoto
  <2>7. pc \notin {"intent", "commit", "release"} /\ (pc = "create" => status'[req[s].order] = "absent")
    BY DEF MayGoto
  <2> QED
    BY <1>2, <2>1, <2>2, <2>3, <2>5, <2>6, <2>7 DEF SlotInv
<1>7. req'[s].op = "checkout" =>
         \A t \in Slots \ {s} : req[t].op = "checkout" => req[t].order # req'[s].order
  BY <1>2 DEF IInv, CheckoutIsExclusive
<1> QED
  BY <1>3, <1>4, <1>5, <1>7, QuietStep

\* Returning without a claim, with the claim of an order that is paid, or with one that
\* is abandoned.
LEMMA ReturnStep ==
    ASSUME IInv, TypeOK', NEW s \in Slots, Return(s),
           Proceed(s) \/ Fail(s) \/ Crash(s),
           UNCHANGED <<status, method, audit, intent>>,
           abandoned \subseteq abandoned',
           PaidFor(enrollment'),
           \A o \in Orders : OrderInv(o)',
           \A o \in Orders : HoldsClaim(s, o) /\ Claimed(o) => o \in abandoned'
    PROVE  IInv'
<1>1. TypeOK
  BY DEF IInv
<1>2. SlotInv(s)' /\ \A o \in Orders : ~HoldsClaim(s, o)'
  BY <1>1, ReturnInv
<1>3. req'[s].op # "checkout"
  BY <1>1, ReturnFacts DEF TypeOK, Idle
<1> QED
  BY <1>2, <1>3, QuietStep

\* An error anywhere but at a claim: a manual confirmation goes on to the release of its
\* order, and the claim whose release itself fails is abandoned.
LEMMA ErrorStep ==
    ASSUME IInv, TypeOK', NEW s \in Slots, AfterError(s),
           Proceed(s) \/ Fail(s),
           UNCHANGED <<status, method, audit>>,
           \A o \in Orders : intent[o] = "succeeded" => intent'[o] = "succeeded",
           abandoned \subseteq abandoned',
           req[s].pc = "release" => req[s].order \in abandoned',
           PaidFor(enrollment'),
           \A o \in Orders : OrderInv(o)'
    PROVE  IInv'
<1>1. TypeOK /\ SlotShape /\ SlotInv(s) /\ req \in [Slots -> Requests]
  BY DEF IInv, TypeOK
<1>2. CASE req[s].op \in {"ach", "invoice"} /\ req[s].pc \in {"fulfil", "commit", "zoho"}
  <2>1. /\ req'[s].op = req[s].op
        /\ req'[s].order = req[s].order
        /\ req'[s].seen = req[s].seen
        /\ req'[s].method = req[s].method
        /\ req'[s].pc = "release"
    BY <1>1, <1>2, ErrorFacts DEF Idle
  <2>2. \A o \in Orders : HoldsClaim(s, o)' = HoldsClaim(s, o)
    <3>1. ~(req[s].op = "invoice" /\ req[s].pc = "fulfil")
      BY <1>1, OpAt
    <3> QED
      BY <1>2, <2>1, <3>1 DEF HoldsClaim
  <2>3. SlotInv(s)'
    <3>1. PaidFor(req[s].seen)'
      BY <1>1, <2>1 DEF PaidFor, SlotInv
    <3>2. \A o \in Orders : HoldsClaim(s, o)' =>
             (Claimed(o)' \/ status'[o] = "PAID") /\ audit'[o] = 0
      BY <1>1, <2>2 DEF SlotInv, Claimed
    <3>3. req[s].op = "invoice" => req[s].method = "Needs Invoiced"
      BY <1>1 DEF SlotInv
    <3> QED
      BY <2>1, <3>1, <3>2, <3>3 DEF SlotInv
  <2>4. req'[s].op # "checkout"
    BY <1>2, <2>1
  <2> QED
    BY <2>2, <2>3, <2>4, QuietStep
<1>3. CASE ~(req[s].op \in {"ach", "invoice"} /\ req[s].pc \in {"fulfil", "commit", "zoho"})
  <2>1. Return(s)
    BY <1>3 DEF AfterError
  <2>2. SlotInv(s)' /\ \A o \in Orders : ~HoldsClaim(s, o)'
    BY <1>1, <2>1, ReturnInv
  <2>3. req'[s].op # "checkout"
    BY <1>1, <2>1, ReturnFacts DEF Idle
  <2>4. ASSUME NEW o \in Orders, HoldsClaim(s, o), Claimed(o)
        PROVE  o \in abandoned'
    <3>1. req[s].pc \in {"finish", "release"} /\ req[s].order = o
              /\ req[s].op \in {"ach", "invoice"}
      BY <1>3, <2>4 DEF HoldsClaim
    <3>2. req[s].pc # "finish"
      BY <1>1, <2>4, <3>1 DEF SlotInv, Claimed
    <3> QED
      BY <3>1, <3>2
  <2> QED
    BY <2>2, <2>3, <2>4, QuietStep
<1> QED
  BY <1>2, <1>3

\* The awaits that write no order row keep the invariant: Stripe, the
\* enrollment keys, the deal, and the marks of the webhook event.
LEMMA QuietKeeps ==
    ASSUME IInv, TypeOK', NEW s \in Slots,
           \/ CreateIntent(s) \/ ApplyEnrollmentKeys(s) \/ RetrieveIntent(s)
           \/ FinishReconcile(s) \/ UpdateZoho(s) \/ MarkProcessed(s)
           \/ Fail(s) \/ Crash(s)
    PROVE  IInv'
<1>1. TypeOK /\ SlotShape /\ SlotInv(s) /\ \A o \in Orders : OrderInv(o)
  BY DEF IInv
<1>2. PaidFor(enrollment)
  BY DEF IInv, AccessIsPaidFor
<1>4. req[s].pc \notin {"idle", "next"} => req[s].order \in Orders
  BY <1>1 DEF SlotShape, Shape
<1> USE DEF rows, outside, faults
<1>5. CASE CreateIntent(s)
  <2> DEFINE o == req[s].order
  <2>1. req[s].pc = "intent" /\ req[s].op = "checkout" /\ o \in Orders
    BY <1>1, <1>4, <1>5, OpAt DEF CreateIntent
  <2>2. status[o] = "absent" /\ Kind[o] # "invoice"
    BY <1>1, <2>1 DEF SlotInv, SlotShape, Shape
  <2>3. intent[o] # "succeeded" /\ event[o] = "none"
    BY <1>1, <2>1, <2>2 DEF OrderInv
  <2>4. \A q \in Orders : intent'[q] = IF q = o THEN "created" ELSE intent[q]
    BY <1>1, <1>5 DEF CreateIntent, TypeOK
  <2>5. \A q \in Orders : OrderInv(q)'
    <3> TAKE q \in Orders
    <3>1. UNCHANGED <<status, method, event, webhookEvent, audit>>
      BY <1>5 DEF CreateIntent
    <3>2. OrderInv(q)
      BY <1>1
    <3> QED
      BY <2>2, <2>3, <2>4, <3>1, <3>2 DEF OrderInv, MethodOf
  <2>6. MayGoto(s, "create") /\ Proceed(s)
    BY <1>5, <2>1, <2>2 DEF MayGoto, Proceed
  <2>7. /\ UNCHANGED <<status, method, enrollment, audit, abandoned>>
        /\ Goto(s, "create") \/ AfterError(s)
    BY <1>5 DEF CreateIntent, LoseAnswer
  <2>8. PaidFor(enrollment')
    BY <1>2, <2>7
  <2>9. \A q \in Orders : intent[q] = "succeeded" => intent'[q] = "succeeded"
    BY <2>3, <2>4
  <2>10. CASE Goto(s, "create")
    BY <2>1, <2>5, <2>6, <2>7, <2>8, <2>9, <2>10, GotoStep DEF PCs
  <2>11. CASE AfterError(s)
    BY <2>1, <2>5, <2>6, <2>7, <2>8, <2>9, <2>11, ErrorStep
  <2> QED
    BY <2>7, <2>10, <2>11
<1>6. CASE ApplyEnrollmentKeys(s)
  <2>1. req[s].pc = "keys" /\ req[s].op = "checkout"
    BY <1>1, <1>6, OpAt DEF ApplyEnrollmentKeys
  <2>2. PaidFor(enrollment')
    <3>1. enrollment'.access = req[s].seen.access
      BY <1>1, <1>6 DEF ApplyEnrollmentKeys, TypeOK, Enrollments
    <3> QED
      BY <1>1, <3>1 DEF PaidFor, SlotInv
  <2>3. \A o \in Orders : OrderInv(o)'
    BY <1>1, <1>6, SameOrders DEF ApplyEnrollmentKeys
  <2>4. MayGoto(s, "zoho")
    BY <2>1 DEF MayGoto
  <2>5. \A o \in Orders : ~HoldsClaim(s, o)
    BY <2>1 DEF HoldsClaim
  <2>6. /\ UNCHANGED <<status, method, audit, intent, abandoned>>
        /\ Proceed(s)
        /\ Goto(s, "zoho") \/ Return(s) \/ AfterError(s)
    BY <1>6 DEF ApplyEnrollmentKeys, LoseAnswer, Proceed
  <2>7. CASE Goto(s, "zoho")
    BY <2>1, <2>2, <2>3, <2>4, <2>6, <2>7, GotoStep DEF PCs
  <2>8. CASE Return(s)
    BY <2>2, <2>3, <2>5, <2>6, <2>8, ReturnStep
  <2>9. CASE AfterError(s)
    BY <2>1, <2>2, <2>3, <2>6, <2>9, ErrorStep
  <2> QED
    BY <2>6, <2>7, <2>8, <2>9
<1>7. CASE RetrieveIntent(s)
  <2>1. req[s].pc = "retrieve" /\ req[s].op = "confirm"
    BY <1>1, <1>7, OpAt DEF RetrieveIntent
  <2>2. \A o \in Orders : OrderInv(o)'
    BY <1>1, <1>7, SameOrders DEF RetrieveIntent
  <2>3. \A o \in Orders : ~HoldsClaim(s, o)
    BY <2>1 DEF HoldsClaim
  <2>4. CASE intent[req[s].order] = "succeeded"
    <3>1. Goto(s, "fulfil") /\ MayGoto(s, "fulfil")
      BY <1>7, <2>1, <2>4 DEF RetrieveIntent, MayGoto
    <3> QED
      BY <1>2, <1>7, <2>1, <2>2, <3>1, GotoStep DEF RetrieveIntent, Proceed, PCs
  <2>5. CASE intent[req[s].order] # "succeeded"
    BY <1>2, <1>7, <2>2, <2>3, <2>5, ReturnStep DEF RetrieveIntent, Proceed
  <2> QED
    BY <2>4, <2>5
<1>8. CASE FinishReconcile(s)
  <2>1. \A o \in Orders : ~HoldsClaim(s, o)
    BY <1>8 DEF FinishReconcile, HoldsClaim
  <2>2. \A o \in Orders : OrderInv(o)'
    BY <1>1, <1>8, SameOrders DEF FinishReconcile
  <2> QED
    BY <1>2, <1>8, <2>1, <2>2, ReturnStep DEF FinishReconcile, Proceed
<1>9. CASE UpdateZoho(s)
  <2>1. req[s].pc = "zoho" /\ req[s].order \in Orders
    BY <1>4, <1>9 DEF UpdateZoho
  <2>2. \A o \in Orders : OrderInv(o)'
    BY <1>1, <1>9, SameOrders DEF UpdateZoho
  <2>3. req[s].op # "checkout" => status[req[s].order] = "PAID"
    BY <1>1, <2>1 DEF SlotInv
  <2>4. req[s].op \in StripeOps => intent[req[s].order] = "succeeded"
    BY <1>1, <2>1 DEF SlotInv
  <2>5. /\ UNCHANGED <<status, method, enrollment, audit, intent, abandoned>>
        /\ Proceed(s)
        /\ PaidFor(enrollment')
    BY <1>2, <1>9 DEF UpdateZoho, Proceed
  <2>6. CASE AfterError(s)
    BY <2>1, <2>2, <2>5, <2>6, ErrorStep
  <2>7. CASE ~AfterError(s) /\ req[s].op \in {"checkout", "confirm"}
    <3>1. Return(s)
      BY <1>9, <2>7 DEF UpdateZoho, AfterFulfillment, LoseAnswer
    <3>2. \A o \in Orders : ~HoldsClaim(s, o)
      BY <2>7 DEF HoldsClaim
    <3> QED
      BY <2>2, <2>5, <3>1, <3>2, ReturnStep
  <2>8. CASE ~AfterError(s) /\ req[s].op \notin {"checkout", "confirm"}
    <3> DEFINE pc == IF req[s].op = "reconcile" THEN "next" ELSE "finish"
    <3>1. Goto(s, pc)
      BY <1>9, <2>8 DEF UpdateZoho, AfterFulfillment, LoseAnswer
    <3>2. MayGoto(s, pc)
      BY <2>1, <2>3, <2>4, <2>8 DEF MayGoto
    <3>3. pc \in PCs
      BY DEF PCs
    <3> HIDE DEF pc
    <3> QED
      BY <2>1, <2>2, <2>5, <3>1, <3>2, <3>3, GotoStep
  <2> QED
    BY <2>6, <2>7, <2>8
<1>10. CASE MarkProcessed(s)
  <2> DEFINE o == req[s].order
  <2>1. req[s].op = "webhook" /\ req[s].pc = "finish" /\ o \in Orders
    BY <1>4, <1>10 DEF MarkProcessed
  <2>2. status[o] = "PAID" /\ intent[o] = "succeeded"
    BY <1>1, <2>1 DEF SlotInv, StripeOps
  <2>3. \A q \in Orders :
          /\ webhookEvent'[q] = IF q = o THEN "processed" ELSE webhookEvent[q]
          /\ event'[q] = event[q] \/ (q = o /\ event'[q] = "acked")
    BY <1>1, <1>10 DEF MarkProcessed, TypeOK
  <2>4. \A q \in Orders : OrderInv(q)'
    <3> TAKE q \in Orders
    <3>1. UNCHANGED <<status, method, intent, audit>>
      BY <1>10 DEF MarkProcessed
    <3>2. OrderInv(q)
      BY <1>1
    <3> QED
      BY <2>2, <2>3, <3>1, <3>2 DEF OrderInv, MethodOf
  <2>5. \A q \in Orders : ~HoldsClaim(s, q)
    BY <2>1 DEF HoldsClaim
  <2> QED
    <3>1. Return(s) /\ UNCHANGED <<status, method, enrollment, audit, intent, abandoned>>
      BY <1>10 DEF MarkProcessed
    <3>2. Proceed(s)
      BY <1>10 DEF Proceed
    <3> QED
      BY <1>2, <2>4, <2>5, <3>1, <3>2, ReturnStep
<1>11. CASE Fail(s)
  <2>1. /\ AfterError(s)
        /\ UNCHANGED <<rows, outside>>
        /\ abandoned' = IF req[s].pc = "release" THEN abandoned \cup {req[s].order} ELSE abandoned
    BY <1>11 DEF Fail
  <2>2. \A o \in Orders : OrderInv(o)'
    BY <1>1, <2>1, SameOrders
  <2> QED
    BY <1>2, <1>11, <2>1, <2>2, ErrorStep
<1>12. CASE Crash(s)
  <2>1. \A o \in Orders : OrderInv(o)'
    BY <1>1, <1>12, SameOrders DEF Crash
  <2>2. /\ abandoned \subseteq abandoned'
        /\ \A o \in Orders : HoldsClaim(s, o) => o \in abandoned'
    BY <1>12 DEF Crash
  <2> QED
    BY <1>2, <1>12, <2>1, <2>2, ReturnStep DEF Crash
<1> QED
  BY <1>5, <1>6, <1>7, <1>8, <1>9, <1>10, <1>11, <1>12

-----------------------------------------------------------------------------
(* Steps that read what is to be fulfilled *)

\* Taking the next order of a reconciliation keeps the invariant.
LEMMA ReconcileOrderKeeps ==
    ASSUME IInv, TypeOK', NEW s \in Slots, NEW o \in Orders, ReconcileOrder(s, o)
    PROVE  IInv'
<1>1. TypeOK /\ SlotShape /\ SlotInv(s) /\ \A q \in Orders : OrderInv(q)
  BY DEF IInv
<1>2. UNCHANGED <<rows, outside, faults>> /\ req[s].pc = "next"
  BY DEF ReconcileOrder
<1>3. req[s].op = "reconcile"
  BY <1>1, <1>2, OpAt
<1>4. /\ req'[s].op = "reconcile"
      /\ req'[s].order = o
      /\ req'[s].seen = req[s].seen
      /\ req'[s].pc = IF intent[o] = "succeeded" THEN "fulfil" ELSE "next"
  BY <1>1, <1>3, PickFacts
<1>5. \A q \in Orders : ~HoldsClaim(s, q) /\ ~HoldsClaim(s, q)'
  BY <1>3, <1>4 DEF HoldsClaim
<1>6. SlotInv(s)'
  <2>1. PaidFor(req[s].seen)'
    BY <1>1, <1>2, <1>4 DEF PaidFor, SlotInv, rows
  <2> QED
    BY <1>2, <1>4, <1>5, <2>1 DEF SlotInv, outside
<1>7. \A q \in Orders : OrderInv(q)'
  BY <1>1, <1>2, SameOrders DEF rows, outside
<1>8. PaidFor(enrollment)
  BY DEF IInv, AccessIsPaidFor
<1>9. Proceed(s)
  BY DEF Proceed
<1> QED
  BY <1>2, <1>4, <1>5, <1>6, <1>7, <1>8, <1>9, QuietStep DEF rows, outside, faults

\* Reading the enrollment before the commit keeps the invariant: what is
\* remembered has been paid for.
LEMMA ReadPaidOrderKeeps ==
    ASSUME IInv, TypeOK', NEW s \in Slots, ReadPaidOrder(s)
    PROVE  IInv'
<1> DEFINE o == req[s].order
<1>1. TypeOK /\ SlotShape /\ SlotInv(s) /\ \A q \in Orders : OrderInv(q)
  BY DEF IInv
<1>2. UNCHANGED <<rows, outside, faults>> /\ req[s].pc = "fulfil"
  BY DEF ReadPaidOrder
<1>3. req[s].op \in {"webhook", "confirm", "reconcile", "ach"} /\ o \in Orders
  BY <1>1, <1>2, OpAt DEF SlotShape, Shape
<1>4. /\ req'[s].op = req[s].op
      /\ req'[s].order = o
      /\ req'[s].seen = enrollment
      /\ req'[s].method = method[o]
      /\ req'[s].pc = "commit"
  BY <1>1, ReadFacts
<1>5. \A q \in Orders : HoldsClaim(s, q)' = HoldsClaim(s, q)
  BY <1>2, <1>3, <1>4 DEF HoldsClaim
<1>6. method[o] = SeenMethod(o)
  <2>1. method[o] = MethodOf(o) /\ Kind[o] \in KindsOf(req[s].op)
    BY <1>1, <1>2, <1>3 DEF OrderInv, SlotShape, Shape
  <2>2. Kind[o] # "invoice" /\ (Kind[o] # "ach" => req[s].op \in StripeOps)
    BY <1>3, <2>1 DEF KindsOf, StripeOps
  <2>3. Kind[o] # "ach" => status[o] # "absent"
    BY <1>1, <1>2, <1>3, <2>2 DEF SlotInv, OrderInv
  <2> QED
    BY <2>1, <2>2, <2>3 DEF MethodOf, SeenMethod
<1>7. PaidFor(enrollment)
  BY DEF IInv, AccessIsPaidFor
<1>8. SlotInv(s)'
  <2>1. PaidFor(req[s].seen)'
    BY <1>2, <1>4, <1>7 DEF PaidFor, rows
  <2>2. \A q \in Orders : HoldsClaim(s, q)' =>
           (Claimed(q)' \/ status'[q] = "PAID") /\ audit'[q] = 0
    BY <1>1, <1>2, <1>5 DEF SlotInv, Claimed, rows
  <2>3. req'[s].method = SeenMethod(o)' /\ req[s].op # "invoice"
    BY <1>3, <1>4, <1>6 DEF SeenMethod
  <2>4. req[s].op \in StripeOps => intent'[o] = "succeeded"
    BY <1>1, <1>2 DEF SlotInv, outside
  <2> QED
    BY <1>4, <2>1, <2>2, <2>3, <2>4 DEF SlotInv, SeenMethod
<1>9. \A q \in Orders : OrderInv(q)'
  BY <1>1, <1>2, SameOrders DEF rows, outside
<1>10. Proceed(s)
  BY DEF Proceed
<1> QED
  BY <1>2, <1>3, <1>4, <1>5, <1>7, <1>8, <1>9, <1>10, QuietStep DEF rows, outside, faults

-----------------------------------------------------------------------------
(* Steps that write an order *)

\* Inserting the order of a checkout keeps the invariant: no other request can
\* have been creating it.
LEMMA CreateOrderKeeps ==
    ASSUME IInv, TypeOK', NEW s \in Slots, CreateStripeOrder(s) \/ CreateInvoiceOrder(s)
    PROVE  IInv'
<1> DEFINE o == req[s].order
<1>1. TypeOK /\ SlotShape /\ SlotInv(s) /\ (\A q \in Orders : OrderInv(q)) /\ CheckoutIsExclusive
  BY DEF IInv
<1>2. /\ req[s].pc = "create"
      /\ UNCHANGED <<enrollment, webhookEvent, audit, event, crm, abandoned>>
  BY DEF CreateStripeOrder, CreateInvoiceOrder, outside, faults
<1>3. req[s].op = "checkout" /\ o \in Orders /\ Kind[o] # "ach" /\ status[o] = "absent"
  BY <1>1, <1>2, OpAt DEF SlotShape, Shape, KindsOf, SlotInv
<1>4. /\ intent[o] \notin {"handed", "succeeded"}
      /\ event[o] = "none"
      /\ audit[o] = 0
      /\ webhookEvent[o] # "processed"
  <2>1. OrderInv(o) /\ audit[o] \in Nat
    BY <1>1, <1>3 DEF TypeOK
  <2> QED
    BY <1>3, <2>1 DEF OrderInv
<1>5. \A q \in Orders \ {o} : /\ status'[q] = status[q]
                               /\ method'[q] = method[q]
                               /\ intent'[q] = intent[q]
  <2>1. CASE CreateStripeOrder(s)
    BY <1>1, <2>1 DEF CreateStripeOrder, TypeOK
  <2>2. CASE CreateInvoiceOrder(s)
    BY <1>1, <2>2 DEF CreateInvoiceOrder, TypeOK, outside
  <2> QED
    BY <2>1, <2>2
<1>6. /\ \/ /\ Kind[o] # "invoice"
            /\ status'[o] = "REQUIRES_PAYMENT"
            /\ method'[o] = "Paid via Credit Card"
            /\ intent'[o] \in {"handed", intent[o]}
         \/ /\ Kind[o] = "invoice"
            /\ status'[o] = "PENDING"
            /\ method'[o] = "Needs Invoiced"
            /\ intent'[o] = intent[o]
      /\ Return(s) \/ Goto(s, "keys")
  <2>0. /\ status \in [Orders -> Statuses]
        /\ method \in [Orders -> Methods]
        /\ intent \in [Orders -> {"none", "created", "handed", "succeeded"}]
    BY <1>1 DEF TypeOK
  <2>1. CASE CreateStripeOrder(s)
    <3>1. /\ status' = [status EXCEPT ![o] = "REQUIRES_PAYMENT"]
          /\ method' = [method EXCEPT ![o] = "Paid via Credit Card"]
          /\ intent' = [intent EXCEPT ![o] = "handed"] \/ intent' = intent
          /\ Return(s)
          /\ Kind[o] # "invoice"
      BY <1>3, <2>1 DEF CreateStripeOrder, LoseAnswer, AfterError
    <3> QED
      BY <1>3, <2>0, <3>1
  <2>2. CASE CreateInvoiceOrder(s)
    BY <1>3, <2>0, <2>2 DEF CreateInvoiceOrder, LoseAnswer, AfterError, outside
  <2> QED
    BY <2>1, <2>2
<1>7. \A q \in Orders : OrderInv(q)'
  <2> TAKE q \in Orders
  <2>1. OrderInv(q)
    BY <1>1
  <2>2. CASE q # o
    BY <1>2, <1>5, <2>1, <2>2 DEF OrderInv, MethodOf
  <2>3. CASE q = o
    BY <1>2, <1>3, <1>4, <1>6, <2>1, <2>3 DEF OrderInv, MethodOf
  <2> QED
    BY <2>2, <2>3
<1>8. Proceed(s) /\ PaidFor(enrollment)
  BY DEF Proceed, IInv, AccessIsPaidFor
<1>9. \A q \in Orders : status[q] = "PAID" => status'[q] = "PAID"
  BY <1>3, <1>5
<1>10. \A q \in Orders : Claimed(q)' = Claimed(q)
  BY <1>3, <1>5, <1>6 DEF Claimed
<1>11. \A t \in Slots : t # s /\ req[t].pc \in {"intent", "create"} => req[t].order # o
  BY <1>1, <1>3, OpAt DEF CheckoutIsExclusive
<1>12. \A t \in Slots \ {s} : Respects(t)
  <2> TAKE t \in Slots \ {s}
  <2>1. req[t].pc \in {"intent", "create"} => req[t].order \in Orders \ {o}
    BY <1>1, <1>11 DEF SlotShape, Shape
  <2> QED
    BY <1>2, <1>4, <1>5, <1>9, <1>10, <2>1 DEF Respects
<1>13. req'[s] = Idle \/ (req'[s].op = "checkout" /\ req'[s].order = o /\ req'[s].pc = "keys"
                            /\ req'[s].seen = req[s].seen)
  BY <1>1, <1>3, <1>6, ReturnFacts, GotoFacts DEF TypeOK, PCs
<1>14. \A q \in Orders : ~HoldsClaim(s, q) /\ ~HoldsClaim(s, q)'
  BY <1>3, <1>13 DEF HoldsClaim, Idle
<1>15. PaidFor(req[s].seen)' /\ PaidFor(enrollment)'
  <2>1. PaidFor(req'[s].seen)
    <3>1. PaidFor(req[s].seen) /\ PaidFor(Idle.seen)
      BY <1>1 DEF SlotInv, PaidFor, Idle
    <3> QED
      BY <1>13, <3>1
  <2> QED
    BY <1>2, <1>8, <1>9, <2>1, PaidForStays DEF PaidFor
<1>16. SlotInv(s)'
  <2>1. CASE req'[s] = Idle
    BY <1>14, <1>15, <2>1 DEF SlotInv, Idle
  <2>2. CASE req'[s].op = "checkout" /\ req'[s].pc = "keys"
    BY <1>14, <1>15, <2>2 DEF SlotInv, StripeOps
  <2> QED
    BY <1>13, <2>1, <2>2
<1>17. OrphansAreAbandoned'
  <2> SUFFICES ASSUME NEW q \in Orders, Claimed(q), q \notin abandoned
               PROVE  \E t \in Slots : HoldsClaim(t, q)'
    BY <1>2, <1>10 DEF OrphansAreAbandoned
  <2>1. PICK t \in Slots : HoldsClaim(t, q)
    BY DEF IInv, OrphansAreAbandoned
  <2>2. req'[t] = req[t]
    BY <1>1, <1>8, <1>14, <2>1, OthersWait
  <2> QED
    BY <2>1, <2>2 DEF HoldsClaim
<1>18. req'[s].op = "checkout" =>
         \A t \in Slots \ {s} : req[t].op = "checkout" => req[t].order # req'[s].order
  BY <1>1, <1>3, <1>13 DEF CheckoutIsExclusive, Idle
<1> QED
  BY <1>7, <1>8, <1>12, <1>14, <1>15, <1>16, <1>17, <1>18, Frame

\* Until it commits, whoever is about to fulfil an order knows that it exists.
LEMMA TargetExists ==
    ASSUME IInv, NEW s \in Slots, req[s].pc \in {"commit", "release", "finish"}
    PROVE  /\ req[s].order \in Orders
           /\ status[req[s].order] # "absent"
           /\ req[s].op \notin StripeOps => HoldsClaim(s, req[s].order)
           /\ req[s].op \in StripeOps => intent[req[s].order] = "succeeded"
           /\ \A t \in Slots : req[t].pc \in {"intent", "create"} => req[t].order # req[s].order
<1> DEFINE o == req[s].order
<1>1. TypeOK /\ SlotShape /\ (\A t \in Slots : SlotInv(t)) /\ \A q \in Orders : OrderInv(q)
  BY DEF IInv
<1>2. o \in Orders
  BY <1>1 DEF SlotShape, Shape
<1>3. req[s].op \in StripeOps \/ (req[s].op \in {"ach", "invoice"} /\ req[s].op \notin StripeOps)
  BY <1>1, OpAt DEF StripeOps
<1>4. req[s].op \notin StripeOps => HoldsClaim(s, o)
  BY <1>3 DEF HoldsClaim
<1>5. req[s].op \in StripeOps => intent[o] = "succeeded"
  <2>1. ~(req[s].op \in StripeOps /\ req[s].pc = "release")
    BY <1>1, OpAt DEF StripeOps
  <2>2. SlotInv(s)
    BY <1>1
  <2> QED
    BY <2>1, <2>2 DEF SlotInv
<1>6. status[o] # "absent"
  <2>1. CASE req[s].op \in StripeOps
    BY <1>1, <1>2, <1>5, <2>1 DEF OrderInv
  <2>2. CASE req[s].op \notin StripeOps
    <3>1. Claimed(o) \/ status[o] = "PAID"
      BY <1>1, <1>2, <1>4, <2>2 DEF SlotInv
    <3> QED
      BY <3>1 DEF Claimed
  <2> QED
    BY <2>1, <2>2
<1>7. \A t \in Slots : req[t].pc \in {"intent", "create"} => status[req[t].order] = "absent"
  BY <1>1 DEF SlotInv
<1> QED
  BY <1>2, <1>4, <1>5, <1>6, <1>7

\* The conditional update that claims an ACH or invoiced order keeps the
\* invariant: it finds the order unclaimed, so no other request holds it.
LEMMA ClaimKeeps ==
    ASSUME IInv, TypeOK', NEW s \in Slots, ClaimAchOrder(s) \/ ClaimInvoiceOrder(s)
    PROVE  IInv'
<1> DEFINE o == req[s].order
<1>1. /\ TypeOK
      /\ SlotShape
      /\ \A t \in Slots : SlotInv(t)
      /\ \A q \in Orders : OrderInv(q)
  BY DEF IInv
<1>2. /\ req[s].pc = "claim"
      /\ UNCHANGED <<method, enrollment, webhookEvent, audit, outside>>
      /\ abandoned \subseteq abandoned'
  BY DEF ClaimAchOrder, ClaimInvoiceOrder, faults
<1>3. o \in Orders /\ Kind[o] \in KindsOf(req[s].op)
  BY <1>1, <1>2 DEF SlotShape, Shape
<1>4. /\ PaidFor(enrollment)
      /\ Proceed(s)
  BY DEF IInv, AccessIsPaidFor, Proceed
<1>5. \A q \in Orders : ~HoldsClaim(s, q)
  BY <1>2 DEF HoldsClaim
<1>6. CASE Return(s) /\ UNCHANGED status
  <2>1. \A q \in Orders : OrderInv(q)'
    BY <1>1, <1>2, <1>6, SameOrders DEF outside
  <2>2. UNCHANGED <<status, method, audit, intent, enrollment>>
    BY <1>2, <1>6 DEF outside
  <2> QED
    BY <1>2, <1>4, <1>5, <1>6, <2>1, <2>2, ReturnStep
<1>7. CASE /\ status[o] # "absent"
           /\ status[o] # "PAID"
           /\ ~Claimed(o)
           /\ \/ \E pc \in {"fulfil", "commit"} : Goto(s, pc) /\ (pc = "commit" <=> req[s].op = "invoice")
              \/ Return(s) /\ o \in abandoned'
           /\ status' = [status EXCEPT ![o] = IF req[s].op = "ach" THEN "PENDING" ELSE "REQUIRES_PAYMENT"]
  <2>1. \/ \E pc \in {"fulfil", "commit"} : Goto(s, pc) /\ (pc = "commit" <=> req[s].op = "invoice")
        \/ Return(s) /\ o \in abandoned'
    BY <1>7
  <2>2. \/ req'[s] = Idle /\ o \in abandoned'
        \/ /\ req'[s].op = req[s].op
           /\ req'[s].order = o
           /\ req'[s].seen = req[s].seen
           /\ req'[s].method = req[s].method
           /\ req'[s].pc \in {"fulfil", "commit"}
           /\ req'[s].pc = "commit" <=> req[s].op = "invoice"
    BY <1>1, <2>1, GotoFacts, ReturnFacts DEF TypeOK, PCs
  <2>3. req[s].op \in {"ach", "invoice"}
    BY <1>1, <1>2, OpAt
  <2>4. Kind[o] = req[s].op
    BY <1>3, <2>3 DEF KindsOf
  <2>5. \A q \in Orders : status'[q] = IF q # o THEN status[q]
                            ELSE IF req[s].op = "ach" THEN "PENDING" ELSE "REQUIRES_PAYMENT"
    BY <1>1, <1>7 DEF TypeOK
  <2>6. /\ (Kind[o] = "ach" /\ status'[o] = "PENDING")
            \/ (Kind[o] = "invoice" /\ status'[o] = "REQUIRES_PAYMENT")
        /\ \A q \in Orders \ {o} : Claimed(q)' = Claimed(q)
    <3>1. (Kind[o] = "ach" /\ status'[o] = "PENDING")
            \/ (Kind[o] = "invoice" /\ status'[o] = "REQUIRES_PAYMENT")
      BY <1>3, <2>3, <2>4, <2>5
    <3>2. ASSUME NEW q \in Orders \ {o} PROVE Claimed(q)' = Claimed(q)
      BY <2>5, <3>2 DEF Claimed
    <3> QED
      BY <3>1, <3>2
  <2>7. \A t \in Slots : ~HoldsClaim(t, o)
    BY <1>1, <1>3, <1>7 DEF SlotInv
  <2>8. \A q \in Orders : HoldsClaim(s, q)' => q = o
    BY <2>2 DEF HoldsClaim, Idle
  <2>9. audit[o] = 0
    <3>1. OrderInv(o) /\ audit[o] \in Nat
      BY <1>1, <1>3 DEF TypeOK
    <3> QED
      BY <1>7, <3>1 DEF OrderInv
  <2>10. \A q \in Orders : OrderInv(q)'
    <3> TAKE q \in Orders
    <3>1. OrderInv(q)
      BY <1>1
    <3>2. UNCHANGED <<method, intent, event, webhookEvent, audit>>
      BY <1>2 DEF outside
    <3>3. CASE q # o
      BY <2>5, <3>1, <3>2, <3>3 DEF OrderInv, MethodOf
    <3>4. CASE q = o
      <4>1. status'[q] \in {"PENDING", "REQUIRES_PAYMENT"} /\ Kind[q] \in {"ach", "invoice"}
        BY <2>3, <2>4, <2>5, <3>4
      <4>2. status[q] # "absent" /\ status[q] # "PAID" /\ audit[q] = 0
        BY <1>7, <2>9, <3>4
      <4>3. MethodOf(q)' = MethodOf(q)
        BY <4>1, <4>2 DEF MethodOf
      <4>4. webhookEvent[q] # "processed"
        BY <3>1, <4>2 DEF OrderInv
      <4> QED
        BY <3>1, <3>2, <4>1, <4>2, <4>3, <4>4 DEF OrderInv
    <3> QED
      BY <3>3, <3>4
  <2>11. \A t \in Slots \ {s} : Respects(t)
    <3> TAKE t \in Slots \ {s}
    <3>1. req[t].pc \in {"intent", "create"} => req[t].order \in Orders \ {o}
      <4> HAVE req[t].pc \in {"intent", "create"}
      <4>1. status[req[t].order] = "absent"
        BY <1>1 DEF SlotInv
      <4>2. req[t].order \in Orders
        BY <1>1 DEF SlotShape, Shape
      <4> QED
        BY <1>7, <4>1, <4>2
    <3>2. \A q \in Orders : status[q] = "PAID" => status'[q] = "PAID"
      BY <1>7, <2>5
    <3>3. \A q \in Orders : HoldsClaim(t, q) => q # o
      BY <2>7
    <3> QED
      BY <1>2, <2>5, <2>6, <3>1, <3>2, <3>3 DEF Respects, outside
  <2>12. PaidFor(enrollment)' /\ PaidFor(req[s].seen)'
    <3>1. PaidFor(req'[s].seen)
      <4>1. PaidFor(req[s].seen) /\ PaidFor(Idle.seen)
        BY <1>1 DEF SlotInv, Idle, PaidFor
      <4> QED
        BY <2>2, <4>1
    <3>2. \A q \in Orders : status[q] = "PAID" => status'[q] = "PAID"
      BY <1>7, <2>5
    <3> QED
      BY <1>2, <1>4, <3>1, <3>2, PaidForStays DEF PaidFor
  <2>13. SlotInv(s)'
    <3>1. \A q \in Orders : HoldsClaim(s, q)' => (Claimed(q)' \/ status'[q] = "PAID") /\ audit'[q] = 0
      <4> SUFFICES ASSUME NEW q \in Orders, HoldsClaim(s, q)'
                   PROVE  Claimed(q)' /\ audit'[q] = 0
        OBVIOUS
      <4>1. q = o /\ audit' = audit
        BY <1>2, <2>8
      <4>2. audit'[q] = 0
        BY <2>9, <4>1
      <4>3. Claimed(q)'
        BY <2>6, <4>1 DEF Claimed
      <4> QED
        BY <4>2, <4>3
    <3>2. req[s].op = "invoice" => req[s].method = "Needs Invoiced"
      BY <1>1 DEF SlotInv
    <3>3. req[s].op = "invoice" => req[s].method = SeenMethod(o)
      BY <2>4, <3>2 DEF SeenMethod
    <3>4. req[s].op \notin StripeOps
      BY <2>3 DEF StripeOps
    <3>5. CASE req'[s] = Idle
      BY <2>12, <3>1, <3>5 DEF SlotInv, Idle
    <3>6. CASE req'[s] # Idle
      BY <2>2, <2>12, <3>1, <3>2, <3>3, <3>4, <3>6 DEF SlotInv, SeenMethod
    <3> QED
      BY <3>5, <3>6
  <2>14. OrphansAreAbandoned'
    <3> SUFFICES ASSUME NEW q \in Orders, Claimed(q)', q \notin abandoned'
                 PROVE  \E t \in Slots : HoldsClaim(t, q)'
      BY DEF OrphansAreAbandoned
    <3>1. CASE q = o
      <4>1. HoldsClaim(s, q)'
        BY <2>2, <2>3, <3>1 DEF HoldsClaim
      <4> QED
        BY <4>1
    <3>2. CASE q # o
      <4>1. PICK t \in Slots : HoldsClaim(t, q)
        BY <1>2, <2>6, <3>2 DEF IInv, OrphansAreAbandoned
      <4>2. req'[t] = req[t]
        BY <1>1, <1>4, <1>5, <4>1, OthersWait
      <4> QED
        BY <4>1, <4>2 DEF HoldsClaim
    <3> QED
      BY <3>1, <3>2
  <2>15. \A q \in Orders : \A t \in Slots \ {s} : HoldsClaim(s, q)' => ~HoldsClaim(t, q)
    BY <2>7, <2>8
  <2>16. req'[s].op # "checkout"
    BY <2>2, <2>3 DEF Idle
  <2> QED
    BY <1>4, <2>10, <2>11, <2>12, <2>13, <2>14, <2>15, <2>16, Frame
<1>8. CASE ClaimAchOrder(s)
  <2>1. req[s].op = "ach" /\ Kind[o] = "ach"
    BY <1>3, <1>8 DEF ClaimAchOrder, KindsOf
  <2>2. CASE status[o] = "REQUIRES_PAYMENT" /\ method[o] = "Paid via ACH"
    <3>1. /\ Goto(s, "fulfil") \/ (Return(s) /\ o \in abandoned')
          /\ status' = [status EXCEPT ![o] = "PENDING"]
      BY <1>8, <2>2 DEF ClaimAchOrder, LoseAnswer, AfterError
    <3>2. ~Claimed(o)
      BY <2>1, <2>2 DEF Claimed
    <3> QED
      BY <1>7, <2>1, <2>2, <3>1, <3>2
  <2>3. CASE ~(status[o] = "REQUIRES_PAYMENT" /\ method[o] = "Paid via ACH")
    BY <1>6, <1>8, <2>3 DEF ClaimAchOrder
  <2> QED
    BY <2>2, <2>3
<1>9. CASE ClaimInvoiceOrder(s)
  <2>1. req[s].op = "invoice" /\ Kind[o] = "invoice"
    BY <1>3, <1>9 DEF ClaimInvoiceOrder, KindsOf
  <2>2. CASE status[o] = "PENDING" /\ method[o] = "Needs Invoiced"
    <3>1. /\ Goto(s, "commit") \/ (Return(s) /\ o \in abandoned')
          /\ status' = [status EXCEPT ![o] = "REQUIRES_PAYMENT"]
      BY <1>9, <2>2 DEF ClaimInvoiceOrder, LoseAnswer, AfterError
    <3>2. ~Claimed(o)
      BY <2>1, <2>2 DEF Claimed
    <3> QED
      BY <1>7, <2>1, <2>2, <3>1, <3>2
  <2>3. CASE ~(status[o] = "PENDING" /\ method[o] = "Needs Invoiced")
    BY <1>6, <1>9, <2>3 DEF ClaimInvoiceOrder
  <2> QED
    BY <2>2, <2>3
<1> QED
  BY <1>8, <1>9

\* What a handler has seen to when it is through with order o: o is claimed by
\* nobody, no paid order is reopened, and o was its own to write unless o is PAID.
SettlesOnly(s, o) ==
    /\ \A q \in Orders \ {o} : status'[q] = status[q] /\ audit'[q] = audit[q]
    /\ status[o] = "PAID" => status'[o] = "PAID"
    /\ ~(Kind[o] = "ach" /\ status'[o] = "PENDING")
    /\ ~(Kind[o] = "invoice" /\ status'[o] = "REQUIRES_PAYMENT")
    /\ HoldsClaim(s, o) \/ (status'[o] = "PAID" /\ audit'[o] = audit[o])

\* A step that completes or gives back the order of a handler.
LEMMA SettleStep ==
    ASSUME IInv, TypeOK', NEW s \in Slots, NEW o \in Orders, Proceed(s),
           req[s].pc \in {"commit", "release", "finish"}, req[s].order = o,
           SettlesOnly(s, o),
           UNCHANGED intent,
           abandoned \subseteq abandoned',
           PaidFor(enrollment)',
           SlotInv(s)',
           \A q \in Orders : OrderInv(q)',
           \A q \in Orders : HoldsClaim(s, q)' => HoldsClaim(s, q),
           req'[s].op # "checkout"
    PROVE  IInv'
<1>1. TypeOK /\ SlotShape
  BY DEF IInv
<1>2. \A t \in Slots : req[t].pc \in {"intent", "create"} => req[t].order \in Orders \ {o}
  <2>1. \A t \in Slots : req[t].pc \in {"intent", "create"} => req[t].order # o
    BY TargetExists
  <2> QED
    BY <1>1, <2>1 DEF SlotShape, Shape
<1>3. /\ \A q \in Orders \ {o} : Claimed(q)' = Claimed(q) /\ audit'[q] = audit[q]
      /\ \A q \in Orders \ {o} : status'[q] = status[q]
      /\ \A q \in Orders : status[q] = "PAID" => status'[q] = "PAID"
  BY DEF SettlesOnly, Claimed
<1>4. ~Claimed(o)'
  BY DEF SettlesOnly, Claimed
<1>6. \A t \in Slots \ {s} : Respects(t)
  <2> TAKE t \in Slots \ {s}
  <2>1. HoldsClaim(t, o) => status'[o] = "PAID" /\ audit'[o] = audit[o]
    <3>1. HoldsClaim(t, o) => ~HoldsClaim(s, o)
      BY DEF IInv, ClaimIsExclusive
    <3> QED
      BY <3>1 DEF SettlesOnly
  <2>2. ASSUME NEW q \in Orders, HoldsClaim(t, q)
        PROVE  /\ Claimed(q) => Claimed(q)' \/ status'[q] = "PAID"
               /\ audit'[q] = audit[q]
    <3>1. CASE q = o
      BY <2>1, <2>2, <3>1
    <3>2. CASE q # o
      BY <1>3, <3>2
    <3> QED
      BY <3>1, <3>2
  <2> QED
    BY <1>2, <1>3, <2>2 DEF Respects
<1>7. OrphansAreAbandoned'
  <2> SUFFICES ASSUME NEW q \in Orders, Claimed(q)', q \notin abandoned'
               PROVE  \E t \in Slots : HoldsClaim(t, q)'
    BY DEF OrphansAreAbandoned
  <2>1. q # o /\ Claimed(q) /\ q \notin abandoned
    BY <1>3, <1>4
  <2>2. PICK t \in Slots : HoldsClaim(t, q)
    BY <2>1 DEF IInv, OrphansAreAbandoned
  <2>3. t # s
    BY <2>1, <2>2 DEF HoldsClaim
  <2>4. req'[t] = req[t]
    BY <1>1, <2>3, OthersWait
  <2> QED
    BY <2>2, <2>4 DEF HoldsClaim
<1>8. \A q \in Orders : \A t \in Slots \ {s} : HoldsClaim(s, q)' => ~HoldsClaim(t, q)
  BY DEF IInv, ClaimIsExclusive
<1> QED
  BY <1>6, <1>7, <1>8, Frame

\* A release or a record returns the slot of the administrator who held the claim.
LEMMA ReleaseAndRecordKeep ==
    ASSUME IInv, TypeOK', NEW s \in Slots, ReleaseClaim(s) \/ RecordConfirmation(s)
    PROVE  IInv'
<1> PICK o \in Orders : req[s].order = o /\ Kind[o] \in KindsOf(req[s].op)
  BY DEF IInv, SlotShape, Shape, ReleaseClaim, RecordConfirmation
<1>1. /\ TypeOK
      /\ SlotShape
      /\ SlotInv(s)
      /\ OrderInv(o)
      /\ \A q \in Orders : OrderInv(q)
      /\ PaidFor(enrollment)
  BY DEF IInv, AccessIsPaidFor
<1>2. /\ req[s].pc \in {"release", "finish"}
      /\ UNCHANGED <<method, enrollment, webhookEvent, outside, faults>>
      /\ Return(s)
      /\ Proceed(s)
  BY DEF ReleaseClaim, RecordConfirmation, Proceed
<1>3. req[s].op \in {"ach", "invoice"}
  BY <1>1, OpAt DEF ReleaseClaim, RecordConfirmation
<1>4. Kind[o] = req[s].op
  BY <1>3 DEF KindsOf
<1>5. HoldsClaim(s, o)
  BY <1>2, <1>3 DEF HoldsClaim
<1>6. (Claimed(o) \/ status[o] = "PAID") /\ audit[o] = 0
  BY <1>1, <1>5 DEF SlotInv
<1>7. SlotInv(s)' /\ \A q \in Orders : ~HoldsClaim(s, q)'
  BY <1>1, <1>2, ReturnInv
<1>8. req'[s].op # "checkout"
  BY <1>1, <1>2, ReturnFacts DEF TypeOK, Idle
<1>9. \/ /\ status' = status
         /\ status[o] = "PAID"
         /\ \A q \in Orders : audit'[q] = IF q = o /\ RecordConfirmation(s) THEN 1 ELSE audit[q]
      \/ /\ \A q \in Orders \ {o} : status'[q] = status[q]
         /\ status[o] # "PAID"
         /\ status[o] # "absent"
         /\ status'[o] = IF Kind[o] = "ach" THEN "REQUIRES_PAYMENT" ELSE "PENDING"
         /\ UNCHANGED audit
  <2>1. CASE RecordConfirmation(s)
    <3>1. status[o] = "PAID"
      BY <1>1, <1>3, <2>1 DEF SlotInv, RecordConfirmation
    <3> QED
      BY <1>1, <1>6, <2>1, <3>1 DEF RecordConfirmation, TypeOK
  <2>2. CASE ReleaseClaim(s) /\ Claimed(o)
    <3>1. status[o] = IF req[s].op = "ach" THEN "PENDING" ELSE "REQUIRES_PAYMENT"
      BY <1>3, <1>4, <2>2 DEF Claimed
    <3>2. status' = [status EXCEPT ![o] =
                       IF req[s].op = "ach" THEN "REQUIRES_PAYMENT" ELSE "PENDING"]
      BY <2>2, <3>1 DEF ReleaseClaim
    <3>3. UNCHANGED audit
      BY <2>2 DEF ReleaseClaim
    <3> QED
      BY <1>1, <1>4, <3>1, <3>2, <3>3 DEF TypeOK
  <2>3. CASE ReleaseClaim(s) /\ ~Claimed(o)
    <3>1. req[s].pc = "release" /\ status[o] = "PAID" /\ UNCHANGED audit
      BY <1>6, <2>3 DEF ReleaseClaim
    <3>2. status' = status
      BY <2>3, <3>1 DEF ReleaseClaim
    <3>3. ~RecordConfirmation(s)
      BY <3>1 DEF RecordConfirmation
    <3> QED
      BY <3>1, <3>2, <3>3
  <2> QED
    BY <2>1, <2>2, <2>3
<1>10. \A q \in Orders : OrderInv(q)'
  <2> TAKE q \in Orders
  <2>1. OrderInv(q) /\ UNCHANGED <<method, intent, event, webhookEvent>>
    BY <1>1, <1>2 DEF outside
  <2>2. CASE q # o
    <3>1. status'[q] = status[q] /\ audit'[q] = audit[q]
      BY <1>9, <2>2
    <3> QED
      BY <2>1, <3>1 DEF OrderInv, MethodOf
  <2>3. CASE q = o /\ status' = status /\ status[o] = "PAID" /\ audit'[o] \in {0, 1}
    <3>1. MethodOf(q)' = MethodOf(q)
      BY <2>3 DEF MethodOf
    <3>2. audit'[q] <= 1 /\ status'[q] = "PAID"
      BY <2>3
    <3> QED
      BY <2>1, <2>3, <3>1, <3>2 DEF OrderInv
  <2>4. CASE /\ q = o
             /\ status[o] \notin {"PAID", "absent"}
             /\ status'[o] = IF Kind[o] = "ach" THEN "REQUIRES_PAYMENT" ELSE "PENDING"
             /\ UNCHANGED audit
    <3>1. MethodOf(q)' = MethodOf(q)
      BY <2>4 DEF MethodOf
    <3>2. webhookEvent[q] # "processed" /\ Kind[q] \notin {"card", "bare"}
      BY <1>3, <1>4, <2>1, <2>4 DEF OrderInv
    <3> QED
      BY <1>6, <2>1, <2>4, <3>1, <3>2 DEF OrderInv
  <2> QED
    BY <1>6, <1>9, <2>2, <2>3, <2>4
<1>11. SettlesOnly(s, o)
  <2>1. \A q \in Orders \ {o} : status'[q] = status[q] /\ audit'[q] = audit[q]
    BY <1>9
  <2>2. status[o] = "PAID" => status'[o] = "PAID"
    BY <1>9
  <2>3. /\ ~(Kind[o] = "ach" /\ status'[o] = "PENDING")
        /\ ~(Kind[o] = "invoice" /\ status'[o] = "REQUIRES_PAYMENT")
    BY <1>9
  <2> QED
    BY <1>5, <2>1, <2>2, <2>3 DEF SettlesOnly
<1>12. PaidFor(enrollment)'
  <2>1. \A q \in Orders : status[q] = "PAID" => status'[q] = "PAID"
    BY <1>9
  <2> QED
    BY <1>1, <1>2, <2>1, PaidForStays DEF PaidFor
<1> QED
  BY <1>2, <1>7, <1>8, <1>10, <1>11, <1>12, SettleStep DEF outside, faults

\* What a commit writes: one order, which is PAID from now on.
LEMMA CommitFacts ==
    ASSUME IInv, NEW s \in Slots, CommitFulfillment(s) \/ CommitBareOrder(s),
           NEW o \in Orders, req[s].order = o
    PROVE  /\ \A q \in Orders \ {o} : status'[q] = status[q] /\ method'[q] = method[q]
           /\ status'[o] = "PAID"
           /\ method'[o] = MethodOf(o)'
           /\ PaidFor(enrollment)'
<1>1. TypeOK /\ SlotInv(s) /\ OrderInv(o) /\ PaidFor(enrollment)
  BY DEF IInv, AccessIsPaidFor
<1>2. req[s].pc = "commit" /\ status[o] # "absent"
  BY TargetExists DEF CommitFulfillment, CommitBareOrder
<1>3. /\ \A q \in Orders \ {o} : status'[q] = status[q]
      /\ status'[o] = "PAID"
  BY <1>1 DEF CommitFulfillment, CommitBareOrder, TypeOK
<1>4. \A q \in Orders : status[q] = "PAID" => status'[q] = "PAID"
  BY <1>3
<1>5. CASE CommitFulfillment(s)
  <2>1. req[s].method = SeenMethod(o)
    BY <1>1, <1>2 DEF SlotInv
  <2>2. /\ \A q \in Orders \ {o} : method'[q] = method[q]
        /\ method'[o] = paidMethod(SeenMethod(o))
    BY <1>1, <1>5, <2>1 DEF CommitFulfillment, TypeOK
  <2>3. Kind[o] # "bare" /\ enrollment' = Fulfilled(req[s].seen, Items[o])
    BY <1>5 DEF CommitFulfillment
  <2>4. method'[o] = MethodOf(o)'
    BY <1>3, <2>2 DEF SeenMethod, paidMethod, MethodOf
  <2>5. PaidFor(enrollment)'
    <3> SUFFICES ASSUME NEW k \in enrollment'.access \ InitialEnrollment.access
                 PROVE  \E q \in Orders : /\ Kind[q] # "bare"
                                          /\ status'[q] = "PAID"
                                          /\ \E p \in Items[q] : k \in GrantedKeys(p)
      BY DEF PaidFor
    <3>1. k \in req[s].seen.access \/ \E p \in Items[o] : k \in GrantedKeys(p)
      BY <2>3 DEF Fulfilled
    <3>2. CASE k \in req[s].seen.access
      <4>1. PaidFor(req[s].seen)
        BY <1>1 DEF SlotInv
      <4> QED
        BY <1>4, <3>2, <4>1 DEF PaidFor
    <3>3. CASE \E p \in Items[o] : k \in GrantedKeys(p)
      BY <1>3, <2>3, <3>3
    <3> QED
      BY <3>1, <3>2, <3>3
  <2> QED
    BY <1>3, <2>2, <2>4, <2>5
<1>6. CASE CommitBareOrder(s)
  <2>1. Kind[o] = "bare" /\ UNCHANGED <<method, enrollment>>
    BY <1>6 DEF CommitBareOrder
  <2>2. method'[o] = MethodOf(o)'
    BY <1>1, <1>2, <1>3, <2>1 DEF OrderInv, MethodOf
  <2>3. PaidFor(enrollment)'
    BY <1>1, <1>4, <2>1, PaidForStays DEF PaidFor
  <2> QED
    BY <1>3, <2>1, <2>2, <2>3
<1> QED
  BY <1>5, <1>6

\* The commit of a fulfilment keeps the invariant, although the enrollment that
\* it saves may be older than the one in the row.
LEMMA CommitKeeps ==
    ASSUME IInv, TypeOK', NEW s \in Slots, CommitFulfillment(s) \/ CommitBareOrder(s)
    PROVE  IInv'
<1> PICK o \in Orders : req[s].order = o /\ Kind[o] \in KindsOf(req[s].op)
  BY DEF IInv, SlotShape, Shape, CommitFulfillment, CommitBareOrder
<1>1. /\ TypeOK
      /\ SlotShape
      /\ SlotInv(s)
      /\ \A q \in Orders : OrderInv(q)
  BY DEF IInv
<1>2. /\ req[s].pc = "commit"
      /\ UNCHANGED <<webhookEvent, audit, outside, abandoned>>
      /\ Proceed(s)
  BY DEF CommitFulfillment, CommitBareOrder, Proceed, faults
<1>3. /\ \A q \in Orders \ {o} : status'[q] = status[q] /\ method'[q] = method[q]
      /\ status'[o] = "PAID"
      /\ method'[o] = MethodOf(o)'
      /\ PaidFor(enrollment)'
  BY CommitFacts
<1>4. /\ status[o] # "absent"
      /\ req[s].op \notin StripeOps => HoldsClaim(s, o)
      /\ req[s].op \in StripeOps => intent[o] = "succeeded"
  BY <1>2, TargetExists
<1>5. req[s].op \in StripeOps \cup {"ach", "invoice"}
  BY <1>1, <1>2, OpAt DEF StripeOps
<1>6. \A q \in Orders : OrderInv(q)'
  <2> TAKE q \in Orders
  <2>1. OrderInv(q) /\ UNCHANGED <<intent, event, webhookEvent, audit>>
    BY <1>1, <1>2 DEF outside
  <2>2. CASE q # o
    BY <1>3, <2>1, <2>2 DEF OrderInv, MethodOf
  <2>3. CASE q = o
    <3>1. Kind[q] \in {"card", "bare"} => intent[q] = "succeeded"
      BY <1>4, <1>5, <2>3 DEF KindsOf
    <3>2. status'[q] = "PAID" /\ method'[q] = MethodOf(q)'
      BY <1>3, <2>3
    <3> QED
      BY <2>1, <3>1, <3>2 DEF OrderInv
  <2> QED
    BY <2>2, <2>3
<1>7. req'[s] = Idle \/ /\ req'[s].op = req[s].op
                        /\ req'[s].order = o
                        /\ req'[s].seen = req[s].seen
                        /\ req'[s].method = req[s].method
                        /\ req'[s].pc \in {"zoho", "finish", "next", "release"}
                        /\ req'[s].pc = "release" => req[s].op \in {"ach", "invoice"}
  <2>1. \/ Return(s)
        \/ \E pc \in {"zoho", "finish", "next"} : Goto(s, pc)
        \/ AfterError(s)
    BY <1>5 DEF CommitFulfillment, CommitBareOrder, AfterFulfillment, StripeOps, LoseAnswer
  <2>2. CASE Return(s)
    BY <1>1, <2>2, ReturnFacts DEF TypeOK
  <2>3. ASSUME NEW pc \in {"zoho", "finish", "next"}, Goto(s, pc)
        PROVE  /\ req'[s].op = req[s].op
               /\ req'[s].order = o
               /\ req'[s].seen = req[s].seen
               /\ req'[s].method = req[s].method
               /\ req'[s].pc = pc
    <3>1. pc \in PCs
      BY DEF PCs
    <3> QED
      BY <1>1, <2>3, <3>1, GotoFacts DEF TypeOK
  <2>4. CASE AfterError(s)
    BY <1>1, <2>4, ErrorFacts DEF TypeOK
  <2> QED
    BY <2>1, <2>2, <2>3, <2>4
<1>8. \A q \in Orders : HoldsClaim(s, q)' => q = o /\ HoldsClaim(s, q)
  BY <1>2, <1>7 DEF HoldsClaim, Idle
<1>9. SlotInv(s)'
  <2>1. PaidFor(req[s].seen) /\ PaidFor(Idle.seen)
    BY <1>1 DEF SlotInv, PaidFor, Idle
  <2>2. PaidFor(req[s].seen)'
    <3>1. PaidFor(req'[s].seen)
      BY <1>7, <2>1
    <3>2. \A q \in Orders : status[q] = "PAID" => status'[q] = "PAID"
      BY <1>3
    <3> QED
      BY <3>1, <3>2, PaidForStays DEF PaidFor
  <2>3. \A q \in Orders : HoldsClaim(s, q)' =>
           (Claimed(q)' \/ status'[q] = "PAID") /\ audit'[q] = 0
    BY <1>1, <1>2, <1>3, <1>8 DEF SlotInv
  <2>4. CASE req'[s] = Idle
    BY <2>2, <2>3, <2>4 DEF SlotInv, Idle
  <2>5. CASE req'[s] # Idle
    <3>1. req[s].op = "invoice" => req[s].method = "Needs Invoiced"
      BY <1>1 DEF SlotInv
    <3>2. req[s].op \in StripeOps => intent'[o] = "succeeded"
      BY <1>2, <1>4 DEF outside
    <3> QED
      BY <1>3, <1>7, <2>2, <2>3, <2>5, <3>1, <3>2 DEF SlotInv
  <2> QED
    BY <2>4, <2>5
<1>10. SettlesOnly(s, o)
  BY <1>2, <1>3 DEF SettlesOnly
<1>11. req'[s].op # "checkout"
  BY <1>5, <1>7 DEF Idle, StripeOps
<1> QED
  BY <1>2, <1>3, <1>6, <1>8, <1>9, <1>10, <1>11, SettleStep DEF outside, faults

-----------------------------------------------------------------------------
(* Steps of nobody's handler *)

\* Stripe's steps, and steps that change nothing, leave every handler as it is.
LEMMA OutsideKeeps ==
    ASSUME IInv, TypeOK', UNCHANGED <<status, method, enrollment, audit, req, abandoned>>,
           \A o \in Orders : intent[o] = "succeeded" => intent'[o] = "succeeded",
           \A o \in Orders : OrderInv(o)'
    PROVE  IInv'
<1>1. TypeOK /\ SlotShape
  BY DEF IInv
<1>2. SlotShape'
  BY <1>1 DEF SlotShape, Shape
<1>3. ASSUME NEW t \in Slots PROVE SlotInv(t)'
  <2>1. SlotInv(t) /\ req'[t] = req[t]
    BY DEF IInv
  <2>3. Respects(t)
    BY DEF Respects, Claimed
  <2> QED
    BY <1>1, <2>1, <2>3, OtherSlots
<1>4. CheckoutIsExclusive'
  BY DEF IInv, CheckoutIsExclusive
<1>5. ClaimIsExclusive'
  BY DEF IInv, ClaimIsExclusive, HoldsClaim
<1>6. OrphansAreAbandoned'
  BY DEF IInv, OrphansAreAbandoned, HoldsClaim, Claimed
<1>7. AccessIsPaidFor'
  BY DEF IInv, AccessIsPaidFor, PaidFor
<1> QED
  BY <1>2, <1>3, <1>4, <1>5, <1>6, <1>7 DEF IInv

\* A payment at Stripe keeps the invariant.
LEMMA PayKeeps ==
    ASSUME IInv, TypeOK', NEW o \in Orders, Pay(o)
    PROVE  IInv'
<1>1. TypeOK /\ \A q \in Orders : OrderInv(q)
  BY DEF IInv
<1>2. \A q \in Orders : /\ intent'[q] = IF q = o THEN "succeeded" ELSE intent[q]
                        /\ event'[q] = IF q = o THEN "pending" ELSE event[q]
  BY <1>1 DEF Pay, TypeOK
<1>3. \A q \in Orders : OrderInv(q)'
  <2> TAKE q \in Orders
  <2>1. OrderInv(q) /\ UNCHANGED <<status, method, webhookEvent, audit>>
    BY <1>1 DEF Pay, rows
  <2>2. intent[o] = "handed"
    BY DEF Pay
  <2> QED
    BY <1>2, <2>1, <2>2 DEF OrderInv, MethodOf
<1> QED
  BY <1>2, <1>3, OutsideKeeps DEF Pay, rows, faults

\* Answering a webhook event that is already processed keeps the invariant.
LEMMA DeliverProcessedEventKeeps ==
    ASSUME IInv, TypeOK', NEW o \in Orders, DeliverProcessedEvent(o)
    PROVE  IInv'
<1>1. TypeOK /\ \A q \in Orders : OrderInv(q)
  BY DEF IInv
<1>2. event[o] = "pending" /\ \A q \in Orders : event'[q] = IF q = o THEN "acked" ELSE event[q]
  BY <1>1 DEF DeliverProcessedEvent, TypeOK
<1>3. \A q \in Orders : OrderInv(q)'
  <2> TAKE q \in Orders
  <2>1. OrderInv(q) /\ UNCHANGED <<status, method, intent, webhookEvent, audit>>
    BY <1>1 DEF DeliverProcessedEvent, rows
  <2> QED
    BY <1>2, <2>1 DEF OrderInv, MethodOf
<1> QED
  BY <1>3, OutsideKeeps DEF DeliverProcessedEvent, rows, faults

-----------------------------------------------------------------------------
(* The invariant *)

\* The invariant holds in the initial states.
LEMMA InitInv == Init => IInv
<1> SUFFICES ASSUME Init PROVE IInv
  OBVIOUS
<1>1. TypeOK
  BY InitType
<1>2. \A s \in Slots : req[s] = Idle
  BY DEF Init
<1>3. SlotShape
  BY <1>2 DEF SlotShape, Shape, Idle, PCsOf
<1>4. \A s \in Slots : \A o \in Orders : ~HoldsClaim(s, o)
  BY <1>2 DEF HoldsClaim, Idle
<1>5. \A s \in Slots : SlotInv(s)
  <2> TAKE s \in Slots
  <2>1. /\ req[s].op = "none"
        /\ req[s].pc = "idle"
        /\ PaidFor(req[s].seen)
    BY <1>2 DEF Idle, PaidFor
  <2> QED
    BY <1>4, <2>1 DEF SlotInv
<1>6. ASSUME NEW o \in Orders PROVE OrderInv(o) /\ ~Claimed(o)
  <2>1. /\ status[o] = IF Kind[o] = "ach" THEN "REQUIRES_PAYMENT" ELSE "absent"
        /\ method[o] = IF Kind[o] = "ach" THEN "Paid via ACH" ELSE "none"
        /\ intent[o] = IF Kind[o] = "ach" THEN "handed" ELSE "none"
        /\ event[o] = "none"
        /\ webhookEvent[o] = "absent"
        /\ audit[o] = 0
    BY DEF Init, InitialStatus, InitialMethod
  <2>2. method[o] = MethodOf(o)
    BY <2>1 DEF MethodOf
  <2>3. CASE Kind[o] = "ach"
    <3>1. /\ status[o] = "REQUIRES_PAYMENT"
          /\ intent[o] = "handed"
      BY <2>1, <2>3
    <3>2. /\ event[o] = "none"
          /\ webhookEvent[o] # "processed"
      BY <2>1
    <3>3. audit[o] <= 1 /\ audit[o] # 1
      <4>1. audit[o] = 0
        BY <2>1
      <4> QED
        BY <4>1
    <3> QED
      BY <2>2, <2>3, <3>1, <3>2, <3>3 DEF OrderInv, Claimed
  <2>4. CASE Kind[o] # "ach"
    BY <2>1, <2>2, <2>4 DEF OrderInv, Claimed
  <2> QED
    BY <2>3, <2>4
<1>7. CheckoutIsExclusive
  BY <1>2 DEF CheckoutIsExclusive, Idle
<1>8. ClaimIsExclusive
  BY <1>4 DEF ClaimIsExclusive
<1>9. OrphansAreAbandoned
  BY <1>6 DEF OrphansAreAbandoned
<1>10. AccessIsPaidFor
  BY DEF Init, AccessIsPaidFor, PaidFor
<1> QED
  BY <1>1, <1>3, <1>5, <1>6, <1>7, <1>8, <1>9, <1>10 DEF IInv

\* Every step of the program keeps the invariant.
LEMMA InvStep == IInv /\ [Next]_vars => IInv'
<1> SUFFICES ASSUME IInv, [Next]_vars PROVE IInv'
  OBVIOUS
<1>1. TypeOK'
  BY TypeStep DEF IInv
<1>2. ASSUME NEW s \in Slots, StartRequest(s) PROVE IInv'
  BY <1>1, <1>2, StartRequestKeeps
<1>3. ASSUME NEW s \in Slots, Proceed(s) PROVE IInv'
  <2>1. CASE \/ CreateIntent(s) \/ ApplyEnrollmentKeys(s) \/ RetrieveIntent(s)
             \/ FinishReconcile(s) \/ UpdateZoho(s) \/ MarkProcessed(s)
    BY <1>1, <2>1, QuietKeeps
  <2>2. CASE CreateStripeOrder(s) \/ CreateInvoiceOrder(s)
    BY <1>1, <2>2, CreateOrderKeeps
  <2>3. CASE ClaimAchOrder(s) \/ ClaimInvoiceOrder(s)
    BY <1>1, <2>3, ClaimKeeps
  <2>4. CASE ReleaseClaim(s) \/ RecordConfirmation(s)
    BY <1>1, <2>4, ReleaseAndRecordKeep
  <2>5. CASE \E o \in Orders : ReconcileOrder(s, o)
    BY <1>1, <2>5, ReconcileOrderKeeps
  <2>6. CASE ReadPaidOrder(s)
    BY <1>1, <2>6, ReadPaidOrderKeeps
  <2>7. CASE CommitFulfillment(s) \/ CommitBareOrder(s)
    BY <1>1, <2>7, CommitKeeps
  <2> QED
    BY <1>3, <2>1, <2>2, <2>3, <2>4, <2>5, <2>6, <2>7 DEF Proceed
<1>4. ASSUME NEW s \in Slots, Fail(s) \/ Crash(s) PROVE IInv'
  BY <1>1, <1>4, QuietKeeps
<1>5. ASSUME NEW o \in Orders, Pay(o) PROVE IInv'
  BY <1>1, <1>5, PayKeeps
<1>6. ASSUME NEW o \in Orders, DeliverProcessedEvent(o) PROVE IInv'
  BY <1>1, <1>6, DeliverProcessedEventKeeps
<1>7. CASE UNCHANGED vars
  <2>1. UNCHANGED <<status, method, enrollment, intent, event, webhookEvent, audit,
                    req, abandoned>>
    BY <1>7 DEF vars
  <2>2. \A o \in Orders : OrderInv(o)'
    BY <2>1, SameOrders DEF IInv
  <2> QED
    BY <1>1, <2>1, <2>2, OutsideKeeps
<1> QED
  BY <1>2, <1>3, <1>4, <1>5, <1>6, <1>7 DEF Next

\* Every state of the payment service satisfies the inductive invariant, for
\* every set of orders, requests, faults and prior entitlements.
THEOREM Invariant == Spec => []IInv
  BY InitInv, InvStep, PTL DEF Spec

\* The rows, the requests and what Stripe and Zoho hold keep their types.
THEOREM TypeCorrect == Spec => []TypeOK
<1>1. IInv => TypeOK
  BY DEF IInv
<1> QED
  BY <1>1, Invariant, PTL

\* At most one administrator's confirmation is ever past the claim of an order
\* (validateAchOrder, confirmInvoiceOrder).
THEOREM ClaimExclusive == Spec => []ClaimIsExclusive
<1>1. IInv => ClaimIsExclusive
  BY DEF IInv
<1> QED
  BY <1>1, Invariant, PTL

\* No error of a fulfilment, its release included, strands a claim: that takes a lost
\* answer of the claim, a failing release or a dead process.
THEOREM NoOrphanedClaim == Spec => []OrphansAreAbandoned
<1>1. IInv => OrphansAreAbandoned
  BY DEF IInv
<1> QED
  BY <1>1, Invariant, PTL

\* No order's manual confirmation is recorded twice, or recorded unpaid.
THEOREM SingleAuditRecord == Spec => []AuditedOnce
<1>1. IInv => AuditedOnce
  BY DEF IInv, OrderInv, AuditedOnce
<1> QED
  BY <1>1, Invariant, PTL

\* An order paid through Stripe alone is PAID only when Stripe has the money.
THEOREM CardFunded == Spec => []CardPaidOnlyIfFunded
<1>1. IInv => CardPaidOnlyIfFunded
  BY DEF IInv, OrderInv, CardPaidOnlyIfFunded
<1> QED
  BY <1>1, Invariant, PTL

\* A webhook event is closed only after its order is PAID.
THEOREM ProcessedPaid == Spec => []ProcessedImpliesPaid
<1>1. IInv => ProcessedImpliesPaid
  BY DEF IInv, OrderInv, ProcessedImpliesPaid
<1> QED
  BY <1>1, Invariant, PTL

\* Stale reads, retries and rollbacks never give access that nobody paid for.
THEOREM AccessPaidFor == Spec => []AccessIsPaidFor
<1>1. IInv => AccessIsPaidFor
  BY DEF IInv
<1> QED
  BY <1>1, Invariant, PTL

-----------------------------------------------------------------------------
(* The ledger *)

\* Steps that open, fund and settle no order leave the ledger as it is.
LEMMA LedgerFrame ==
    ASSUME NEW o \in Orders,
           \A q \in Orders \ {o} : status'[q] = status[q],
           status[o] # "absent" <=> status'[o] # "absent",
           status[o] = "PAID" <=> status'[o] = "PAID",
           \A q \in Orders : intent[q] = "succeeded" <=> intent'[q] = "succeeded"
    PROVE  UNCHANGED Ledger!vars
<1>1. \A q \in Orders : /\ status[q] # "absent" <=> status'[q] # "absent"
                        /\ status[q] = "PAID" <=> status'[q] = "PAID"
  OBVIOUS
<1> QED
  BY <1>1 DEF Ledger!vars

\* A step that writes no status and moves no money leaves it too.
LEMMA LedgerSame ==
    ASSUME UNCHANGED status,
           \A q \in Orders : intent[q] = "succeeded" <=> intent'[q] = "succeeded"
    PROVE  UNCHANGED Ledger!vars
  BY DEF Ledger!vars

\* Every step of the program is a step of the ledger, or leaves the ledger alone.
LEMMA LedgerStep ==
    ASSUME IInv, [Next]_vars
    PROVE  [Ledger!Next]_(Ledger!vars)
<1>1. /\ TypeOK
      /\ SlotShape
      /\ \A t \in Slots : SlotInv(t)
      /\ \A q \in Orders : OrderInv(q)
  BY DEF IInv
<1> USE DEF rows, outside, faults
<1>2. ASSUME NEW s \in Slots, StartRequest(s) PROVE UNCHANGED Ledger!vars
  BY <1>2, LedgerSame DEF StartRequest, StartCheckout, DeliverEvent, StartConfirm,
     StartValidateAch, StartConfirmInvoice, StartReconcile
<1>3. ASSUME NEW s \in Slots, CreateIntent(s) PROVE UNCHANGED Ledger!vars
  <2>1. req[s].order \in Orders /\ intent[req[s].order] # "succeeded"
    BY <1>1, <1>3 DEF CreateIntent, SlotShape, Shape, SlotInv, OrderInv
  <2>2. \A q \in Orders :
          intent'[q] = IF q = req[s].order THEN "created" ELSE intent[q]
    BY <1>1, <1>3 DEF CreateIntent, TypeOK
  <2>3. UNCHANGED status
    BY <1>3 DEF CreateIntent
  <2> QED
    BY <2>1, <2>2, <2>3, LedgerSame
<1>4. ASSUME NEW s \in Slots, CreateStripeOrder(s) \/ CreateInvoiceOrder(s)
      PROVE  Ledger!Next
  <2> PICK o \in Orders : req[s].order = o
    BY <1>1, <1>4 DEF CreateStripeOrder, CreateInvoiceOrder, SlotShape, Shape
  <2>1. status[o] = "absent" /\ intent[o] \notin {"handed", "succeeded"}
    BY <1>1, <1>4 DEF CreateStripeOrder, CreateInvoiceOrder, SlotInv, OrderInv
  <2>2. /\ \A q \in Orders \ {o} : status'[q] = status[q]
        /\ status'[o] \in {"PENDING", "REQUIRES_PAYMENT"}
    BY <1>1, <1>4 DEF CreateStripeOrder, CreateInvoiceOrder, TypeOK
  <2>3. \A q \in Orders : intent[q] = "succeeded" <=> intent'[q] = "succeeded"
    BY <1>1, <1>4, <2>1 DEF CreateStripeOrder, CreateInvoiceOrder, TypeOK
  <2>4. {q \in Orders : status'[q] # "absent"} = {q \in Orders : status[q] # "absent"} \cup {o}
    BY <2>2
  <2>5. {q \in Orders : status'[q] = "PAID"} = {q \in Orders : status[q] = "PAID"}
    BY <2>1, <2>2
  <2>6. {q \in Orders : intent'[q] = "succeeded"} = {q \in Orders : intent[q] = "succeeded"}
    BY <2>3
  <2>7. Ledger!Open(o)
    BY <2>1, <2>4, <2>5, <2>6 DEF Ledger!Open
  <2> QED
    BY <2>7 DEF Ledger!Next
<1>5. ASSUME NEW s \in Slots, CommitFulfillment(s) \/ CommitBareOrder(s)
      PROVE  [Ledger!Next]_(Ledger!vars)
  <2> PICK o \in Orders : req[s].order = o /\ Kind[o] \in KindsOf(req[s].op)
    BY <1>1, <1>5 DEF CommitFulfillment, CommitBareOrder, SlotShape, Shape
  <2>1. req[s].pc = "commit" /\ UNCHANGED intent
    BY <1>5 DEF CommitFulfillment, CommitBareOrder
  <2>2. status[o] # "absent" /\ (req[s].op \in StripeOps => intent[o] = "succeeded")
    BY <2>1, TargetExists
  <2>3. req[s].op \in StripeOps \cup {"ach", "invoice"}
    BY <1>1, <2>1, OpAt DEF StripeOps
  <2>4. (\A q \in Orders \ {o} : status'[q] = status[q]) /\ status'[o] = "PAID"
    BY <1>5, CommitFacts
  <2>5. CASE status[o] = "PAID"
    BY <2>1, <2>2, <2>4, <2>5, LedgerFrame
  <2>6. CASE status[o] # "PAID"
    <3>1. {q \in Orders : status'[q] # "absent"} = {q \in Orders : status[q] # "absent"}
      BY <2>2, <2>4
    <3>2. {q \in Orders : status'[q] = "PAID"} = {q \in Orders : status[q] = "PAID"} \cup {o}
      BY <2>4
    <3>3. {q \in Orders : intent'[q] = "succeeded"} = {q \in Orders : intent[q] = "succeeded"}
      BY <2>1
    <3>4. Kind[o] \in {"card", "bare"} => intent[o] = "succeeded"
      BY <2>2, <2>3 DEF KindsOf
    <3>5. Ledger!Settle(o)
      BY <2>2, <2>6, <3>1, <3>2, <3>3, <3>4 DEF Ledger!Settle
    <3> QED
      BY <3>5 DEF Ledger!Next
  <2> QED
    BY <2>5, <2>6
<1>6. ASSUME NEW s \in Slots, ClaimAchOrder(s) \/ ClaimInvoiceOrder(s) \/ ReleaseClaim(s)
      PROVE  UNCHANGED Ledger!vars
  <2> PICK o \in Orders : req[s].order = o
    BY <1>1, <1>6 DEF ClaimAchOrder, ClaimInvoiceOrder, ReleaseClaim, SlotShape, Shape
  <2>1. UNCHANGED intent
    BY <1>6 DEF ClaimAchOrder, ClaimInvoiceOrder, ReleaseClaim
  <2>2. \/ UNCHANGED status
        \/ /\ \A q \in Orders \ {o} : status'[q] = status[q]
           /\ {status[o], status'[o]} \subseteq {"PENDING", "REQUIRES_PAYMENT"}
    BY <1>1, <1>6 DEF ClaimAchOrder, ClaimInvoiceOrder, ReleaseClaim, TypeOK
  <2> QED
    BY <2>1, <2>2, LedgerFrame, LedgerSame
<1>7. ASSUME NEW s \in Slots, \/ ApplyEnrollmentKeys(s) \/ RetrieveIntent(s)
                              \/ \E o \in Orders : ReconcileOrder(s, o)
                              \/ FinishReconcile(s) \/ ReadPaidOrder(s) \/ UpdateZoho(s)
                              \/ MarkProcessed(s) \/ RecordConfirmation(s)
                              \/ Fail(s) \/ Crash(s)
      PROVE  UNCHANGED Ledger!vars
  <2>1. UNCHANGED <<status, intent>>
    BY <1>7 DEF ApplyEnrollmentKeys, RetrieveIntent, ReconcileOrder, FinishReconcile,
       ReadPaidOrder, UpdateZoho, MarkProcessed, RecordConfirmation, Fail, Crash
  <2> QED
    BY <2>1, LedgerSame
<1>8. ASSUME NEW o \in Orders, Pay(o) PROVE Ledger!Next
  <2>1. intent[o] = "handed" /\ UNCHANGED status
    BY <1>8 DEF Pay
  <2>2. \A q \in Orders : intent'[q] = IF q = o THEN "succeeded" ELSE intent[q]
    BY <1>1, <1>8 DEF Pay, TypeOK
  <2>3. status[o] # "absent"
    BY <1>1, <2>1 DEF OrderInv
  <2>4. {q \in Orders : intent'[q] = "succeeded"} = {q \in Orders : intent[q] = "succeeded"} \cup {o}
    BY <2>2
  <2>5. Ledger!Fund(o)
    BY <2>1, <2>3, <2>4 DEF Ledger!Fund
  <2> QED
    BY <2>5 DEF Ledger!Next
<1>9. ASSUME NEW o \in Orders, DeliverProcessedEvent(o) PROVE UNCHANGED Ledger!vars
  BY <1>9, LedgerSame DEF DeliverProcessedEvent
<1>10. CASE UNCHANGED vars
  BY <1>10, LedgerSame DEF vars
<1> QED
  BY <1>2, <1>3, <1>4, <1>5, <1>6, <1>7, <1>8, <1>9, <1>10 DEF Next, Proceed

\* The payment service implements PaymentLedger: whatever is interleaved, retried
\* or killed, an order is opened once, settled once and never before its money.
THEOREM LedgerImplemented == Spec => ImplementsLedger
<1>1. Init => Ledger!Init
  <2> SUFFICES ASSUME Init PROVE Ledger!Init
    OBVIOUS
  <2>1. ASSUME NEW o \in Orders PROVE status[o] # "PAID" /\ intent[o] # "succeeded"
    BY <2>1 DEF Init, InitialStatus
  <2> QED
    BY <2>1 DEF Ledger!Init
<1>2. IInv /\ [Next]_vars => [Ledger!Next]_(Ledger!vars)
  BY LedgerStep
<1> QED
  BY <1>1, <1>2, Invariant, PTL DEF Spec, ImplementsLedger, Ledger!Spec

\* PAID is final, and so is how the order was paid: the ledger never unsettles an
\* order, and the label follows from the order's kind.
THEOREM PaidFinal == Spec => PaidIsFinal
<1>1. IInv /\ IInv' /\ [Next]_vars =>
        [\A o \in Orders : status[o] = "PAID" =>
           status'[o] = "PAID" /\ method'[o] = method[o]]_vars
  <2> SUFFICES ASSUME IInv, IInv', [Next]_vars, NEW o \in Orders, status[o] = "PAID"
               PROVE  status'[o] = "PAID" /\ method'[o] = method[o]
    OBVIOUS
  <2>1. [Ledger!Next]_(Ledger!vars)
    BY LedgerStep
  <2>2. status'[o] = "PAID"
    BY <2>1 DEF Ledger!vars, Ledger!Next, Ledger!Open, Ledger!Fund, Ledger!Settle
  <2>3. method[o] = MethodOf(o) /\ method'[o] = MethodOf(o)'
    BY DEF IInv, OrderInv
  <2> QED
    BY <2>2, <2>3 DEF MethodOf
<1> QED
  BY <1>1, Invariant, PTL DEF Spec, PaidIsFinal

-----------------------------------------------------------------------------
(* Grants *)

\* A fulfilment grants what the order contains, and takes no product back.
LEMMA FulfilledGrants ==
    ASSUME NEW e, NEW items \in SUBSET Products
    PROVE  /\ \A p \in items : productIsOwned(p, Fulfilled(e, items))
           /\ \A p \in Products : productIsOwned(p, e) => productIsOwned(p, Fulfilled(e, items))
<1>1. ASSUME NEW p \in items PROVE GrantedKeys(p) \subseteq Fulfilled(e, items).access
  BY <1>1 DEF Fulfilled
<1>2. ASSUME NEW p \in items PROVE productIsOwned(p, Fulfilled(e, items))
  <2>1. CASE p \in {STANDARD_PACKAGE_ID, KEY_IMPACT_ID}
    BY <2>1 DEF productIsOwned, hasStandardPackage, Fulfilled
  <2>2. CASE p = SORTED_VERBATIMS_ID
    BY <1>1, <1>2, <2>2 DEF productIsOwned, GrantedKeys, SORTED_VERBATIMS_ID, STANDARD_PACKAGE_ID
  <2>3. CASE p = RESPONSE_DETAIL_ID
    BY <1>1, <1>2, <2>3 DEF productIsOwned, GrantedKeys, RESPONSE_DETAIL_ID,
       SORTED_VERBATIMS_ID, STANDARD_PACKAGE_ID
  <2> QED
    BY <1>2, <2>1, <2>2, <2>3 DEF Products
<1>3. /\ e.access \subseteq Fulfilled(e, items).access
      /\ e.full => Fulfilled(e, items).full
      /\ e.kia # "none" => Fulfilled(e, items).kia # "none"
  BY DEF Fulfilled
<1>4. ASSUME NEW p \in Products, productIsOwned(p, e)
      PROVE  productIsOwned(p, Fulfilled(e, items))
  BY <1>3, <1>4 DEF productIsOwned, hasStandardPackage
<1> QED
  BY <1>2, <1>4

\* A step that settles no order and leaves the enrollment alone keeps the grants, if what
\* its own handler is going to write back was read just now, or known before.
LEMMA GrantFrame ==
    ASSUME GrantInv, NEW s \in Slots,
           \A t \in Slots : t # s => req'[t] = req[t],
           enrollment' = enrollment,
           \A o \in Orders : Kind[o] # "bare" /\ status'[o] = "PAID" => status[o] = "PAID",
           PutsKeysBack(s)' =>
               \/ req'[s].seen = enrollment
               \/ PutsKeysBack(s) /\ req'[s].seen = req[s].seen,
           Fulfils(s)' =>
               \/ req'[s].seen = enrollment
               \/ Fulfils(s) /\ req'[s].seen = req[s].seen /\ req'[s].order = req[s].order
    PROVE  GrantInv'
<1>1. PaidOrdersGranted'
  BY DEF GrantInv, PaidOrdersGranted
<1>2. ASSUME NEW t \in Slots, PutsKeysBack(t)' PROVE req'[t].seen = enrollment'
  <2>1. CASE t = s
    BY <1>2, <2>1 DEF GrantInv
  <2>2. CASE t # s
    BY <1>2, <2>2 DEF GrantInv, PutsKeysBack
  <2> QED
    BY <2>1, <2>2
<1>3. ASSUME NEW t \in Slots, Fulfils(t)', NEW o \in Orders \ {req'[t].order},
             status'[o] = "PAID", Kind[o] # "bare"
      PROVE  Granted(o, req'[t].seen)
  <2>1. CASE req'[t].seen = enrollment
    BY <1>3, <2>1 DEF GrantInv, PaidOrdersGranted, Granted
  <2>2. CASE Fulfils(t) /\ req'[t].seen = req[t].seen /\ req'[t].order = req[t].order
    BY <1>3, <2>2 DEF GrantInv
  <2> QED
    BY <1>3, <2>1, <2>2 DEF Fulfils
<1> QED
  BY <1>1, <1>2, <1>3 DEF GrantInv

\* Accepting a request reads the enrollment.
LEMMA StartKeepsGrants ==
    ASSUME IInv, GrantInv, NEW s \in Slots, StartRequest(s)
    PROVE  GrantInv'
<1>1. TypeOK /\ SlotShape
  BY DEF IInv
<1>2. \A t \in Slots : t # s => req'[t] = req[t]
  BY <1>1, OthersWait
<1>3. UNCHANGED <<status, enrollment>>
  <2>1. ASSUME NEW product, StartReconcile(s, product) PROVE UNCHANGED <<status, enrollment>>
    BY <2>1 DEF StartReconcile, rows
  <2>2. ASSUME NEW o, StartCheckout(s, o) \/ StartConfirm(s, o)
        PROVE  UNCHANGED <<status, enrollment>>
    BY <2>2 DEF StartCheckout, StartConfirm, rows
  <2>3. ASSUME NEW o, DeliverEvent(s, o) PROVE UNCHANGED <<status, enrollment>>
    BY <2>3 DEF DeliverEvent
  <2>4. ASSUME NEW o, StartValidateAch(s, o) \/ StartConfirmInvoice(s, o)
        PROVE  UNCHANGED <<status, enrollment>>
    BY <2>4, Zenon DEF StartValidateAch, StartConfirmInvoice, rows
  <2> QED
    BY <2>1, <2>2, <2>3, <2>4 DEF StartRequest
<1>4. ASSUME NEW product, StartReconcile(s, product)
      PROVE  ~PutsKeysBack(s)' /\ ~Fulfils(s)'
  BY <1>1, <1>4, ReconcileFacts DEF PutsKeysBack, Fulfils
<1>5. ASSUME NEW o \in Orders, NEW op \in AllOps, NEW pc \in PCs, Accept(s, op, o, pc)
      PROVE  req'[s].seen = enrollment
  BY <1>1, <1>5, AcceptFacts
<1>6. CASE \E product \in Products \cup {"any"} : StartReconcile(s, product)
  BY <1>2, <1>3, <1>4, <1>6, GrantFrame
<1>7. CASE \E o \in Orders : \/ StartCheckout(s, o) \/ DeliverEvent(s, o) \/ StartConfirm(s, o)
                             \/ StartValidateAch(s, o) \/ StartConfirmInvoice(s, o)
  <2> DEFINE Accepted(o) == \E op \in AllOps : \E pc \in PCs : Accept(s, op, o, pc)
  <2>1. /\ {"checkout", "webhook", "confirm", "ach", "invoice"} \subseteq AllOps
        /\ {"create", "intent", "fulfil", "retrieve", "claim"} \subseteq PCs
    BY DEF AllOps, PCs
  <2>2. ASSUME NEW o, StartCheckout(s, o) PROVE Accepted(o)
    BY <2>1, <2>2 DEF StartCheckout
  <2>3. ASSUME NEW o, DeliverEvent(s, o) PROVE Accepted(o)
    BY <2>1, <2>3 DEF DeliverEvent
  <2>4. ASSUME NEW o, StartConfirm(s, o) PROVE Accepted(o)
    BY <2>1, <2>4 DEF StartConfirm
  <2>5. ASSUME NEW o, StartValidateAch(s, o) PROVE Accepted(o)
    <3>1. Accept(s, "ach", o, "claim")
      BY <2>5, Zenon DEF StartValidateAch
    <3> QED
      BY <2>1, <3>1
  <2>6. ASSUME NEW o, StartConfirmInvoice(s, o) PROVE Accepted(o)
    <3>1. Accept(s, "invoice", o, "claim")
      BY <2>6, Zenon DEF StartConfirmInvoice
    <3> QED
      BY <2>1, <3>1
  <2>7. req'[s].seen = enrollment
    <3>1. \E o \in Orders : Accepted(o)
      BY <1>7, <2>2, <2>3, <2>4, <2>5, <2>6
    <3> QED
      BY <1>5, <3>1
  <2> QED
    BY <1>2, <1>3, <2>7, GrantFrame
<1> QED
  BY <1>6, <1>7 DEF StartRequest

\* A handler that goes on without a commit, or ends.
LEMMA ProceedKeepsGrants ==
    ASSUME IInv, GrantInv, NEW s \in Slots,
           \/ CreateIntent(s) \/ CreateStripeOrder(s) \/ CreateInvoiceOrder(s)
           \/ ApplyEnrollmentKeys(s) \/ RetrieveIntent(s) \/ ClaimAchOrder(s)
           \/ ClaimInvoiceOrder(s) \/ ReleaseClaim(s) \/ \E o \in Orders : ReconcileOrder(s, o)
           \/ FinishReconcile(s) \/ ReadPaidOrder(s) \/ CommitBareOrder(s) \/ UpdateZoho(s)
           \/ MarkProcessed(s) \/ RecordConfirmation(s) \/ Fail(s) \/ Crash(s)
    PROVE  GrantInv'
<1>1. TypeOK /\ SlotShape /\ req \in [Slots -> Requests]
  BY DEF IInv, TypeOK
<1>2. \A t \in Slots : t # s => req'[t] = req[t]
  BY <1>1, OthersWait DEF Proceed
<1>3. ASSUME NEW o \in Orders, Kind[o] # "bare", status'[o] = "PAID" PROVE status[o] = "PAID"
  <2>1. CASE UNCHANGED status
    BY <1>3, <2>1
  <2>2. CASE \E v \in {"REQUIRES_PAYMENT", "PENDING"} :
               status' = [status EXCEPT ![req[s].order] = v]
    BY <1>1, <1>3, <2>2 DEF TypeOK
  <2>3. CASE CreateStripeOrder(s) \/ CreateInvoiceOrder(s)
    <3>1. \/ status' = [status EXCEPT ![req[s].order] = "REQUIRES_PAYMENT"]
          \/ status' = [status EXCEPT ![req[s].order] = "PENDING"]
      BY <2>3, Zenon DEF CreateStripeOrder, CreateInvoiceOrder
    <3> QED
      BY <2>2, <3>1
  <2>4. CASE ClaimAchOrder(s)
    <3>1. UNCHANGED status \/ status' = [status EXCEPT ![req[s].order] = "PENDING"]
      BY <2>4, Zenon DEF ClaimAchOrder
    <3> QED
      BY <2>1, <2>2, <3>1
  <2>5. CASE ClaimInvoiceOrder(s)
    <3>1. UNCHANGED status \/ status' = [status EXCEPT ![req[s].order] = "REQUIRES_PAYMENT"]
      BY <2>5, Zenon DEF ClaimInvoiceOrder
    <3> QED
      BY <2>1, <2>2, <3>1
  <2>6. CASE ReleaseClaim(s)
    BY <2>1, <2>2, <2>6 DEF ReleaseClaim
  <2>7. CASE CommitBareOrder(s)
    BY <1>1, <1>3, <2>7 DEF CommitBareOrder, TypeOK
  <2>8. CASE \/ CreateIntent(s) \/ RetrieveIntent(s) \/ \E k \in Orders : ReconcileOrder(s, k)
             \/ FinishReconcile(s) \/ ReadPaidOrder(s) \/ UpdateZoho(s) \/ Fail(s) \/ Crash(s)
    BY <2>1, <2>8 DEF CreateIntent, RetrieveIntent, ReconcileOrder, FinishReconcile,
       ReadPaidOrder, UpdateZoho, Fail, Crash, rows
  <2>9. CASE ApplyEnrollmentKeys(s) \/ MarkProcessed(s) \/ RecordConfirmation(s)
    BY <2>1, <2>9 DEF ApplyEnrollmentKeys, MarkProcessed, RecordConfirmation
  <2> QED
    BY <2>3, <2>4, <2>5, <2>6, <2>7, <2>8, <2>9
<1>4. enrollment' = enrollment
  <2>1. CASE ApplyEnrollmentKeys(s)
    <3>1. PutsKeysBack(s)
      BY <1>1, <2>1, OpAt DEF ApplyEnrollmentKeys, PutsKeysBack
    <3>2. req[s].seen = enrollment
      BY <3>1 DEF GrantInv
    <3> QED
      BY <1>1, <2>1, <3>2 DEF ApplyEnrollmentKeys, TypeOK, Enrollments
  <2>2. CASE \/ CreateIntent(s) \/ RetrieveIntent(s) \/ \E k \in Orders : ReconcileOrder(s, k)
             \/ FinishReconcile(s) \/ ReadPaidOrder(s) \/ UpdateZoho(s) \/ Fail(s) \/ Crash(s)
    BY <2>2 DEF CreateIntent, RetrieveIntent, ReconcileOrder, FinishReconcile,
       ReadPaidOrder, UpdateZoho, Fail, Crash, rows
  <2>3. CASE \/ CreateStripeOrder(s) \/ CreateInvoiceOrder(s) \/ ClaimAchOrder(s)
             \/ ClaimInvoiceOrder(s)
    BY <2>3, Zenon DEF CreateStripeOrder, CreateInvoiceOrder, ClaimAchOrder, ClaimInvoiceOrder
  <2>4. CASE \/ ReleaseClaim(s) \/ CommitBareOrder(s) \/ MarkProcessed(s)
             \/ RecordConfirmation(s)
    BY <2>4 DEF ReleaseClaim, CommitBareOrder, MarkProcessed, RecordConfirmation
  <2> QED
    BY <2>1, <2>2, <2>3, <2>4

<1>5. /\ PutsKeysBack(s)' => PutsKeysBack(s) /\ req'[s].seen = req[s].seen
      /\ Fulfils(s)' =>
           \/ req'[s].seen = enrollment
           \/ Fulfils(s) /\ req'[s].seen = req[s].seen /\ req'[s].order = req[s].order
  <2>1. CASE Return(s)
    BY <1>1, <2>1, ReturnFacts DEF PutsKeysBack, Fulfils, Idle
  <2>2. CASE ReadPaidOrder(s)
    BY <1>1, <2>2, ReadFacts DEF PutsKeysBack
  <2>3. CASE \E o \in Orders : ReconcileOrder(s, o)
    BY <1>1, <2>3, PickFacts DEF PutsKeysBack, Fulfils
  <2>4. ASSUME NEW pc \in PCs \ {"create", "keys", "claim", "commit"}, Goto(s, pc)
        PROVE  ~PutsKeysBack(s)' /\ ~Fulfils(s)'
    BY <1>1, <2>4, GotoFacts DEF PutsKeysBack, Fulfils
  <2>0. CASE AfterError(s)
    BY <1>1, <2>0, ErrorFacts DEF PutsKeysBack, Fulfils, Idle
  <2>5. CASE CreateInvoiceOrder(s) /\ ~AfterError(s)
    <3>1. req[s].pc = "create" /\ Kind[req[s].order] = "invoice" /\ Goto(s, "keys")
      BY <2>5, Zenon DEF CreateInvoiceOrder, LoseAnswer
    <3>2. PutsKeysBack(s)
      BY <1>1, <3>1, OpAt DEF PutsKeysBack
    <3> QED
      BY <1>1, <3>1, <3>2, GotoFacts DEF Fulfils, PCs
  <2>6. CASE ClaimInvoiceOrder(s) /\ ~AfterError(s)
    <3>1. req[s].op = "invoice" /\ req[s].pc = "claim" /\ (Goto(s, "commit") \/ Return(s))
      BY <2>6, Zenon DEF ClaimInvoiceOrder, LoseAnswer
    <3>2. CASE Goto(s, "commit")
      BY <1>1, <3>1, <3>2, GotoFacts DEF PutsKeysBack, Fulfils, PCs
    <3> QED
      BY <2>1, <3>1, <3>2
  <2>7. CASE CreateIntent(s) /\ ~AfterError(s)
    <3>1. Goto(s, "create") /\ req[s].order \in Orders /\ Kind[req[s].order] # "invoice"
      BY <1>1, <2>7 DEF CreateIntent, SlotShape, Shape, LoseAnswer
    <3> QED
      BY <1>1, <3>1, GotoFacts DEF PutsKeysBack, Fulfils, PCs
  <2>8. CASE AfterFulfillment(s)
    BY <2>1, <2>4, <2>8 DEF AfterFulfillment, PCs
  <2>9. {"fulfil", "zoho", "release"} \subseteq PCs
    BY DEF PCs
  <2>10. CASE /\ \/ ApplyEnrollmentKeys(s) \/ RetrieveIntent(s) \/ ReleaseClaim(s)
                 \/ FinishReconcile(s)
              /\ ~AfterError(s)
    BY <2>1, <2>4, <2>9, <2>10 DEF LoseAnswer, ApplyEnrollmentKeys, RetrieveIntent, ReleaseClaim,
       FinishReconcile
  <2>11. CASE /\ CommitBareOrder(s) \/ MarkProcessed(s) \/ RecordConfirmation(s)
              /\ ~AfterError(s)
    BY <2>1, <2>8, <2>11 DEF CommitBareOrder, MarkProcessed, RecordConfirmation, LoseAnswer
  <2>12. CASE (UpdateZoho(s) \/ Fail(s) \/ Crash(s)) /\ ~AfterError(s)
    BY <2>1, <2>4, <2>8, <2>9, <2>12 DEF UpdateZoho, Fail, Crash, LoseAnswer
  <2>13. CASE (CreateStripeOrder(s) \/ ClaimAchOrder(s)) /\ ~AfterError(s)
    <3>1. Return(s) \/ Goto(s, "fulfil")
      BY <2>13, Zenon DEF CreateStripeOrder, ClaimAchOrder, LoseAnswer
    <3> QED
      BY <2>1, <2>4, <2>9, <3>1
  <2> QED
    BY <2>0, <2>2, <2>3, <2>5, <2>6, <2>7, <2>10, <2>11, <2>12, <2>13
<1> QED
  BY <1>2, <1>3, <1>4, <1>5, GrantFrame

\* A fulfilment grants its own order, and writes back what it has read of the others:
\* nobody else was about to write.
LEMMA CommitKeepsGrants ==
    ASSUME IInv, GrantInv, WritersTakeTurns, NEW s \in Slots, CommitFulfillment(s)
    PROVE  GrantInv'
<1> PICK k \in Orders : req[s].order = k
  BY DEF IInv, SlotShape, Shape, CommitFulfillment
<1>1. TypeOK /\ SlotShape /\ req \in [Slots -> Requests] /\ Items[k] \in SUBSET Products
  BY CommerceAssumption DEF IInv, TypeOK
<1>2. /\ Fulfils(s)
      /\ Kind[k] # "bare"
      /\ enrollment' = Fulfilled(req[s].seen, Items[k])
      /\ \A o \in Orders \ {k} : status'[o] = status[o]
  BY <1>1 DEF CommitFulfillment, Fulfils, TypeOK
<1>3. \A t \in Slots : t # s => req'[t] = req[t]
  BY <1>1, OthersWait DEF Proceed
<1>4. ~PutsKeysBack(s)' /\ ~Fulfils(s)'
  <2>1. CASE Return(s)
    BY <1>1, <2>1, ReturnFacts DEF PutsKeysBack, Fulfils, Idle
  <2>2. ASSUME NEW pc \in {"zoho", "next", "finish"}, Goto(s, pc)
        PROVE  ~PutsKeysBack(s)' /\ ~Fulfils(s)'
    BY <1>1, <2>2, GotoFacts DEF PutsKeysBack, Fulfils, PCs
  <2>3. CASE AfterError(s)
    BY <1>1, <2>3, ErrorFacts DEF PutsKeysBack, Fulfils, Idle
  <2> QED
    BY <2>1, <2>2, <2>3 DEF CommitFulfillment, AfterFulfillment, LoseAnswer
<1>5. PaidOrdersGranted'
  <2> SUFFICES ASSUME NEW o \in Orders, status'[o] = "PAID", Kind[o] # "bare", NEW p \in Items[o]
               PROVE  productIsOwned(p, enrollment')
    BY DEF PaidOrdersGranted
  <2>1. CASE o = k
    BY <1>1, <1>2, <2>1, FulfilledGrants
  <2>2. CASE o # k
    <3>1. productIsOwned(p, req[s].seen)
      BY <1>2, <2>2 DEF GrantInv, Granted
    <3> QED
      BY <1>1, <1>2, <3>1, FulfilledGrants, CommerceAssumption
  <2> QED
    BY <2>1, <2>2
<1>6. ASSUME NEW t \in Slots, PutsKeysBack(t)' PROVE FALSE
  <2>1. t # s /\ PutsKeysBack(t)
    BY <1>3, <1>4, <1>6 DEF PutsKeysBack
  <2> QED
    BY <1>2, <2>1 DEF WritersTakeTurns
<1>7. ASSUME NEW t \in Slots, Fulfils(t)', NEW o \in Orders \ {req'[t].order},
             status'[o] = "PAID", Kind[o] # "bare"
      PROVE  Granted(o, req'[t].seen)
  <2>1. t # s /\ Fulfils(t) /\ req'[t] = req[t]
    BY <1>3, <1>4, <1>7 DEF Fulfils
  <2>2. req[t].order = k
    BY <1>2, <2>1 DEF WritersTakeTurns
  <2>3. status[o] = "PAID"
    BY <1>2, <1>7, <2>1, <2>2
  <2> QED
    BY <1>7, <2>1, <2>3 DEF GrantInv
<1> QED
  BY <1>5, <1>6, <1>7 DEF GrantInv

LEMMA GrantStep ==
    ASSUME IInv, GrantInv, WritersTakeTurns, [Next]_vars
    PROVE  GrantInv'
<1>1. CASE \E s \in Slots : StartRequest(s)
  BY <1>1, StartKeepsGrants
<1>2. CASE \E s \in Slots : CommitFulfillment(s)
  BY <1>2, CommitKeepsGrants
<1>3. CASE \E s \in Slots : (Proceed(s) /\ ~CommitFulfillment(s)) \/ Fail(s) \/ Crash(s)
  BY <1>3, ProceedKeepsGrants DEF Proceed
<1>4. CASE UNCHANGED <<status, enrollment, req>>
  BY <1>4 DEF GrantInv, PaidOrdersGranted, PutsKeysBack, Fulfils
<1>5. CASE \E o \in Orders : Pay(o) \/ DeliverProcessedEvent(o)
  BY <1>4, <1>5 DEF Pay, DeliverProcessedEvent, rows
<1>6. CASE UNCHANGED vars
  BY <1>4, <1>6 DEF vars
<1> QED
  BY <1>1, <1>2, <1>3, <1>5, <1>6 DEF Next

\* What a PAID order contains is owned, however often its fulfilments are repeated, fail or
\* die, as long as no other handler is about to write the enrollment when one reads it.
\* Every lost grant is therefore a write of a stale read, as in the run lost_grant.
THEOREM PaidIsGranted == Spec /\ []WritersTakeTurns => []PaidOrdersGranted
<1>1. Init => GrantInv
  <2> SUFFICES ASSUME Init PROVE GrantInv
    OBVIOUS
  <2>1. \A o \in Orders : status[o] # "PAID"
    BY DEF Init, InitialStatus
  <2>2. \A s \in Slots : ~PutsKeysBack(s) /\ ~Fulfils(s)
    BY DEF Init, Idle, PutsKeysBack, Fulfils
  <2> QED
    BY <2>1, <2>2 DEF GrantInv, PaidOrdersGranted
<1>2. IInv /\ GrantInv /\ WritersTakeTurns /\ [Next]_vars => GrantInv'
  BY GrantStep
<1>3. GrantInv => PaidOrdersGranted
  BY DEF GrantInv
<1> QED
  BY <1>1, <1>2, <1>3, Invariant, PTL DEF Spec

=============================================================================
