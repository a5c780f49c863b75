-------------------------- MODULE CommerceInvariant --------------------------
(***************************************************************************)
(* Why the payment service is right: the inductive invariant that the      *)
(* proofs of CommerceProofs rest on, in named parts.                        *)
(***************************************************************************)
EXTENDS Commerce

\* The operations that fulfil an order on Stripe's word.
StripeOps == {"webhook", "confirm", "reconcile"}

PCsOf(op) ==
    CASE op = "none"      -> {"idle"}
      [] op = "checkout"  -> {"intent", "create", "keys", "zoho"}
      [] op = "webhook"   -> {"fulfil", "commit", "zoho", "finish"}
      [] op = "confirm"   -> {"retrieve", "fulfil", "commit", "zoho"}
      [] op = "ach"       -> {"claim", "fulfil", "commit", "zoho", "finish", "release"}
      [] op = "invoice"   -> {"claim", "commit", "zoho", "finish", "release"}
      [] op = "reconcile" -> {"next", "fulfil", "commit", "zoho"}

KindsOf(op) ==
    CASE op = "none"     -> {}
      [] op = "checkout" -> {"card", "invoice", "bare"}
      [] op = "ach"      -> {"ach"}
      [] op = "invoice"  -> {"invoice"}
      [] OTHER           -> {"card", "ach", "bare"}

\* How an order was paid follows from its kind and status.
MethodOf(o) ==
    IF Kind[o] = "ach" THEN "Paid via ACH"
    ELSE IF status[o] = "absent" THEN "none"
    ELSE IF Kind[o] # "invoice" THEN "Paid via Credit Card"
    ELSE IF status[o] = "PAID" THEN "Paid via Check"
    ELSE "Needs Invoiced"

\* What a handler that is about to commit has read as the payment method.
SeenMethod(o) ==
    IF Kind[o] = "ach" THEN "Paid via ACH"
    ELSE IF Kind[o] = "invoice" THEN "Needs Invoiced"
    ELSE "Paid via Credit Card"

-----------------------------------------------------------------------------
(* Handlers *)

\* A handler is where its operation can be, with an order it can be about.
Shape(s) ==
    /\ req[s].pc \in PCsOf(req[s].op)
    /\ req[s].pc \notin {"idle", "next"} =>
         /\ req[s].order \in Orders
         /\ Kind[req[s].order] \in KindsOf(req[s].op)
    /\ req[s].pc = "intent" => Kind[req[s].order] # "invoice"
    /\ \A o \in req[s].todo : Kind[o] \in {"card", "ach"}

SlotShape == \A s \in Slots : Shape(s)

\* What handler s relies on while it is between two of its awaits.
SlotInv(s) ==
    \* The order that it creates has no row.
    /\ req[s].pc \in {"intent", "create"} => status[req[s].order] = "absent"
    \* Stripe has the money.
    /\ req[s].op \in StripeOps /\ req[s].pc \in {"fulfil", "commit", "zoho", "finish"}
         => intent[req[s].order] = "succeeded"
    \* It has committed.
    /\ req[s].pc \in {"zoho", "finish"} /\ req[s].op # "checkout"
         => status[req[s].order] = "PAID"
    \* It knows how the order is paid.
    /\ req[s].pc = "commit" => req[s].method = SeenMethod(req[s].order)
    /\ req[s].op = "invoice" => req[s].method = "Needs Invoiced"
    \* The order it has claimed stays claimed, or is paid by the webhook.
    /\ \A o \in Orders : HoldsClaim(s, o) =>
         /\ Claimed(o) \/ status[o] = "PAID"
         /\ audit[o] = 0
    \* It remembers no access key that nobody paid for.
    /\ PaidFor(req[s].seen)

CheckoutIsExclusive ==
    \A s, t \in Slots : req[s].op = "checkout" /\ req[t].op = "checkout"
                          /\ req[s].order = req[t].order => s = t

-----------------------------------------------------------------------------
(* Orders *)

\* What the row of an order, Stripe and the audit log say of it.
OrderInv(o) ==
    /\ intent[o] \in {"handed", "succeeded"} => status[o] # "absent"
    /\ event[o] # "none" => intent[o] = "succeeded"
    /\ Kind[o] = "invoice" => intent[o] = "none"
    /\ Kind[o] = "ach" => status[o] # "absent"
    /\ method[o] = MethodOf(o)
    /\ Kind[o] \in {"card", "bare"} /\ status[o] = "PAID" => intent[o] = "succeeded"
    /\ webhookEvent[o] = "processed" => status[o] = "PAID"
    /\ audit[o] <= 1
    /\ audit[o] = 1 => status[o] = "PAID"

-----------------------------------------------------------------------------

\* The inductive invariant: no step of any handler breaks it, and it implies the
\* safety properties of Commerce.
IInv ==
    /\ TypeOK
    /\ SlotShape
    /\ \A s \in Slots : SlotInv(s)
    /\ \A o \in Orders : OrderInv(o)
    /\ CheckoutIsExclusive
    /\ ClaimIsExclusive
    /\ OrphansAreAbandoned
    /\ AccessIsPaidFor
-----------------------------------------------------------------------------
(* Grants, as long as the writers of the enrollment take turns *)

\* The handler is going to write the enrollment from the copy that it has read: a
\* fulfilment, or a checkout by invoice that puts the keys back (applyEnrollmentKeys).
PutsKeysBack(s) ==
    /\ req[s].op = "checkout"
    /\ \/ req[s].pc = "create" /\ Kind[req[s].order] = "invoice"
       \/ req[s].pc = "keys"
Fulfils(s) ==
    \/ req[s].op = "invoice" /\ req[s].pc = "claim"
    \/ req[s].pc = "commit" /\ Kind[req[s].order] # "bare"

\* No handler reads the enrollment while another is about to write it, unless both
\* fulfil the same order.  Nothing in the code sees to this.
WritersTakeTurns ==
    \A s, t \in Slots : s # t =>
        /\ ~(PutsKeysBack(s) /\ PutsKeysBack(t))
        /\ ~(PutsKeysBack(s) /\ Fulfils(t))
        /\ Fulfils(s) /\ Fulfils(t) => req[s].order = req[t].order

Granted(o, e) == \A p \in Items[o] : productIsOwned(p, e)

\* What a writer has read still grants all that was paid for, but for the order that
\* it fulfils; and keys are put back into the row they were read from.
GrantInv ==
    /\ PaidOrdersGranted
    /\ \A s \in Slots :
         /\ PutsKeysBack(s) => req[s].seen = enrollment
         /\ Fulfils(s) => \A o \in Orders \ {req[s].order} :
              status[o] = "PAID" /\ Kind[o] # "bare" => Granted(o, req[s].seen)

=============================================================================
