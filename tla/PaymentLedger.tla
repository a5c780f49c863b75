---------------------------- MODULE PaymentLedger ----------------------------
(***************************************************************************)
(* What the payment service promises about an order, without requests,     *)
(* claims, webhooks or snapshots: an order is opened once, and settled      *)
(* once.  Settling is final, and an order that is paid through Stripe is    *)
(* only settled after Stripe has the money.                                 *)
(***************************************************************************)
CONSTANTS
    Orders,        \* the orders
    StripeOrders   \* the orders that only a successful PaymentIntent may settle

VARIABLES
    opened,   \* orders that have a row in the database
    funded,   \* orders whose PaymentIntent succeeded at Stripe
    settled   \* orders marked as paid

vars == <<opened, funded, settled>>

Init == \* Orders made before the service was deployed may be open already.
    /\ opened \subseteq Orders
    /\ funded = {}
    /\ settled = {}

Open(o) ==
    /\ o \notin opened
    /\ opened' = opened \cup {o}
    /\ UNCHANGED <<funded, settled>>

Fund(o) ==
    /\ o \in opened \ funded
    /\ funded' = funded \cup {o}
    /\ UNCHANGED <<opened, settled>>

Settle(o) ==
    /\ o \in opened \ settled
    /\ o \in StripeOrders => o \in funded
    /\ settled' = settled \cup {o}
    /\ UNCHANGED <<opened, funded>>

Next == \E o \in Orders : Open(o) \/ Fund(o) \/ Settle(o)

Spec == Init /\ [][Next]_vars
=============================================================================
