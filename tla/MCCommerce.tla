----------------------------- MODULE MCCommerce ------------------------------
(* Instances of Commerce for TLC. *)
EXTENDS CommerceInvariant

CONSTANTS o1, o2, o3, s1, s2

Prospect == [access |-> {}, full |-> FALSE, kia |-> "none",
             portal |-> "promotional"]

Client == [access |-> standardReportAccessKeys, full |-> TRUE, kia |-> "none",
           portal |-> "client"]

\* Add-ons by card: both can be paid while the other is being fulfilled.
Cards  == [o \in Orders |-> "card"]
AddOns == [o \in Orders |-> IF o = o1 THEN {RESPONSE_DETAIL_ID} ELSE {KEY_IMPACT_ID}]

\* A card order of two reports beside one of the releases that stored no products.
LiveKinds == [o \in Orders |-> IF o = o1 THEN "card" ELSE "bare"]
LiveItems == [o \in Orders |-> IF o = o1 THEN {RESPONSE_DETAIL_ID, KEY_IMPACT_ID} ELSE {}]

\* The other kinds, the package with an add-on in one order.
OtherKinds == [o \in Orders |-> CASE o = o1 -> "bare"
                                  [] o = o2 -> "ach"
                                  [] o = o3 -> "invoice"]
OtherItems == [o \in Orders |->
                 CASE o = o1 -> {}
                   [] o = o2 -> {STANDARD_PACKAGE_ID, SORTED_VERBATIMS_ID}
                   [] o = o3 -> {KEY_IMPACT_ID}]
=============================================================================
