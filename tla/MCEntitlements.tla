--------------------------- MODULE MCEntitlements ---------------------------
(* Two organizations of a program; Zoho may find out that both are the company *)
(* with the account X, which a third organization has.                       *)
EXTENDS Entitlements, TLC

CONSTANTS A, B, T, ea, eb, P, c1, c2, X, cus1, s1, s2

MCProgram == (ea :> P) @@ (eb :> P)
MCOrg == (ea :> A) @@ (eb :> B)
MCSource == (ea :> c1) @@ (eb :> c2)
MCListing == <<c1, c2>>

Company(a, name, filter, kia) ==
    [account |-> a, name |-> name, filter |-> filter, rd |-> FALSE, kia |-> kia]
MCTables ==
    <<(c1 :> Company(NoAccount, "a", FALSE, FALSE)) @@ (c2 :> Company(NoAccount, "c", TRUE, TRUE)),
      (c1 :> Company(NoAccount, "a", FALSE, FALSE)) @@ (c2 :> Company(NoAccount, "b", FALSE, FALSE)),
      (c1 :> Company(X, "a", FALSE, FALSE)) @@ (c2 :> Company(X, "b", FALSE, FALSE))>>

MCOrgs == (A :> [account |-> NoAccount, name |-> "a", customer |-> cus1])
       @@ (B :> [account |-> NoAccount, name |-> "b", customer |-> NoCustomer])
       @@ (T :> [account |-> X, name |-> "t", customer |-> NoCustomer])
MCOps == (s1 :> {"upload", "remove", "swap", "SEV"})
      @@ (s2 :> {"preview", "resync", "report", "merge"})
=============================================================================
