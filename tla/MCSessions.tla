----------------------------- MODULE MCSessions -----------------------------
(* Instances of Sessions for TLC. *)
EXTENDS Sessions, TLC

CONSTANTS a, c, A, B, p, q, k1, k2, k3, g1, s1, s2, s3

\* An administrator, a client of organization A.
AdminAndClient ==
    [x \in Users |->
        IF x = a THEN [status |-> "ACTIVE", role |-> "admin", org |-> NoOrg,
                       programs |-> {}, primary |-> NoProgram]
                 ELSE [status |-> "ACTIVE", role |-> "client", org |-> A,
                       programs |-> {p}, primary |-> p]]

\* Both organizations are in p, only A is in q.
TwoOrganizations == [o \in Orgs |-> IF o = A THEN {p, q} ELSE {p}]

Profile == [role |-> Same, org |-> Same, programs |-> Same]

\* The client: an edit of the profile, other programs, another organization,
\* a role without one, and back. The administrator: another role, and back.
AllKinds ==
    [x \in Users |->
        IF x = a THEN {[Profile EXCEPT !.role = "manager"], [Profile EXCEPT !.role = "admin"]}
                 ELSE {Profile,
                       [Profile EXCEPT !.programs = {p, q}],
                       [Profile EXCEPT !.org = B],
                       [Profile EXCEPT !.role = "manager"],
                       [role |-> "client", org |-> A, programs |-> {p}]}]

\* Other programs, and back.
OtherPrograms == [x \in Users |-> {[Profile EXCEPT !.programs = P] : P \in {{p}, {p, q}}}]

\* The client: more programs, a role without an organization, and back.
Moves == [x \in Users |-> IF x = a THEN {}
                          ELSE {[Profile EXCEPT !.programs = {p, q}],
                                [Profile EXCEPT !.role = "manager"],
                                [role |-> "client", org |-> A, programs |-> {p}]}]

\* Two edits, two exchanges, or an edit and an exchange, overlap.
Previewing == [s \in Slots |-> {"update", "exchange", "start"} \ IF s = s1 THEN {} ELSE {"start"}]
TwoEditors == [s \in Slots |-> {"update", "login"}]
SignIns == [s \in Slots |-> IF s = s1 THEN {"login", "refresh", "update"}
                                      ELSE {"refresh", "update"}]

\* Sessions have no order, and no operator chooses one.
SessionNames == Permutations({k1, k2, k3})
=============================================================================
