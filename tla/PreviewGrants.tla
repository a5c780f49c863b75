--------------------------- MODULE PreviewGrants ---------------------------
(* What a dashboard preview grant promises, whatever its handlers do at the *)
(* same time: it is exchanged at most once, only while it is open, and once *)
(* it has ended nothing brings it back.                                     *)
EXTENDS Naturals

CONSTANT Grants

VARIABLES state,   \* of a grant: not created, open, exchanged, over
          issued   \* preview tokens handed out for a grant

vars == <<state, issued>>

Init ==
    /\ state  = [g \in Grants |-> "none"]
    /\ issued = [g \in Grants |-> 0]

Create(g) ==
    /\ state[g] = "none"
    /\ state' = [state EXCEPT ![g] = "open"]
    /\ UNCHANGED issued

Exchange(g) ==
    /\ state[g] = "open"
    /\ state'  = [state EXCEPT ![g] = "used"]
    /\ issued' = [issued EXCEPT ![g] = 1]

\* Ended by its user, by time, or together by a change of the user's access.
End(G) ==
    /\ \A g \in G : state[g] \in {"open", "used"}
    /\ state' = [g \in Grants |-> IF g \in G THEN "ended" ELSE state[g]]
    /\ UNCHANGED issued

Next ==
    \/ \E g \in Grants : Create(g) \/ Exchange(g)
    \/ \E G \in SUBSET Grants : End(G)

Spec == Init /\ [][Next]_vars
=============================================================================
