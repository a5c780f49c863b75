-------------------------- MODULE SurveyPublication --------------------------
(***************************************************************************)
(* What replacing the employee survey of a program promises to the reports  *)
(* that read it: at any time one survey is active, a save takes its place   *)
(* in one step, and it does so only while the program is still the one that *)
(* the administrator reviewed.                                              *)
(***************************************************************************)
EXTENDS Integers

CONSTANTS
    Jobs,       \* saves
    OldSurvey   \* the survey that is active before any of them

VARIABLES
    active,     \* the survey the reports read
    revision,   \* how often the program has changed
    reviewed    \* the revision each submitted save was reviewed against

vars == <<active, revision, reviewed>>

NotSubmitted == -1

Init ==
    /\ active = OldSurvey
    /\ revision = 0
    /\ reviewed = [j \in Jobs |-> NotSubmitted]

Submit(j) ==
    /\ reviewed[j] = NotSubmitted
    /\ reviewed' = [reviewed EXCEPT ![j] = revision]
    /\ UNCHANGED <<active, revision>>

EditProgram ==
    /\ revision' = revision + 1
    /\ UNCHANGED <<active, reviewed>>

\* A save is the new active survey at once, and makes every other review stale.
Publish(j) ==
    /\ reviewed[j] = revision
    /\ active' = j
    /\ revision' = revision + 1
    /\ UNCHANGED reviewed

Next == EditProgram \/ \E j \in Jobs : Submit(j) \/ Publish(j)

Spec == Init /\ [][Next]_vars
=============================================================================
