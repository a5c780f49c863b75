---------------------------- MODULE EfsJobsProofs ----------------------------
(* For any number of saves, workers and polls, and any faults, the loss of locks *)
(* included: the types of EfsJobs, that there is one active survey, that SUCCEEDED *)
(* means committed, and that EfsJobs implements SurveyPublication.             *)
EXTENDS EfsJobs, FiniteSetTheorems, TLAPS

\* The steps until the rows of the workbook are in.
Preparing == {"load", "audit", "running", "review", "list", "clear", "create", "rows"}

\* A survey that is or was active: its save has its audit row for good.
Committed(x) == x = OldSurvey \/ x \in audit

\* What the rows say: a save that was not submitted is unknown to the queue.
RowsInv ==
    /\ \E a \in Surveys : ActiveSurveys = {a}
    /\ \A x \in ActiveSurveys : Committed(x)
    /\ \A j \in Jobs : job[j] = "absent" =>
                         /\ review[j] = NoReview /\ j \notin adding
                         /\ queue[j] = "missing" /\ j \notin audit
    /\ SucceededIsPublished

\* What a worker relies on. The surveys that it will delete have been replaced and
\* cannot be published again; the program that it read is the one that was reviewed.
WorkerInv(w) ==
    /\ worker[w].pc # "idle" => /\ worker[w].job \in Jobs
                                /\ job[worker[w].job] # "absent"
    /\ \A x \in worker[w].list : Committed(x)
    /\ worker[w].pc \in {"repair", "retire", "saved"} => worker[w].job \in audit
    /\ worker[w].pc = "retire" => \A x \in worker[w].list : survey[x] # "employee"
    /\ worker[w].pc \in {"clear", "create", "rows", "publish"} =>
         review[worker[w].job].revision = worker[w].seen
    /\ worker[w].pc \in Preparing => worker[w].done < Parts

IInv ==
    /\ TypeOK
    /\ RowsInv
    /\ \A w \in Workers : WorkerInv(w)

-----------------------------------------------------------------------------
(* What the steps have in common *)

LEMMA InitIInv == Init => IInv
<1>. SUFFICES ASSUME Init PROVE IInv
  OBVIOUS
<1>1. TypeOK
  <2>1. IdleWorker \in WorkerStates /\ IdlePoll \in PollStates /\ NoReview \in Reviews
    BY EfsAssumption DEF IdleWorker, WorkerStates, IdlePoll, PollStates, NoReview, Reviews,
                         JobStatuses
  <2>. QED
    BY <2>1, EfsAssumption DEF Init, TypeOK, JobStatuses, QueueStates, Kinds, Surveys
<1>2. ActiveSurveys = {OldSurvey}
  BY DEF Init, ActiveSurveys, Surveys
<1>3. RowsInv
  BY <1>2 DEF Init, RowsInv, Committed, SucceededIsPublished, Surveys
<1>4. \A w \in Workers : WorkerInv(w)
  BY DEF Init, WorkerInv, IdleWorker, Preparing
<1>. QED
  BY <1>1, <1>3, <1>4 DEF IInv

\* A worker that waits keeps what it relies on: audit rows stay, a review does not
\* change once it is submitted, and a replaced survey does not come back.
LEMMA WorkerWaits ==
    ASSUME NEW w \in Workers, WorkerInv(w), worker \in [Workers -> WorkerStates],
           worker'[w] = worker[w],
           audit \subseteq audit',
           \A j \in Jobs : job[j] # "absent" => job'[j] # "absent" /\ review'[j] = review[j],
           \A x \in Surveys : Committed(x) /\ survey[x] # "employee" => survey'[x] # "employee"
    PROVE  WorkerInv(w)'
<1>1. worker[w].list \subseteq Surveys
  BY DEF WorkerStates
<1>2. \A x \in worker[w].list : Committed(x)'
  BY DEF WorkerInv, Committed
<1>3. worker[w].pc # "idle" => worker[w].job \in Jobs /\ job'[worker[w].job] # "absent"
  BY DEF WorkerInv
<1>4. worker[w].pc = "retire" => \A x \in worker[w].list : survey'[x] # "employee"
  BY <1>1 DEF WorkerInv
<1>5. worker[w].pc \in {"clear", "create", "rows", "publish"} =>
        review'[worker[w].job].revision = worker[w].seen
  BY DEF WorkerInv
<1>6. /\ worker[w].pc \in {"repair", "retire", "saved"} => worker[w].job \in audit'
      /\ worker[w].pc \in Preparing => worker[w].done < Parts
  BY DEF WorkerInv
<1>. QED
  BY <1>2, <1>3, <1>4, <1>5, <1>6 DEF WorkerInv

\* A step that leaves the surveys and the audit rows, and forgets no submitted save.
LEMMA Frame ==
    ASSUME IInv, TypeOK', UNCHANGED <<survey, audit>>,
           \A j \in Jobs : job[j] # "absent" => job'[j] # "absent" /\ review'[j] = review[j],
           \A j \in Jobs : job'[j] = "absent" =>
               review'[j] = NoReview /\ j \notin adding' /\ queue'[j] = "missing",
           \A j \in Jobs : job'[j] = "SUCCEEDED" => j \in audit,
           \A w \in Workers : worker'[w] = worker[w] \/ WorkerInv(w)'
    PROVE  IInv'
<1>1. ActiveSurveys' = ActiveSurveys /\ \A x : Committed(x)' = Committed(x)
  BY DEF ActiveSurveys, Committed
<1>2. RowsInv'
  BY <1>1 DEF IInv, RowsInv, SucceededIsPublished
<1>3. ASSUME NEW w \in Workers PROVE WorkerInv(w)'
  <2>1. CASE worker'[w] = worker[w]
    BY <2>1, WorkerWaits DEF IInv, TypeOK
  <2>. QED
    BY <2>1
<1>. QED
  BY <1>2, <1>3 DEF IInv

\* A step of a worker on the surveys that leaves the active one as it is.
LEMMA StagingFrame ==
    ASSUME IInv, TypeOK', UNCHANGED <<jobRows, bull, audit>>, ActiveSurveys' = ActiveSurveys,
           \A w \in Workers : worker'[w] = worker[w] \/ WorkerInv(w)'
    PROVE  IInv'
<1>1. \A x : Committed(x)' = Committed(x)
  BY DEF Committed
<1>2. job' = job /\ review' = review /\ adding' = adding /\ queue' = queue
  BY DEF jobRows, bull
<1>3. RowsInv'
  BY <1>1, <1>2 DEF IInv, RowsInv, SucceededIsPublished
<1>4. \A x \in Surveys : survey[x] # "employee" => survey'[x] # "employee"
  BY DEF ActiveSurveys
<1>5. ASSUME NEW w \in Workers PROVE WorkerInv(w)'
  <2>1. CASE worker'[w] = worker[w]
    BY <2>1, <1>2, <1>4, WorkerWaits DEF IInv, TypeOK
  <2>. QED
    BY <2>1
<1>. QED
  BY <1>3, <1>5 DEF IInv

\* The worker that is in a handler, and the save it works on.
LEMMA Working ==
    ASSUME IInv, NEW w \in Workers
    PROVE  /\ worker[w] \in WorkerStates
           /\ WorkerInv(w)
           /\ worker[w].pc # "idle" => /\ worker[w].job \in Jobs
                                       /\ worker[w].job \in Surveys
                                       /\ job[worker[w].job] # "absent"
  BY DEF IInv, TypeOK, WorkerInv, Surveys

-----------------------------------------------------------------------------
(* Submission and the queue *)

\* A fault counts.
LEMMA FaultCounts ==
    ASSUME TypeOK, NEW kind, Fault(kind)
    PROVE  faults' \in 0..MaxFaults /\ edits' = edits
  BY EfsAssumption DEF TypeOK, Fault

LEMMA SubmitStep == ASSUME IInv, NEW j \in Jobs, Submit(j) PROVE IInv'
<1>. DEFINE r == [revision |-> revision, surveys |-> ActiveSurveys]
<1>1. r \in Reviews
  BY DEF IInv, TypeOK, Reviews, ActiveSurveys
<1>2. /\ job[j] = "absent" /\ job' = [job EXCEPT ![j] = "PENDING"]
      /\ upload' = upload \cup {j} /\ review' = [review EXCEPT ![j] = r]
      /\ adding' = adding \cup {j}
      /\ UNCHANGED <<refused, queue, lock, stalls, revision, survey, rows, audit, worker, poll,
                     faults, edits>>
  BY DEF Submit, data, bounds
<1>. HIDE DEF r
<1>3. TypeOK'
  BY <1>1, <1>2 DEF IInv, TypeOK, JobStatuses
<1>4. \A i \in Jobs : job[i] # "absent" => job'[i] # "absent" /\ review'[i] = review[i]
  BY <1>2 DEF IInv, TypeOK
<1>5. \A i \in Jobs : job'[i] = "absent" =>
        review'[i] = NoReview /\ i \notin adding' /\ queue'[i] = "missing"
  BY <1>2 DEF IInv, TypeOK, RowsInv
<1>6. \A i \in Jobs : job'[i] = "SUCCEEDED" => i \in audit
  BY <1>2 DEF IInv, TypeOK, RowsInv, SucceededIsPublished
<1>7. UNCHANGED <<survey, audit>> /\ \A w \in Workers : worker'[w] = worker[w]
  BY <1>2
<1>. QED
  BY <1>3, <1>4, <1>5, <1>6, <1>7, Frame

\* Steps of the queue: no save is forgotten, and none that was not submitted is known.
LEMMA QueueStep ==
    ASSUME IInv, NEW j \in Jobs,
           \/ QueueAdd(j) \/ QueueAddFails(j) \/ MarkRefused(j) \/ MarkRefusedFails(j)
           \/ EnqueueCrash(j) \/ LoseLock(j) \/ Stalled(j)
    PROVE  IInv'
<1>1. TypeOK'
  <2>1. CASE QueueAdd(j)
    BY <2>1 DEF QueueAdd, IInv, TypeOK, jobRows, data, bounds, QueueStates
  <2>2. CASE QueueAddFails(j)
    <3>1. faults' \in 0..MaxFaults /\ edits' = edits
      BY <2>2, FaultCounts DEF IInv, QueueAddFails
    <3>2. queue' \in [Jobs -> QueueStates]
      BY <2>2 DEF QueueAddFails, IInv, TypeOK, QueueStates
    <3>. QED
      BY <2>2, <3>1, <3>2 DEF QueueAddFails, IInv, TypeOK, jobRows, data
  <2>3. CASE EnqueueCrash(j)
    <3>1. faults' \in 0..MaxFaults /\ edits' = edits
      BY <2>3, FaultCounts DEF IInv, EnqueueCrash
    <3>. QED
      BY <2>3, <3>1 DEF EnqueueCrash, IInv, TypeOK, jobRows, data
  <2>4. CASE LoseLock(j)
    <3>1. faults' \in 0..MaxFaults /\ edits' = edits
      BY <2>4, FaultCounts DEF IInv, LoseLock
    <3>. QED
      BY <2>4, <3>1 DEF LoseLock, IInv, TypeOK, jobRows, data
  <2>5. CASE Stalled(j)
    BY <2>5 DEF Stalled, IInv, TypeOK, jobRows, data, bounds, QueueStates
  <2>6. CASE MarkRefused(j)
    BY <2>6 DEF MarkRefused, IInv, TypeOK, data, bounds, JobStatuses
  <2>7. CASE MarkRefusedFails(j)
    <3>1. faults' \in 0..MaxFaults /\ edits' = edits
      BY <2>7, FaultCounts DEF IInv, MarkRefusedFails
    <3>. QED
      BY <2>7, <3>1 DEF MarkRefusedFails, IInv, TypeOK, jobRows, data
  <2>. QED
    BY <2>1, <2>2, <2>3, <2>4, <2>5, <2>6, <2>7
<1>2. UNCHANGED <<survey, audit, review, worker>>
  BY DEF QueueAdd, QueueAddFails, MarkRefused, MarkRefusedFails, EnqueueCrash, LoseLock,
         Stalled, jobRows, data
<1>3. job' = job \/ job' = [job EXCEPT ![j] = "FAILED"]
  BY DEF QueueAdd, QueueAddFails, MarkRefused, MarkRefusedFails, EnqueueCrash, LoseLock,
         Stalled, jobRows
<1>4. /\ adding' \subseteq adding
      /\ \A i \in Jobs \ {j} : queue'[i] = queue[i]
      /\ queue' = queue \/ job[j] # "absent"
  <2>1. j \in adding \/ queue[j] = "active" => job[j] # "absent"
    BY DEF IInv, RowsInv
  <2>2. CASE QueueAdd(j) \/ QueueAddFails(j)
    BY <2>1, <2>2 DEF QueueAdd, QueueAddFails, IInv, TypeOK
  <2>5. CASE MarkRefused(j) \/ MarkRefusedFails(j) \/ EnqueueCrash(j)
    BY <2>5 DEF MarkRefused, MarkRefusedFails, EnqueueCrash
  <2>3. CASE LoseLock(j)
    BY <2>3 DEF LoseLock, jobRows
  <2>4. CASE Stalled(j)
    BY <2>1, <2>4 DEF Stalled, IInv, TypeOK
  <2>. QED
    BY <2>2, <2>3, <2>4, <2>5
<1>5. \A i \in Jobs : /\ job[i] # "absent" => job'[i] # "absent"
                      /\ job'[i] = "absent" => job[i] = "absent"
                      /\ job'[i] = "SUCCEEDED" => job[i] = "SUCCEEDED"
  BY <1>3 DEF IInv, TypeOK
<1>6. \A i \in Jobs : job'[i] = "absent" =>
        review'[i] = NoReview /\ i \notin adding' /\ queue'[i] = "missing"
  <2>. SUFFICES ASSUME NEW i \in Jobs, job'[i] = "absent"
                PROVE  review'[i] = NoReview /\ i \notin adding' /\ queue'[i] = "missing"
    OBVIOUS
  <2>1. review[i] = NoReview /\ i \notin adding /\ queue[i] = "missing" /\ job[i] = "absent"
    BY <1>5 DEF IInv, RowsInv
  <2>2. queue'[i] = queue[i]
    BY <1>4, <2>1
  <2>. QED
    BY <1>2, <1>4, <2>1, <2>2
<1>7. \A i \in Jobs : job'[i] = "SUCCEEDED" => i \in audit
  BY <1>5 DEF IInv, RowsInv, SucceededIsPublished
<1>. QED
  BY <1>1, <1>2, <1>5, <1>6, <1>7, Frame

LEMMA TakeStep == ASSUME IInv, NEW w \in Workers, NEW j \in Jobs, Take(w, j) PROVE IInv'
<1>. DEFINE new == [IdleWorker EXCEPT !.job = j, !.pc = "load"]
<1>1. /\ new \in WorkerStates /\ new.job = j /\ new.pc = "load" /\ new.list = {}
      /\ new.done < Parts
  <2>1. IdleWorker \in WorkerStates
    BY EfsAssumption DEF IdleWorker, WorkerStates
  <2>2. new \in WorkerStates /\ new.job = j /\ new.pc = "load"
    BY <2>1 DEF WorkerStates, ChildSteps
  <2>3. /\ IdleWorker.list = {} /\ new.list = IdleWorker.list
        /\ IdleWorker.done = 0 /\ new.done = IdleWorker.done
    <3>1. IdleWorker.list = {} /\ IdleWorker.done = 0
      BY DEF IdleWorker
    <3>. QED
      BY <3>1, <2>1 DEF WorkerStates
  <2>. QED
    BY <2>2, <2>3, EfsAssumption
<1>. HIDE DEF new
<1>2. /\ queue[j] = "waiting" /\ queue' = [queue EXCEPT ![j] = "active"]
      /\ lock' = [lock EXCEPT ![j] = w] /\ worker' = [worker EXCEPT ![w] = new]
      /\ UNCHANGED <<job, upload, review, adding, refused, stalls, revision, survey, rows, audit,
                     poll, faults, edits>>
  BY DEF Take, new, jobRows, data, bounds
<1>3. TypeOK'
  BY <1>1, <1>2 DEF IInv, TypeOK, QueueStates
<1>4. job[j] # "absent"
  BY <1>2 DEF IInv, RowsInv
<1>5. \A v \in Workers : worker'[v] = worker[v] \/ WorkerInv(v)'
  BY <1>1, <1>2, <1>4 DEF IInv, TypeOK, WorkerInv
<1>6. \A i \in Jobs : job'[i] = "absent" =>
        review'[i] = NoReview /\ i \notin adding' /\ queue'[i] = "missing"
  BY <1>2, <1>4 DEF IInv, TypeOK, RowsInv
<1>7. \A i \in Jobs : job'[i] = "SUCCEEDED" => i \in audit
  BY <1>2 DEF IInv, RowsInv, SucceededIsPublished
<1>. QED
  BY <1>2, <1>3, <1>5, <1>6, <1>7, Frame

-----------------------------------------------------------------------------
(* Steps of a worker that change no survey *)

\* The worker moves, and nothing else changes but the count of faults.
LEMMA MoveStep ==
    ASSUME IInv, NEW w \in Workers, NEW new \in WorkerStates,
           worker' = [worker EXCEPT ![w] = new],
           UNCHANGED <<jobRows, bull, data, poll>>, faults' \in 0..MaxFaults, edits' = edits,
           WorkerInv(w)'
    PROVE  IInv'
<1>1. UNCHANGED <<job, upload, review, adding, refused, queue, lock, stalls, revision, survey, rows,
                  audit, poll>>
  BY DEF jobRows, bull, data
<1>2. TypeOK'
  BY <1>1 DEF IInv, TypeOK
<1>3. \A v \in Workers : worker'[v] = worker[v] \/ WorkerInv(v)'
  BY DEF IInv, TypeOK
<1>4. \A i \in Jobs : job'[i] = "absent" =>
        review'[i] = NoReview /\ i \notin adding' /\ queue'[i] = "missing"
  BY <1>1 DEF IInv, RowsInv
<1>5. \A i \in Jobs : job'[i] = "SUCCEEDED" => i \in audit
  BY <1>1 DEF IInv, RowsInv, SucceededIsPublished
<1>. QED
  BY <1>1, <1>2, <1>3, <1>4, <1>5, Frame

\* A worker that only goes to another place.
LEMMA GotoIs ==
    ASSUME IInv, NEW w \in Workers, NEW pc \in ChildSteps \cup ParentSteps, Goto(w, pc)
    PROVE  /\ [worker[w] EXCEPT !.pc = pc] \in WorkerStates
           /\ worker' = [worker EXCEPT ![w] = [worker[w] EXCEPT !.pc = pc]]
           /\ worker'[w] = [worker[w] EXCEPT !.pc = pc]
           /\ worker'[w].pc = pc /\ worker'[w].job = worker[w].job
           /\ worker'[w].list = worker[w].list /\ worker'[w].seen = worker[w].seen
           /\ worker'[w].done = worker[w].done
<1>1. worker \in [Workers -> WorkerStates] /\ worker[w] \in WorkerStates
  BY DEF IInv, TypeOK
<1>2. worker' = [worker EXCEPT ![w] = [worker[w] EXCEPT !.pc = pc]]
  BY DEF Goto
<1>3. [worker[w] EXCEPT !.pc = pc] \in WorkerStates
  BY <1>1 DEF WorkerStates
<1>4. worker'[w] = [worker[w] EXCEPT !.pc = pc]
  BY <1>1, <1>2
<1>5. /\ worker'[w].pc = pc /\ worker'[w].job = worker[w].job
      /\ worker'[w].list = worker[w].list /\ worker'[w].seen = worker[w].seen
      /\ worker'[w].done = worker[w].done
  BY <1>1, <1>4 DEF WorkerStates
<1>. QED
  BY <1>2, <1>3, <1>4, <1>5

\* The places where a worker relies on no more than everywhere.
LEMMA GotoSafe ==
    ASSUME IInv, NEW w \in Workers, worker[w].pc # "idle",
           NEW pc \in {"load", "audit", "running", "review", "list", "unstage", "fail",
                       "completed", "caught", "mark", "throw"} \cup {"repair", "saved"},
           pc \in {"repair", "saved"} => worker[w].job \in audit,
           pc \in Preparing => worker[w].done < Parts,
           Goto(w, pc), job' = job, audit' = audit
    PROVE  WorkerInv(w)'
<1>1. pc \in ChildSteps \cup ParentSteps
  BY DEF ChildSteps, ParentSteps
<1>2. /\ worker'[w].pc = pc /\ worker'[w].job = worker[w].job
      /\ worker'[w].list = worker[w].list /\ worker'[w].done = worker[w].done
  BY <1>1, GotoIs
<1>3. worker[w].job \in Jobs /\ job[worker[w].job] # "absent" /\ WorkerInv(w)
  BY Working
<1>4. \A x : Committed(x)' = Committed(x)
  BY DEF Committed
<1>. QED
  BY <1>2, <1>3, <1>4 DEF WorkerInv, Preparing

LEMMA GotoStep ==
    ASSUME IInv, NEW w \in Workers, worker[w].pc # "idle",
           NEW pc \in {"load", "audit", "running", "review", "list", "unstage", "fail",
                       "completed", "caught", "mark", "throw"} \cup {"repair", "saved"},
           pc \in {"repair", "saved"} => worker[w].job \in audit,
           pc \in Preparing => worker[w].done < Parts,
           Goto(w, pc), UNCHANGED <<jobRows, bull, data, poll>>,
           faults' \in 0..MaxFaults, edits' = edits
    PROVE  IInv'
<1>. DEFINE new == [worker[w] EXCEPT !.pc = pc]
<1>1. pc \in ChildSteps \cup ParentSteps
  BY DEF ChildSteps, ParentSteps
<1>2. new \in WorkerStates /\ worker' = [worker EXCEPT ![w] = new]
  BY <1>1, GotoIs
<1>3. WorkerInv(w)'
  BY GotoSafe DEF jobRows, data
<1>. HIDE DEF new
<1>. QED
  BY <1>2, <1>3, MoveStep

LEMMA LoadStep ==
    ASSUME IInv, NEW w \in Workers, LoadAudit(w) \/ CheckAudit(w)
    PROVE  IInv'
<1>1. faults' \in 0..MaxFaults /\ edits' = edits /\ UNCHANGED <<jobRows, bull, data, poll>>
  BY DEF LoadAudit, CheckAudit, bounds, IInv, TypeOK
<1>2. worker[w].pc # "idle"
  BY DEF LoadAudit, CheckAudit, At
<1>3. \E pc \in {"completed", "repair", "running", "mark"} :
        /\ Goto(w, pc) /\ (pc = "repair" => worker[w].job \in audit)
        /\ pc \in Preparing => worker[w].pc = "audit"
  <2>2. CASE LoadAudit(w)
    BY <2>2 DEF LoadAudit, At, Preparing
  <2>3. CASE CheckAudit(w)
    BY <2>3 DEF CheckAudit, Preparing
  <2>. QED
    BY <2>2, <2>3
<1>4. worker[w].pc = "audit" => worker[w].done < Parts
  BY Working DEF WorkerInv, Preparing
<1>. QED
  BY <1>1, <1>2, <1>3, <1>4, GotoStep

LEMMA ReadStep ==
    ASSUME IInv, NEW w \in Workers, LoadJob(w) \/ ReadProgram(w) \/ CheckRevision(w)
    PROVE  IInv'
<1>. DEFINE j == worker[w].job
<1>0. worker[w] \in WorkerStates /\ worker[w].pc # "idle" /\ WorkerInv(w)
  BY Working DEF LoadJob, ReadProgram, CheckRevision, At
<1>1. j \in Jobs /\ job[j] # "absent" /\ \A x \in worker[w].list : Committed(x)
  BY <1>0 DEF WorkerInv
<1>2. /\ faults' \in 0..MaxFaults /\ edits' = edits /\ UNCHANGED <<jobRows, bull, data, poll>>
      /\ UNCHANGED <<job, review, audit>>
  BY DEF LoadJob, ReadProgram, CheckRevision, bounds, jobRows, data, IInv, TypeOK
<1>5. worker[w].done < Parts
  BY <1>0 DEF WorkerInv, Preparing, LoadJob, ReadProgram, CheckRevision, At
<1>6. CASE LoadJob(w)
  <2>. DEFINE pc == IF job[j] = "SUCCEEDED" THEN "completed" ELSE "audit"
              has == j \in upload
              new == [worker[w] EXCEPT !.input = has, !.pc = pc]
  <2>1. worker' = [worker EXCEPT ![w] = new]
    BY <1>6 DEF LoadJob, IInv, TypeOK
  <2>2. /\ new \in WorkerStates /\ new.pc \in {"completed", "audit"} /\ new.job = j
        /\ new.list = worker[w].list /\ new.done = worker[w].done
    <3>1. has \in BOOLEAN /\ pc \in {"completed", "audit"}
      OBVIOUS
    <3>. HIDE DEF has, pc
    <3>. QED
      BY <1>0, <3>1 DEF WorkerStates, ChildSteps, ParentSteps
  <2>3. worker'[w] = new
    BY <2>1 DEF IInv, TypeOK
  <2>. HIDE DEF new
  <2>4. WorkerInv(w)'
    BY <1>1, <1>2, <1>5, <2>2, <2>3 DEF WorkerInv, Committed
  <2>. QED
    BY <1>2, <2>1, <2>2, <2>4, MoveStep
<1>3. CASE ReadProgram(w)
  <2>. DEFINE new == [worker[w] EXCEPT !.seen = revision,
                                       !.pc = IF worker[w].input THEN "list" ELSE "fail"]
  <2>1. worker' = [worker EXCEPT ![w] = new]
    BY <1>3 DEF ReadProgram, IInv, TypeOK
  <2>2. /\ new \in WorkerStates /\ new.pc \in {"list", "fail"} /\ new.job = j
        /\ new.list = worker[w].list /\ new.done = worker[w].done
    <3>1. revision \in Int /\ (IF worker[w].input THEN "list" ELSE "fail") \in {"list", "fail"}
      BY DEF IInv, TypeOK
    <3>. QED
      BY <1>0, <3>1 DEF WorkerStates, ChildSteps
  <2>3. worker'[w] = new
    BY <2>1 DEF IInv, TypeOK
  <2>. HIDE DEF new
  <2>4. WorkerInv(w)'
    BY <1>1, <1>2, <1>5, <2>2, <2>3 DEF WorkerInv, Committed
  <2>. QED
    BY <1>2, <2>1, <2>2, <2>4, MoveStep
<1>4. CASE CheckRevision(w)
  <2>. DEFINE same == review[j].revision = worker[w].seen /\ review[j].surveys = ActiveSurveys
              new == [worker[w] EXCEPT !.list = ActiveSurveys,
                                       !.pc = IF same THEN "clear" ELSE "fail"]
  <2>1. worker' = [worker EXCEPT ![w] = new]
    BY <1>4 DEF CheckRevision, IInv, TypeOK
  <2>2. /\ new \in WorkerStates /\ new.pc \in {"clear", "fail"} /\ new.job = j
        /\ new.list = ActiveSurveys /\ new.seen = worker[w].seen
        /\ new.done = worker[w].done
        /\ new.pc = "clear" => same
    BY <1>0 DEF WorkerStates, ChildSteps, ActiveSurveys
  <2>3. worker'[w] = new
    BY <2>1 DEF IInv, TypeOK
  <2>4. \A x \in ActiveSurveys : Committed(x)'
    BY <1>2 DEF IInv, RowsInv, Committed
  <2>. HIDE DEF new
  <2>5. WorkerInv(w)'
    BY <1>1, <1>2, <1>5, <2>2, <2>3, <2>4 DEF WorkerInv
  <2>. QED
    BY <1>2, <2>1, <2>2, <2>5, MoveStep
<1>. QED
  BY <1>3, <1>4, <1>6

\* A submitted save gets another status: SUCCEEDED only with its audit row.
LEMMA SetJobStep ==
    ASSUME IInv, NEW j, j \in Jobs /\ job' # job => job[j] # "absent",
           NEW s \in {"RUNNING", "SUCCEEDED", "FAILED"}, s = "SUCCEEDED" => j \in audit,
           job' = job \/ job' = [job EXCEPT ![j] = s],
           upload' \subseteq upload, UNCHANGED <<review, bull, data, bounds>>,
           worker' \in [Workers -> WorkerStates], poll' \in [Pollers -> PollStates],
           \A w \in Workers : worker'[w] = worker[w] \/ WorkerInv(w)'
    PROVE  IInv'
<1>1. UNCHANGED <<adding, refused, queue, lock, stalls, revision, survey, rows, audit, faults, edits>>
  BY DEF bull, data, bounds
<1>2. /\ job' \in [Jobs -> JobStatuses]
      /\ \A i \in Jobs : /\ job[i] # "absent" => job'[i] # "absent"
                         /\ job'[i] = "absent" => job[i] = "absent"
                         /\ job'[i] = "SUCCEEDED" => job[i] = "SUCCEEDED" \/ i \in audit
  BY DEF IInv, TypeOK, JobStatuses
<1>3. TypeOK'
  BY <1>1, <1>2 DEF IInv, TypeOK
<1>4. \A i \in Jobs : job'[i] = "absent" =>
        review'[i] = NoReview /\ i \notin adding' /\ queue'[i] = "missing"
  BY <1>1, <1>2 DEF IInv, RowsInv
<1>5. \A i \in Jobs : job'[i] = "SUCCEEDED" => i \in audit
  BY <1>2 DEF IInv, RowsInv, SucceededIsPublished
<1>. QED
  BY <1>1, <1>2, <1>3, <1>4, <1>5, Frame

LEMMA RecordStep ==
    ASSUME IInv, NEW w \in Workers,
           \/ RepairJob(w) \/ StartImport(w) \/ ReportSaved(w) \/ ReportFailed(w)
           \/ MarkFailed(w)
    PROVE  IInv'
<1>. DEFINE j == worker[w].job
<1>1. worker[w].pc \in {"repair", "running", "saved", "fail", "mark"}
  BY DEF RepairJob, StartImport, ReportSaved, ReportFailed, MarkFailed, At
<1>2. j \in Jobs /\ job[j] # "absent" /\ WorkerInv(w) /\ worker[w] \in WorkerStates
  BY <1>1, Working
<1>3. PICK pc \in {"completed", "review", "caught", "throw"} :
        Goto(w, pc) /\ (pc = "review" => worker[w].pc = "running")
  BY DEF RepairJob, StartImport, ReportSaved, ReportFailed, MarkFailed, At
<1>4. \E s \in {"RUNNING", "SUCCEEDED", "FAILED"} :
        /\ job' = job \/ job' = [job EXCEPT ![j] = s]
        /\ s = "SUCCEEDED" => j \in audit
  BY <1>2 DEF RepairJob, StartImport, ReportSaved, ReportFailed, MarkFailed, SetJob, At,
              WorkerInv
<1>5. upload' \subseteq upload /\ UNCHANGED <<review, bull, data, poll, bounds>>
  BY DEF RepairJob, StartImport, ReportSaved, ReportFailed, MarkFailed
<1>6. /\ worker' \in [Workers -> WorkerStates]
      /\ worker'[w].pc = pc /\ worker'[w].job = j /\ worker'[w].list = worker[w].list
      /\ worker'[w].done = worker[w].done
      /\ \A v \in Workers \ {w} : worker'[v] = worker[v]
  <2>1. pc \in ChildSteps \cup ParentSteps
    BY DEF ChildSteps, ParentSteps
  <2>2. worker'[w].pc = pc /\ worker'[w].job = j /\ worker'[w].list = worker[w].list
        /\ worker'[w].done = worker[w].done
        /\ [worker[w] EXCEPT !.pc = pc] \in WorkerStates
        /\ worker' = [worker EXCEPT ![w] = [worker[w] EXCEPT !.pc = pc]]
    BY <1>3, <2>1, GotoIs
  <2>. QED
    BY <2>2 DEF IInv, TypeOK
<1>7. WorkerInv(w)'
  <2>1. job'[j] # "absent" /\ audit' = audit
    BY <1>2, <1>4, <1>5 DEF data, IInv, TypeOK
  <2>2. pc \in Preparing => worker[w].done < Parts
    BY <1>2, <1>3 DEF WorkerInv, Preparing
  <2>. QED
    BY <1>2, <1>6, <2>1, <2>2 DEF WorkerInv, Committed
<1>8. poll' \in [Pollers -> PollStates]
  BY <1>5 DEF IInv, TypeOK
<1>. HIDE DEF j
<1>. QED
  BY <1>2, <1>4, <1>5, <1>6, <1>7, <1>8, SetJobStep

LEMMA IdleWorkerOK == IdleWorker \in WorkerStates /\ IdleWorker.pc = "idle" /\ IdleWorker.list = {}
  BY EfsAssumption DEF IdleWorker, WorkerStates

\* A worker is idle again: its job is settled, or its instance died.
LEMMA IdleStep ==
    ASSUME IInv, NEW w \in Workers, Complete(w) \/ Throw(w) \/ WorkerCrash(w)
    PROVE  IInv'
<1>1. worker' = [worker EXCEPT ![w] = IdleWorker] /\ worker[w].pc # "idle"
  BY DEF Complete, Throw, Settle, WorkerCrash, At
<1>2. worker[w].job \in Jobs /\ job[worker[w].job] # "absent"
  BY <1>1, Working
<1>3. UNCHANGED <<job, upload, review, adding, refused, stalls, revision, survey, rows, audit, poll>>
  BY DEF Complete, Throw, Settle, WorkerCrash, jobRows, data
<1>4. /\ queue' \in [Jobs -> QueueStates] /\ lock' \in [Jobs -> Workers \cup {None}]
      /\ \A i \in Jobs \ {worker[w].job} : queue'[i] = queue[i]
  <2>1. ASSUME NEW state \in {"missing", "failed"}, Settle(w, state)
        PROVE  /\ queue' \in [Jobs -> QueueStates] /\ lock' \in [Jobs -> Workers \cup {None}]
               /\ \A i \in Jobs \ {worker[w].job} : queue'[i] = queue[i]
    BY <2>1 DEF Settle, IInv, TypeOK, QueueStates
  <2>2. CASE WorkerCrash(w)
    BY <2>2 DEF WorkerCrash, IInv, TypeOK
  <2>. QED
    BY <2>1, <2>2 DEF Complete, Throw
<1>5. faults' \in 0..MaxFaults /\ edits' = edits
  <2>1. CASE WorkerCrash(w)
    BY <2>1, FaultCounts DEF WorkerCrash, IInv
  <2>2. CASE Complete(w) \/ Throw(w)
    BY <2>2 DEF Complete, Throw, Settle, bounds, IInv, TypeOK
  <2>. QED
    BY <2>1, <2>2
<1>6. TypeOK'
  BY <1>1, <1>3, <1>4, <1>5, IdleWorkerOK DEF IInv, TypeOK
<1>7. \A v \in Workers : worker'[v] = worker[v] \/ WorkerInv(v)'
  BY <1>1, IdleWorkerOK DEF IInv, TypeOK, WorkerInv, Preparing
<1>8. \A i \in Jobs : job'[i] = "absent" =>
        review'[i] = NoReview /\ i \notin adding' /\ queue'[i] = "missing"
  BY <1>2, <1>3, <1>4 DEF IInv, RowsInv
<1>9. \A i \in Jobs : job'[i] = "SUCCEEDED" => i \in audit
  BY <1>3 DEF IInv, RowsInv, SucceededIsPublished
<1>. QED
  BY <1>3, <1>6, <1>7, <1>8, <1>9, Frame

LEMMA ErrorStep ==
    ASSUME IInv, NEW w \in Workers, Error(w) \/ ChildKilled(w)
    PROVE  IInv'
<1>1. UNCHANGED <<jobRows, bull, data, poll>> /\ worker[w].pc # "idle"
  BY DEF Error, ChildKilled, ChildSteps
<1>2. faults' \in 0..MaxFaults /\ edits' = edits
  BY FaultCounts DEF Error, ChildKilled, IInv
<1>3. \E pc \in {"caught", "fail", "unstage", "throw", "saved"} :
        Goto(w, pc) /\ (pc = "saved" => worker[w].pc = "retire")
  <2>1. worker[w].pc \in ChildSteps \cup ParentSteps
    BY <1>1, Working DEF WorkerStates
  <2>2. CASE Error(w)
    BY <2>1, <2>2 DEF Error, AfterError, ChildSteps, ParentSteps
  <2>3. CASE ChildKilled(w)
    BY <2>3 DEF ChildKilled
  <2>. QED
    BY <2>2, <2>3
<1>4. worker[w].pc = "retire" => worker[w].job \in audit
  BY Working DEF WorkerInv
<1>5. \A pc \in {"caught", "fail", "unstage", "throw", "saved"} : pc \notin Preparing
  BY DEF Preparing
<1>. QED
  BY <1>1, <1>2, <1>3, <1>4, <1>5, GotoStep

-----------------------------------------------------------------------------
(* Polls, and other changes of the program *)

LEMMA IdlePollOK == IdlePoll \in PollStates
  BY EfsAssumption DEF IdlePoll, PollStates, JobStatuses

\* A poll that only moves.
LEMMA PollMoves ==
    ASSUME IInv, poll' \in [Pollers -> PollStates], UNCHANGED <<jobRows, bull, data, worker>>,
           faults' \in 0..MaxFaults, edits' = edits
    PROVE  IInv'
<1>1. UNCHANGED <<job, upload, review, adding, refused, queue, lock, stalls, revision, survey, rows,
                  audit, worker>>
  BY DEF jobRows, bull, data
<1>2. TypeOK'
  BY <1>1 DEF IInv, TypeOK
<1>3. \A i \in Jobs : job'[i] = "absent" =>
        review'[i] = NoReview /\ i \notin adding' /\ queue'[i] = "missing"
  BY <1>1 DEF IInv, RowsInv
<1>4. \A i \in Jobs : job'[i] = "SUCCEEDED" => i \in audit
  BY <1>1 DEF IInv, RowsInv, SucceededIsPublished
<1>. QED
  BY <1>1, <1>2, <1>3, <1>4, Frame

LEMMA PollGotoOK ==
    ASSUME IInv, NEW p \in Pollers, NEW pc \in {"queue", "mark"}, PollGoto(p, pc)
    PROVE  poll' \in [Pollers -> PollStates]
<1>1. poll \in [Pollers -> PollStates] /\ poll[p] \in PollStates
  BY DEF IInv, TypeOK
<1>2. [poll[p] EXCEPT !.pc = pc] \in PollStates
  BY <1>1 DEF PollStates
<1>. QED
  BY <1>1, <1>2 DEF PollGoto

LEMMA AnswerOK ==
    ASSUME IInv, NEW p \in Pollers, Answer(p)
    PROVE  poll' \in [Pollers -> PollStates]
  BY IdlePollOK DEF Answer, IInv, TypeOK

LEMMA PollStep ==
    ASSUME IInv, NEW p \in Pollers,
           \/ \E j \in Jobs : PollRecord(p, j)
           \/ PollSeesJob(p) \/ PollMissesJob(p) \/ PollError(p)
    PROVE  IInv'
<1>1. UNCHANGED <<jobRows, bull, data, worker>>
  BY DEF PollRecord, PollSeesJob, PollMissesJob, PollError
<1>2. faults' \in 0..MaxFaults /\ edits' = edits
  <2>1. CASE PollError(p)
    BY <2>1, FaultCounts DEF PollError, IInv
  <2>. QED
    BY <2>1 DEF PollRecord, PollSeesJob, PollMissesJob, bounds, IInv, TypeOK
<1>3. poll' \in [Pollers -> PollStates]
  <2>1. ASSUME NEW j \in Jobs, PollRecord(p, j) PROVE poll' \in [Pollers -> PollStates]
    <3>. DEFINE new == [job |-> j, status |-> job[j],
                        pc |-> IF job[j] = "PENDING" THEN "queue" ELSE "audit"]
    <3>1. new \in PollStates
      BY DEF IInv, TypeOK, PollStates
    <3>2. poll' = [poll EXCEPT ![p] = new]
      BY <2>1 DEF PollRecord
    <3>. HIDE DEF new
    <3>. QED
      BY <3>1, <3>2 DEF IInv, TypeOK
  <2>2. CASE PollSeesJob(p) \/ PollError(p)
    BY <2>2, AnswerOK DEF PollSeesJob, PollError
  <2>3. CASE PollMissesJob(p)
    BY <2>3, PollGotoOK DEF PollMissesJob
  <2>. QED
    BY <2>1, <2>2, <2>3
<1>. QED
  BY <1>1, <1>2, <1>3, PollMoves

\* A poll writes the record: it repairs a committed save or marks a lost one.
LEMMA PollWriteStep ==
    ASSUME IInv, NEW p \in Pollers, PollAudit(p) \/ PollMark(p)
    PROVE  IInv'
<1>1. /\ UNCHANGED <<review, bull, data, worker, bounds>> /\ upload' \subseteq upload
  BY DEF PollAudit, PollMark
<1>2. \E s \in {"RUNNING", "SUCCEEDED", "FAILED"} :
        /\ job' = job \/ job' = [job EXCEPT ![poll[p].job] = s]
        /\ s = "SUCCEEDED" => poll[p].job \in audit
  BY DEF PollAudit, PollMark, SetJob
<1>3. poll' \in [Pollers -> PollStates]
  BY AnswerOK, PollGotoOK DEF PollAudit, PollMark, IInv, TypeOK
<1>4. worker' \in [Workers -> WorkerStates] /\ \A w \in Workers : worker'[w] = worker[w]
  BY <1>1 DEF IInv, TypeOK
<1>5. poll[p].job \in Jobs /\ job' # job => job[poll[p].job] # "absent"
  BY DEF PollAudit, PollMark, IInv, RowsInv
<1>. QED
  BY <1>1, <1>2, <1>3, <1>4, <1>5, SetJobStep

LEMMA EditStep == ASSUME IInv, EditProgram PROVE IInv'
<1>1. UNCHANGED <<job, upload, review, adding, refused, queue, lock, stalls, survey, rows,
                  audit, worker, poll, faults>>
  BY DEF EditProgram, jobRows, bull
<1>2. TypeOK'
  BY <1>1, EfsAssumption DEF IInv, TypeOK, EditProgram
<1>3. \A i \in Jobs : job'[i] = "absent" =>
        review'[i] = NoReview /\ i \notin adding' /\ queue'[i] = "missing"
  BY <1>1 DEF IInv, RowsInv
<1>4. \A i \in Jobs : job'[i] = "SUCCEEDED" => i \in audit
  BY <1>1 DEF IInv, RowsInv, SucceededIsPublished
<1>. QED
  BY <1>1, <1>2, <1>3, <1>4, Frame

-----------------------------------------------------------------------------
(* Steps of a worker on the surveys *)

\* A worker writes surveys other than the active one, and goes on.
LEMMA StagingStep ==
    ASSUME IInv, NEW w \in Workers, worker[w].pc # "idle",
           survey' \in [Surveys -> Kinds], rows' \in [Surveys -> SUBSET (1..Parts)],
           worker' \in [Workers -> WorkerStates],
           UNCHANGED <<jobRows, bull, revision, audit, poll, bounds>>,
           ActiveSurveys' = ActiveSurveys,
           \A v \in Workers : worker'[v] = worker[v] \/ WorkerInv(v)'
    PROVE  IInv'
<1>1. UNCHANGED <<job, upload, review, adding, refused, queue, lock, stalls, faults, edits>>
  BY DEF jobRows, bull, bounds
<1>2. TypeOK'
  BY <1>1 DEF IInv, TypeOK
<1>. QED
  BY <1>2, StagingFrame

\* The same, when it moves to a place where it relies on nothing new.
LEMMA StagingGoto ==
    ASSUME IInv, NEW w \in Workers, worker[w].pc # "idle",
           NEW pc \in {"unstage", "fail"} \cup {"saved"},
           pc = "saved" => worker[w].job \in audit, Goto(w, pc),
           survey' \in [Surveys -> Kinds], rows' \in [Surveys -> SUBSET (1..Parts)],
           UNCHANGED <<jobRows, bull, revision, audit, poll, bounds>>,
           ActiveSurveys' = ActiveSurveys
    PROVE  IInv'
<1>1. pc \in ChildSteps \cup ParentSteps /\ pc \notin Preparing
  BY DEF ChildSteps, ParentSteps, Preparing
<1>2. /\ [worker[w] EXCEPT !.pc = pc] \in WorkerStates
      /\ worker' = [worker EXCEPT ![w] = [worker[w] EXCEPT !.pc = pc]]
  BY <1>1, GotoIs
<1>3. worker' \in [Workers -> WorkerStates] /\ \A v \in Workers \ {w} : worker'[v] = worker[v]
  BY <1>2 DEF IInv, TypeOK
<1>4. WorkerInv(w)'
  BY <1>1, GotoSafe DEF jobRows
<1>5. \A v \in Workers : worker'[v] = worker[v] \/ WorkerInv(v)'
  BY <1>3, <1>4
<1>. QED
  BY <1>3, <1>5, StagingStep

\* Deleting a staging survey is not deleting the active one.
LEMMA DeleteStagingIs ==
    ASSUME IInv, NEW j \in Jobs, DeleteStaging(j)
    PROVE  /\ survey' \in [Surveys -> Kinds] /\ rows' \in [Surveys -> SUBSET (1..Parts)]
           /\ ActiveSurveys' = ActiveSurveys
<1>1. survey \in [Surveys -> Kinds] /\ rows \in [Surveys -> SUBSET (1..Parts)] /\ j \in Surveys
  BY DEF IInv, TypeOK, Surveys
<1>2. CASE survey[j] = "employee-staging"
  BY <1>1, <1>2 DEF DeleteStaging, ActiveSurveys, Kinds
<1>3. CASE survey[j] # "employee-staging"
  BY <1>1, <1>3 DEF DeleteStaging, ActiveSurveys
<1>. QED
  BY <1>2, <1>3

\* The worker that prepares rows goes on preparing, or publishes.
LEMMA PrepareGoto ==
    ASSUME IInv, NEW w \in Workers,
           worker[w].pc \in {"clear", "create", "rows"}, NEW new \in WorkerStates,
           worker' = [worker EXCEPT ![w] = new],
           new.job = worker[w].job, new.list = worker[w].list, new.seen = worker[w].seen,
           \/ new.pc \in {"create", "rows"} /\ new.done < Parts
           \/ new.pc = "publish",
           UNCHANGED <<job, review, audit>>
    PROVE  /\ worker' \in [Workers -> WorkerStates]
           /\ \A v \in Workers : worker'[v] = worker[v] \/ WorkerInv(v)'
<1>1. worker \in [Workers -> WorkerStates]
  BY DEF IInv, TypeOK
<1>2. worker' \in [Workers -> WorkerStates] /\ worker'[w] = new
  BY <1>1
<1>3. /\ WorkerInv(w) /\ worker[w].job \in Jobs /\ job[worker[w].job] # "absent"
      /\ \A x : Committed(x)' = Committed(x)
  BY Working DEF Committed
<1>4. \A x \in new.list : Committed(x)'
  BY <1>3 DEF WorkerInv
<1>5. review'[new.job].revision = new.seen
  BY <1>3 DEF WorkerInv
<1>6. new.pc \in Preparing => new.done < Parts
  BY DEF Preparing
<1>7. new.pc \notin {"idle", "repair", "retire", "saved"}
  OBVIOUS
<1>8. WorkerInv(w)'
  BY <1>2, <1>3, <1>4, <1>5, <1>6, <1>7 DEF WorkerInv
<1>. QED
  BY <1>1, <1>2, <1>8

LEMMA ClearStep == ASSUME IInv, NEW w \in Workers, ClearStaging(w) PROVE IInv'
<1>. DEFINE new == [worker[w] EXCEPT !.pc = "create"]
<1>1. /\ worker[w].pc = "clear" /\ DeleteStaging(worker[w].job) /\ Goto(w, "create")
      /\ UNCHANGED <<jobRows, bull, revision, audit, poll, bounds>>
  BY DEF ClearStaging, At
<1>2. worker[w].job \in Jobs /\ WorkerInv(w)
  BY <1>1, Working
<1>3. worker[w].done < Parts
  BY <1>1, <1>2 DEF WorkerInv, Preparing
<1>4. "create" \in ChildSteps \cup ParentSteps
  BY DEF ChildSteps
<1>5. /\ new \in WorkerStates /\ worker' = [worker EXCEPT ![w] = new] /\ worker'[w] = new
      /\ new.pc = "create" /\ new.job = worker[w].job /\ new.list = worker[w].list
      /\ new.seen = worker[w].seen /\ new.done = worker[w].done
  BY <1>1, <1>4, GotoIs
<1>. HIDE DEF new
<1>6. UNCHANGED <<job, review, audit>>
  BY <1>1 DEF jobRows
<1>7. /\ worker' \in [Workers -> WorkerStates]
      /\ \A v \in Workers : worker'[v] = worker[v] \/ WorkerInv(v)'
  BY <1>1, <1>3, <1>5, <1>6, PrepareGoto
<1>. QED
  BY <1>1, <1>2, <1>7, DeleteStagingIs, StagingStep

LEMMA CreateStep == ASSUME IInv, NEW w \in Workers, CreateStaging(w) PROVE IInv'
<1>. DEFINE j == worker[w].job
            new == [worker[w] EXCEPT !.pc = "rows"]
<1>1. /\ worker[w].pc = "create"
      /\ UNCHANGED <<jobRows, bull, revision, rows, audit, poll, bounds>>
  BY DEF CreateStaging, At
<1>2. /\ j \in Jobs /\ j \in Surveys /\ WorkerInv(w)
      /\ survey \in [Surveys -> Kinds] /\ rows' \in [Surveys -> SUBSET (1..Parts)]
  BY <1>1, Working DEF IInv, TypeOK
<1>3. CASE survey[j] # "absent"
  <2>1. Goto(w, "unstage") /\ survey' = survey
    BY <1>3 DEF CreateStaging
  <2>2. ActiveSurveys' = ActiveSurveys
    BY <2>1 DEF ActiveSurveys
  <2>. QED
    BY <1>1, <1>2, <2>1, <2>2, StagingGoto
<1>4. CASE survey[j] = "absent"
  <2>1. Goto(w, "rows") /\ survey' = [survey EXCEPT ![j] = "employee-staging"]
    BY <1>4 DEF CreateStaging
  <2>2. survey' \in [Surveys -> Kinds] /\ ActiveSurveys' = ActiveSurveys
    BY <1>2, <1>4, <2>1 DEF Kinds, ActiveSurveys
  <2>3. worker[w].done < Parts
    BY <1>1, <1>2 DEF WorkerInv, Preparing
  <2>4. "rows" \in ChildSteps \cup ParentSteps
    BY DEF ChildSteps
  <2>5. /\ new \in WorkerStates /\ worker' = [worker EXCEPT ![w] = new]
        /\ worker'[w] = new /\ new.pc = "rows" /\ new.job = j
        /\ new.list = worker[w].list /\ new.seen = worker[w].seen
        /\ new.done = worker[w].done
    BY <2>1, <2>4, GotoIs
  <2>. HIDE DEF new
  <2>6. UNCHANGED <<job, review, audit>>
    BY <1>1 DEF jobRows
  <2>7. /\ worker' \in [Workers -> WorkerStates]
        /\ \A v \in Workers : worker'[v] = worker[v] \/ WorkerInv(v)'
    BY <1>1, <2>3, <2>5, <2>6, PrepareGoto
  <2>. QED
    BY <1>1, <1>2, <2>2, <2>7, StagingStep
<1>. QED
  BY <1>3, <1>4

LEMMA InsertStep == ASSUME IInv, NEW w \in Workers, InsertRows(w) PROVE IInv'
<1>. DEFINE j == worker[w].job
            part == worker[w].done + 1
            next == IF part = Parts THEN "publish" ELSE "rows"
            new == [worker[w] EXCEPT !.done = part, !.pc = next]
<1>1. /\ worker[w].pc = "rows"
      /\ UNCHANGED <<jobRows, bull, revision, survey, audit, poll, bounds>>
  BY DEF InsertRows, At
<1>2. /\ j \in Jobs /\ j \in Surveys /\ WorkerInv(w) /\ worker[w] \in WorkerStates
      /\ survey' \in [Surveys -> Kinds] /\ rows \in [Surveys -> SUBSET (1..Parts)]
      /\ ActiveSurveys' = ActiveSurveys
  BY <1>1, Working DEF IInv, TypeOK, ActiveSurveys
<1>3. worker[w].done \in 0..Parts /\ worker[w].done < Parts
  BY <1>1, <1>2 DEF WorkerInv, Preparing, WorkerStates
<1>4. part \in 1..Parts /\ part \in 0..Parts /\ (part # Parts => part < Parts)
  BY <1>3, EfsAssumption
<1>5. CASE ~(survey[j] # "absent" /\ part \notin rows[j])
  <2>1. Goto(w, "unstage") /\ rows' = rows
    BY <1>5 DEF InsertRows
  <2>. QED
    BY <1>1, <1>2, <2>1, StagingGoto
<1>6. CASE survey[j] # "absent" /\ part \notin rows[j]
  <2>1. /\ rows' = [rows EXCEPT ![j] = @ \cup {part}]
        /\ worker' = [worker EXCEPT ![w].done = part, ![w].pc = next]
    BY <1>6 DEF InsertRows
  <2>2. rows' \in [Surveys -> SUBSET (1..Parts)]
    BY <1>2, <1>4, <2>1
  <2>3. next \in {"publish", "rows"} /\ (next = "rows" => part < Parts)
    BY <1>4
  <2>. HIDE DEF next, part
  <2>4. worker' = [worker EXCEPT ![w] = new]
    BY <2>1 DEF IInv, TypeOK
  <2>5. /\ new \in WorkerStates /\ new.pc = next /\ new.done = part /\ new.job = j
        /\ new.list = worker[w].list /\ new.seen = worker[w].seen
    BY <1>2, <1>4, <2>3 DEF WorkerStates, ChildSteps
  <2>. HIDE DEF new
  <2>6. UNCHANGED <<job, review, audit>>
    BY <1>1 DEF jobRows
  <2>7. /\ worker' \in [Workers -> WorkerStates]
        /\ \A v \in Workers : worker'[v] = worker[v] \/ WorkerInv(v)'
    BY <1>1, <2>3, <2>4, <2>5, <2>6, PrepareGoto
  <2>. QED
    BY <1>1, <1>2, <2>2, <2>7, StagingStep
<1>. QED
  BY <1>5, <1>6

LEMMA CleanStep == ASSUME IInv, NEW w \in Workers, Unstage(w) \/ DeleteRetired(w) PROVE IInv'
<1>1. CASE Unstage(w)
  <2>1. /\ worker[w].pc = "unstage" /\ DeleteStaging(worker[w].job) /\ Goto(w, "fail")
        /\ UNCHANGED <<jobRows, bull, revision, audit, poll, bounds>>
    BY <1>1 DEF Unstage, At
  <2>2. worker[w].job \in Jobs
    BY <2>1, Working
  <2>. QED
    BY <2>1, <2>2, DeleteStagingIs, StagingGoto
<1>2. CASE DeleteRetired(w)
  <2>1. /\ worker[w].pc = "retire" /\ Goto(w, "saved")
        /\ UNCHANGED <<jobRows, bull, revision, audit, poll, bounds>>
        /\ survey' = [x \in Surveys |-> IF x \in worker[w].list THEN "absent" ELSE survey[x]]
        /\ rows' = [x \in Surveys |-> IF x \in worker[w].list THEN {} ELSE rows[x]]
    BY <1>2 DEF DeleteRetired, At
  <2>2. /\ worker[w].job \in audit
        /\ \A x \in worker[w].list : survey[x] # "employee"
    BY <2>1, Working DEF WorkerInv
  <2>3. ActiveSurveys' = ActiveSurveys
    BY <2>1, <2>2 DEF ActiveSurveys
  <2>4. survey' \in [Surveys -> Kinds] /\ rows' \in [Surveys -> SUBSET (1..Parts)]
    BY <2>1 DEF IInv, TypeOK, Kinds
  <2>. QED
    BY <2>1, <2>2, <2>3, <2>4, StagingGoto
<1>. QED
  BY <1>1, <1>2

-----------------------------------------------------------------------------
(* The transaction *)

\* The survey of the save becomes the only active one.
LEMMA PublishedIs ==
    ASSUME TypeOK, NEW j \in Jobs, Published(j)
    PROVE  /\ survey' \in [Surveys -> Kinds] /\ rows' = rows
           /\ revision' \in Nat /\ revision' = revision + 1
           /\ audit' = audit \cup {j} /\ audit' \in SUBSET Jobs
           /\ ActiveSurveys' = {j}
  BY DEF TypeOK, Published, Kinds, ActiveSurveys, Surveys

LEMMA CommitStep ==
    ASSUME IInv, NEW w \in Workers, worker[w].pc = "publish", MayPublish(w),
           Published(worker[w].job), NEW pc \in {"retire", "unstage"}, Goto(w, pc),
           UNCHANGED <<jobRows, bull, poll>>, faults' \in 0..MaxFaults, edits' = edits
    PROVE  IInv'
<1>. DEFINE j == worker[w].job
<1>1. j \in Jobs /\ job[j] # "absent" /\ WorkerInv(w) /\ j \notin audit /\ j # OldSurvey
  BY Working, EfsAssumption DEF MayPublish
<1>2. /\ survey' \in [Surveys -> Kinds] /\ rows' = rows /\ revision' \in Nat
      /\ audit' = audit \cup {j} /\ audit' \in SUBSET Jobs /\ ActiveSurveys' = {j}
  BY <1>1, PublishedIs DEF IInv
<1>3. UNCHANGED <<job, upload, review, adding, refused, queue, lock, stalls, poll>>
  BY DEF jobRows, bull
<1>4. pc \in ChildSteps \cup ParentSteps /\ pc \notin Preparing
  BY DEF ChildSteps, Preparing
<1>5. /\ [worker[w] EXCEPT !.pc = pc] \in WorkerStates
      /\ worker' = [worker EXCEPT ![w] = [worker[w] EXCEPT !.pc = pc]]
      /\ worker'[w].pc = pc /\ worker'[w].job = j /\ worker'[w].list = worker[w].list
  BY <1>4, GotoIs
<1>6. worker' \in [Workers -> WorkerStates] /\ \A v \in Workers \ {w} : worker'[v] = worker[v]
  BY <1>5 DEF IInv, TypeOK
<1>. HIDE DEF j
<1>7. TypeOK'
  BY <1>2, <1>3, <1>6 DEF IInv, TypeOK
<1>8. \A x : Committed(x) => Committed(x)' /\ x # j
  BY <1>1, <1>2 DEF Committed
<1>9. \A x \in Surveys : x # j => survey'[x] # "employee"
  BY <1>2 DEF ActiveSurveys
<1>10. RowsInv'
  <2>1. j \in Surveys
    BY <1>1 DEF Surveys
  <2>2. \A i \in Jobs : job'[i] = "absent" =>
          /\ review'[i] = NoReview /\ i \notin adding' /\ queue'[i] = "missing"
          /\ i \notin audit'
    BY <1>1, <1>2, <1>3 DEF IInv, RowsInv
  <2>3. SucceededIsPublished'
    BY <1>2, <1>3 DEF IInv, RowsInv, SucceededIsPublished
  <2>4. \A x \in ActiveSurveys' : Committed(x)'
    BY <1>2 DEF Committed
  <2>. QED
    BY <1>2, <2>1, <2>2, <2>3, <2>4 DEF RowsInv
<1>11. ASSUME NEW v \in Workers \ {w} PROVE WorkerInv(v)'
  BY <1>2, <1>3, <1>6, <1>8, <1>9, WorkerWaits DEF IInv, TypeOK
<1>12. WorkerInv(w)'
  <2>1. worker[w].list \subseteq Surveys /\ \A x \in worker[w].list : Committed(x)
    BY <1>1, Working DEF WorkerInv, WorkerStates
  <2>2. \A x \in worker'[w].list : Committed(x)' /\ survey'[x] # "employee"
    BY <1>5, <1>8, <1>9, <2>1
  <2>. QED
    BY <1>1, <1>2, <1>3, <1>4, <1>5, <2>2 DEF WorkerInv
<1>. QED
  BY <1>7, <1>10, <1>11, <1>12 DEF IInv

LEMMA PublishStep ==
    ASSUME IInv, NEW w \in Workers, Publish(w) \/ PublishUnacknowledged(w)
    PROVE  IInv'
<1>1. worker[w].pc = "publish" /\ UNCHANGED <<jobRows, bull, poll>>
  BY DEF Publish, PublishUnacknowledged, At
<1>2. faults' \in 0..MaxFaults /\ edits' = edits
  <2>1. CASE PublishUnacknowledged(w)
    BY <2>1, FaultCounts DEF PublishUnacknowledged, IInv
  <2>2. CASE Publish(w)
    BY <2>2 DEF Publish, bounds, IInv, TypeOK
  <2>. QED
    BY <2>1, <2>2
<1>3. CASE MayPublish(w) /\ Publish(w)
  BY <1>1, <1>2, <1>3, CommitStep DEF Publish
<1>4. CASE PublishUnacknowledged(w)
  BY <1>1, <1>2, <1>4, CommitStep DEF PublishUnacknowledged
<1>5. CASE ~MayPublish(w) /\ Publish(w)
  <2>1. Goto(w, "unstage") /\ UNCHANGED data
    BY <1>5 DEF Publish
  <2>2. "unstage" \notin Preparing
    BY DEF Preparing
  <2>. QED
    BY <1>1, <1>2, <2>1, <2>2, GotoStep
<1>. QED
  BY <1>3, <1>4, <1>5

-----------------------------------------------------------------------------
(* The theorems *)

LEMMA WorkStep == ASSUME IInv, NEW w \in Workers, Work(w) \/ WorkerFault(w) PROVE IInv'
<1>1. CASE LoadAudit(w) \/ CheckAudit(w)
  BY <1>1, LoadStep
<1>2. CASE LoadJob(w) \/ ReadProgram(w) \/ CheckRevision(w)
  BY <1>2, ReadStep
<1>3. CASE RepairJob(w) \/ StartImport(w) \/ ReportSaved(w) \/ ReportFailed(w) \/ MarkFailed(w)
  BY <1>3, RecordStep
<1>4. CASE Complete(w) \/ Throw(w) \/ WorkerCrash(w)
  BY <1>4, IdleStep
<1>5. CASE Error(w) \/ ChildKilled(w)
  BY <1>5, ErrorStep
<1>6. CASE ClearStaging(w)
  BY <1>6, ClearStep
<1>7. CASE CreateStaging(w)
  BY <1>7, CreateStep
<1>8. CASE InsertRows(w)
  BY <1>8, InsertStep
<1>9. CASE Unstage(w) \/ DeleteRetired(w)
  BY <1>9, CleanStep
<1>10. CASE Publish(w) \/ PublishUnacknowledged(w)
  BY <1>10, PublishStep
<1>. QED
  BY <1>1, <1>2, <1>3, <1>4, <1>5, <1>6, <1>7, <1>8, <1>9, <1>10 DEF Work, WorkerFault

LEMMA IInvInductive == IInv /\ [Next]_vars => IInv'
<1>. SUFFICES ASSUME IInv, [Next]_vars PROVE IInv'
  OBVIOUS
<1>1. ASSUME NEW j \in Jobs, Submit(j) PROVE IInv'
  BY <1>1, SubmitStep
<1>2. ASSUME NEW j \in Jobs,
             \/ QueueAdd(j) \/ QueueAddFails(j) \/ MarkRefused(j) \/ MarkRefusedFails(j)
             \/ EnqueueCrash(j) \/ LoseLock(j) \/ Stalled(j)
      PROVE  IInv'
  BY <1>2, QueueStep
<1>3. ASSUME NEW j \in Jobs, NEW w \in Workers, Take(w, j) PROVE IInv'
  BY <1>3, TakeStep
<1>4. ASSUME NEW j \in Jobs, NEW p \in Pollers, PollRecord(p, j) PROVE IInv'
  BY <1>4, PollStep
<1>5. CASE EditProgram
  BY <1>5, EditStep
<1>6. ASSUME NEW w \in Workers, Work(w) \/ WorkerFault(w) PROVE IInv'
  BY <1>6, WorkStep
<1>7. ASSUME NEW p \in Pollers, Poll(p) \/ PollError(p) PROVE IInv'
  BY <1>7, PollStep, PollWriteStep DEF Poll
<1>8. CASE UNCHANGED vars
  <2>1. UNCHANGED <<job, upload, review, adding, refused, queue, lock, stalls, revision, survey, rows,
                    audit, worker, poll, faults, edits>>
    BY <1>8 DEF vars
  <2>2. TypeOK'
    BY <2>1 DEF IInv, TypeOK
  <2>3. \A i \in Jobs : job'[i] = "absent" =>
          review'[i] = NoReview /\ i \notin adding' /\ queue'[i] = "missing"
    BY <2>1 DEF IInv, RowsInv
  <2>4. \A i \in Jobs : job'[i] = "SUCCEEDED" => i \in audit
    BY <2>1 DEF IInv, RowsInv, SucceededIsPublished
  <2>. QED
    BY <2>1, <2>2, <2>3, <2>4, Frame
<1>. QED
  BY <1>1, <1>2, <1>3, <1>4, <1>5, <1>6, <1>7, <1>8 DEF Next

LEMMA Invariant == Spec => []IInv
<1>. QED
  BY InitIInv, IInvInductive, PTL DEF Spec

\* The types of EfsJobs, for any number of saves, workers and polls.
THEOREM TypeCorrect == Spec => []TypeOK
<1>1. IInv => TypeOK
  BY DEF IInv
<1>. QED
  BY <1>1, Invariant, PTL

\* Readers find exactly one employee survey of the program at every step of any number
\* of saves, also when locks are lost and two attempts of one save overlap.
THEOREM OneActive == Spec => []OneActiveSurvey
<1>1. IInv => OneActiveSurvey
  <2>. SUFFICES ASSUME IInv PROVE Cardinality(ActiveSurveys) = 1
    BY DEF OneActiveSurvey
  <2>1. PICK a \in Surveys : ActiveSurveys = {a}
    BY DEF IInv, RowsInv
  <2>. QED
    BY <2>1, FS_Singleton
<1>. QED
  BY <1>1, Invariant, PTL

\* Whoever writes SUCCEEDED into the record of a save has seen its audit row, or has
\* committed it.
THEOREM SucceededPublished == Spec => []SucceededIsPublished
<1>1. IInv => SucceededIsPublished
  BY DEF IInv, RowsInv
<1>. QED
  BY <1>1, Invariant, PTL

-----------------------------------------------------------------------------
(* EfsJobs implements SurveyPublication *)

\* What the mapping makes of the surveys while one of them is active.
LEMMA ActiveIs ==
    ASSUME NEW s, NEW a \in Surveys, {x \in Surveys : s[x] = "employee"} = {a}
    PROVE  (CHOOSE x \in Surveys : s[x] = "employee") = a
  OBVIOUS

\* A step that leaves the active survey, the revision and the reviews is a stutter.
LEMMA Stutters ==
    ASSUME IInv, ActiveSurveys' = ActiveSurveys, revision' = revision, review' = review
    PROVE  UNCHANGED Publication!vars
<1>1. PICK a \in Surveys : ActiveSurveys = {a}
  BY DEF IInv, RowsInv
<1>2. (CHOOSE x \in Surveys : survey[x] = "employee") = a
  BY <1>1, ActiveIs DEF ActiveSurveys
<1>3. (CHOOSE x \in Surveys : survey'[x] = "employee") = a
  BY <1>1, ActiveIs DEF ActiveSurveys
<1>. QED
  BY <1>2, <1>3 DEF Publication!vars

LEMMA SubmitMaps == ASSUME IInv, NEW j \in Jobs, Submit(j) PROVE Publication!Submit(j)
<1>. DEFINE reviewed == [i \in Jobs |-> review[i].revision]
<1>1. /\ job[j] = "absent" /\ UNCHANGED <<revision, survey>>
      /\ review' = [review EXCEPT ![j] = [revision |-> revision, surveys |-> ActiveSurveys]]
  BY DEF Submit, data
<1>2. review[j].revision = -1
  BY <1>1 DEF IInv, RowsInv, NoReview
<1>3. review'[j].revision = revision /\ \A i \in Jobs \ {j} : review'[i] = review[i]
  BY <1>1 DEF IInv, TypeOK
<1>4. [i \in Jobs |-> review'[i].revision] = [reviewed EXCEPT ![j] = revision]
  BY <1>3
<1>. QED
  BY <1>1, <1>2, <1>4 DEF Publication!Submit, Publication!NotSubmitted

LEMMA EditMaps == ASSUME EditProgram PROVE Publication!EditProgram
  BY DEF EditProgram, Publication!EditProgram, jobRows

LEMMA PublishMaps ==
    ASSUME IInv, NEW w \in Workers, worker[w].pc = "publish", MayPublish(w),
           Published(worker[w].job), UNCHANGED jobRows,
           NEW j, j = worker[w].job
    PROVE  Publication!Publish(j)
<1>1. j \in Jobs /\ j \in Surveys /\ WorkerInv(w)
  BY Working
<1>2. review[j].revision = revision
  BY <1>1 DEF WorkerInv, MayPublish
<1>3. ActiveSurveys' = {j} /\ revision' = revision + 1
  <2>1. ActiveSurveys' = {worker[w].job} /\ revision' = revision + 1
    BY <1>1, PublishedIs DEF IInv
  <2>. QED
    BY <2>1
<1>4. (CHOOSE x \in Surveys : survey'[x] = "employee") = j
  BY <1>1, <1>3, ActiveIs DEF ActiveSurveys
<1>. QED
  BY <1>1, <1>2, <1>3, <1>4 DEF Publication!Publish, jobRows

\* The staging survey and the surveys that were replaced are not the active one.
LEMMA StagingMaps ==
    ASSUME IInv, NEW w \in Workers,
           ClearStaging(w) \/ CreateStaging(w) \/ Unstage(w) \/ DeleteRetired(w)
    PROVE  ActiveSurveys' = ActiveSurveys /\ revision' = revision /\ review' = review
<1>1. revision' = revision /\ review' = review
  BY DEF ClearStaging, CreateStaging, Unstage, DeleteRetired, jobRows
<1>2. CASE ClearStaging(w) \/ Unstage(w)
  <2>1. DeleteStaging(worker[w].job) /\ worker[w].pc # "idle"
    BY <1>2 DEF ClearStaging, Unstage, At
  <2>. QED
    BY <1>1, <2>1, Working, DeleteStagingIs
<1>3. CASE CreateStaging(w)
  <2>1. worker[w].job \in Surveys /\ survey \in [Surveys -> Kinds]
    BY <1>3, Working DEF CreateStaging, At, IInv, TypeOK
  <2>2. \/ survey' = survey
        \/ /\ survey[worker[w].job] = "absent"
           /\ survey' = [survey EXCEPT ![worker[w].job] = "employee-staging"]
    BY <1>3 DEF CreateStaging
  <2>. QED
    BY <1>1, <2>1, <2>2 DEF ActiveSurveys
<1>4. CASE DeleteRetired(w)
  <2>1. \A x \in worker[w].list : survey[x] # "employee"
    BY <1>4, Working DEF WorkerInv, DeleteRetired, At
  <2>2. survey' = [x \in Surveys |-> IF x \in worker[w].list THEN "absent" ELSE survey[x]]
    BY <1>4 DEF DeleteRetired
  <2>. QED
    BY <1>1, <2>1, <2>2 DEF ActiveSurveys
<1>. QED
  BY <1>2, <1>3, <1>4

LEMMA WorkMaps ==
    ASSUME IInv, NEW w \in Workers, Work(w) \/ WorkerFault(w)
    PROVE  [Publication!Next]_(Publication!vars)
<1>1. CASE ClearStaging(w) \/ CreateStaging(w) \/ Unstage(w) \/ DeleteRetired(w)
  BY <1>1, StagingMaps, Stutters
<1>2. ASSUME worker[w].pc = "publish", MayPublish(w), Published(worker[w].job),
             UNCHANGED jobRows
      PROVE  Publication!Next
  <2>1. PICK j \in Jobs : j = worker[w].job
    BY <1>2, Working
  <2>2. Publication!Publish(j)
    BY <1>2, <2>1, PublishMaps
  <2>. QED
    BY <2>1, <2>2 DEF Publication!Next
<1>3. CASE PublishUnacknowledged(w)
  BY <1>2, <1>3 DEF PublishUnacknowledged, At
<1>4. CASE Publish(w) /\ MayPublish(w)
  BY <1>2, <1>4 DEF Publish, At
<1>5. CASE \/ LoadJob(w) \/ LoadAudit(w) \/ RepairJob(w) \/ StartImport(w) \/ ReadProgram(w)
           \/ CheckRevision(w) \/ InsertRows(w) \/ (Publish(w) /\ ~MayPublish(w))
           \/ ReportSaved(w) \/ ReportFailed(w) \/ CheckAudit(w) \/ MarkFailed(w)
           \/ Complete(w) \/ Throw(w) \/ Error(w) \/ ChildKilled(w) \/ WorkerCrash(w)
  <2>1. survey' = survey /\ revision' = revision /\ review' = review
    BY <1>5 DEF LoadJob, LoadAudit, RepairJob, StartImport, ReadProgram, CheckRevision,
                InsertRows, Publish, ReportSaved, ReportFailed, CheckAudit, MarkFailed,
                Complete, Throw, Settle, Error, ChildKilled, WorkerCrash, jobRows, data
  <2>2. ActiveSurveys' = ActiveSurveys
    BY <2>1 DEF ActiveSurveys
  <2>. QED
    BY <2>1, <2>2, Stutters
<1>. QED
  BY <1>1, <1>3, <1>4, <1>5 DEF Work, WorkerFault

LEMMA StepMaps == IInv /\ [Next]_vars => [Publication!Next]_(Publication!vars)
<1>. SUFFICES ASSUME IInv, [Next]_vars PROVE [Publication!Next]_(Publication!vars)
  OBVIOUS
<1>1. ASSUME NEW j \in Jobs, Submit(j) PROVE Publication!Next
  BY <1>1, SubmitMaps DEF Publication!Next
<1>2. CASE EditProgram
  BY <1>2, EditMaps DEF Publication!Next
<1>3. ASSUME NEW w \in Workers, Work(w) \/ WorkerFault(w)
      PROVE  [Publication!Next]_(Publication!vars)
  BY <1>3, WorkMaps
<1>4. ASSUME survey' = survey, revision' = revision, review' = review
      PROVE  [Publication!Next]_(Publication!vars)
  <2>1. ActiveSurveys' = ActiveSurveys
    BY <1>4 DEF ActiveSurveys
  <2>. QED
    BY <1>4, <2>1, Stutters
<1>5. ASSUME NEW j \in Jobs,
             \/ QueueAdd(j) \/ QueueAddFails(j) \/ MarkRefused(j) \/ MarkRefusedFails(j)
             \/ EnqueueCrash(j) \/ LoseLock(j) \/ Stalled(j) \/ (\E w \in Workers : Take(w, j))
             \/ (\E p \in Pollers : PollRecord(p, j))
      PROVE  survey' = survey /\ revision' = revision /\ review' = review
  BY <1>5 DEF QueueAdd, QueueAddFails, MarkRefused, MarkRefusedFails, EnqueueCrash, LoseLock,
              Stalled, Take, PollRecord, jobRows, data
<1>6. ASSUME NEW p \in Pollers, Poll(p) \/ PollError(p)
      PROVE  survey' = survey /\ revision' = revision /\ review' = review
  BY <1>6 DEF Poll, PollAudit, PollSeesJob, PollMissesJob, PollMark, PollError, jobRows, data
<1>7. CASE UNCHANGED vars
  BY <1>4, <1>7 DEF vars
<1>. QED
  BY <1>1, <1>2, <1>3, <1>4, <1>5, <1>6, <1>7 DEF Next

LEMMA InitMaps == Init => Publication!Init
<1>. SUFFICES ASSUME Init PROVE Publication!Init
  OBVIOUS
<1>1. {x \in Surveys : survey[x] = "employee"} = {OldSurvey} /\ OldSurvey \in Surveys
  BY DEF Init, Surveys
<1>2. (CHOOSE x \in Surveys : survey[x] = "employee") = OldSurvey
  BY <1>1, ActiveIs
<1>3. \A j \in Jobs : review[j].revision = -1
  BY DEF Init, NoReview
<1>. QED
  BY <1>2, <1>3 DEF Init, Publication!Init, Publication!NotSubmitted

\* What a save does to the reports is the abstract publication: the active survey is
\* replaced in one step, and only while the program is the one that was reviewed.
THEOREM PublicationImplemented == Spec => ImplementsPublication
  BY InitMaps, StepMaps, Invariant, PTL DEF Spec, ImplementsPublication, Publication!Spec

-----------------------------------------------------------------------------
(* While no instance loses its lock, one attempt of a save runs at a time *)

Fresh == {"load", "audit", "running", "review", "list", "clear", "create"}

\* The attempt owns its save: nobody else publishes it or touches its staged rows.
Attempt(w) ==
    worker[w].pc # "idle" =>
      /\ lock[worker[w].job] = w
      /\ worker[w].pc \in Fresh => worker[w].done = 0
      /\ worker[w].pc \in (Fresh \ {"load", "audit"}) \cup {"rows", "publish"} =>
           worker[w].job \notin audit
      /\ worker[w].pc \in {"rows", "publish"} => rows[worker[w].job] = 1..worker[w].done
      /\ worker[w].pc = "publish" => worker[w].done = Parts

Locked ==
    /\ \A j \in Jobs : lock[j] # None => queue[j] = "active"
    /\ \A j \in adding : queue[j] = "missing"

Filled ==
    /\ \A x \in Surveys : survey[x] = "employee" => rows[x] = 1..Parts
    /\ \A x \in Surveys : survey[x] = "absent" => rows[x] = {}

CInv ==
    /\ IInv
    /\ Locked
    /\ Filled
    /\ \A w \in Workers : Attempt(w)

LEMMA InitCInv == Init => CInv
<1>. SUFFICES ASSUME Init PROVE CInv
  OBVIOUS
<1>1. Locked /\ Filled
  BY DEF Init, Locked, Filled, Surveys
<1>2. \A w \in Workers : Attempt(w)
  BY DEF Init, Attempt, IdleWorker
<1>. QED
  BY <1>1, <1>2, InitIInv DEF CInv

\* Two attempts at work are attempts of different saves.
LEMMA OneAttempt ==
    ASSUME CInv, NEW v \in Workers, NEW w \in Workers, v # w,
           worker[v].pc # "idle", worker[w].pc # "idle"
    PROVE  worker[v].job # worker[w].job
  BY DEF CInv, Attempt

LEMMA AttemptWaits ==
    ASSUME NEW w \in Workers, Attempt(w), worker'[w] = worker[w],
           worker[w].pc # "idle" => /\ lock'[worker[w].job] = lock[worker[w].job]
                                    /\ rows'[worker[w].job] = rows[worker[w].job]
                                    /\ worker[w].job \in audit' => worker[w].job \in audit
    PROVE  Attempt(w)'
  BY DEF Attempt

\* A step that leaves queue, locks, surveys, rows and audit rows alone.
LEMMA AttemptFrame ==
    ASSUME CInv, IInv', UNCHANGED <<bull, survey, rows, audit>>,
           \A w \in Workers : worker'[w] = worker[w] \/ Attempt(w)'
    PROVE  CInv'
<1>1. lock' = lock /\ Locked' /\ Filled'
  BY DEF CInv, Locked, Filled, bull
<1>2. ASSUME NEW w \in Workers PROVE Attempt(w)'
  BY <1>1, AttemptWaits DEF CInv
<1>. QED
  BY <1>1, <1>2 DEF CInv

\* A worker that goes on without new rows.
LEMMA AttemptGoto ==
    ASSUME CInv, NEW w \in Workers, worker[w].pc # "idle",
           NEW pc \in (ChildSteps \cup ParentSteps) \ {"rows", "publish"},
           pc \in Fresh => worker[w].pc \in Fresh,
           pc \in Fresh \ {"load", "audit"} => worker[w].job \notin audit,
           worker'[w].pc = pc, worker'[w].job = worker[w].job, worker'[w].done = worker[w].done,
           lock' = lock, audit' = audit
    PROVE  Attempt(w)'
<1>1. Attempt(w)
  BY DEF CInv
<1>. QED
  BY <1>1 DEF Attempt

LEMMA SmallStep ==
    ASSUME CInv, IInv', NEW w \in Workers,
           \/ LoadJob(w) \/ LoadAudit(w) \/ RepairJob(w) \/ StartImport(w)
           \/ ReadProgram(w) \/ CheckRevision(w) \/ ReportSaved(w) \/ ReportFailed(w)
           \/ CheckAudit(w) \/ MarkFailed(w) \/ Error(w) \/ ChildKilled(w)
           \/ (Publish(w) /\ ~MayPublish(w))
    PROVE  CInv'
<1>1. worker[w].pc # "idle" /\ UNCHANGED <<bull, survey, rows, audit>>
  BY DEF LoadJob, LoadAudit, RepairJob, StartImport, ReadProgram, CheckRevision, ReportSaved,
         ReportFailed, CheckAudit, MarkFailed, Error, ChildKilled, Publish, At, ChildSteps, data
<1>2. Attempt(w) /\ worker[w] \in WorkerStates /\ IInv /\ lock' = lock
      /\ worker \in [Workers -> WorkerStates]
  BY <1>1 DEF CInv, IInv, TypeOK, bull
<1>3. CASE ReadProgram(w)
  <2>1. /\ worker'[w].pc \in {"list", "fail"} /\ worker'[w].job = worker[w].job
        /\ worker'[w].done = worker[w].done /\ worker[w].pc = "review"
        /\ \A v \in Workers \ {w} : worker'[v] = worker[v]
    BY <1>2, <1>3 DEF ReadProgram, At, WorkerStates
  <2>2. worker[w].job \notin audit
    BY <1>1, <1>2, <2>1 DEF Attempt, Fresh
  <2>3. Attempt(w)'
    BY <1>1, <1>2, <2>1, <2>2, AttemptGoto DEF Fresh, ChildSteps
  <2>. QED
    BY <1>1, <2>1, <2>3, AttemptFrame
<1>4. CASE CheckRevision(w)
  <2>1. /\ worker'[w].pc \in {"clear", "fail"} /\ worker'[w].job = worker[w].job
        /\ worker'[w].done = worker[w].done /\ worker[w].pc = "list"
        /\ \A v \in Workers \ {w} : worker'[v] = worker[v]
    BY <1>2, <1>4 DEF CheckRevision, At, WorkerStates
  <2>2. worker[w].job \notin audit
    BY <1>1, <1>2, <2>1 DEF Attempt, Fresh
  <2>3. Attempt(w)'
    BY <1>1, <1>2, <2>1, <2>2, AttemptGoto DEF Fresh, ChildSteps
  <2>. QED
    BY <1>1, <2>1, <2>3, AttemptFrame
<1>5. ASSUME NEW pc \in (ChildSteps \cup ParentSteps) \ {"rows", "publish"}, Goto(w, pc),
             pc \in Fresh => worker[w].pc \in Fresh,
             pc \in Fresh \ {"load", "audit"} => worker[w].job \notin audit
      PROVE  CInv'
  <2>1. /\ worker'[w].pc = pc /\ worker'[w].job = worker[w].job
        /\ worker'[w].done = worker[w].done
        /\ worker' = [worker EXCEPT ![w] = [worker[w] EXCEPT !.pc = pc]]
    BY <1>2, <1>5, GotoIs
  <2>2. Attempt(w)'
    BY <1>1, <1>2, <1>5, <2>1, AttemptGoto
  <2>. QED
    BY <1>1, <1>2, <2>1, <2>2, AttemptFrame
<1>9. CASE LoadJob(w)
  <2>1. /\ worker'[w].pc \in {"completed", "audit"} /\ worker'[w].job = worker[w].job
        /\ worker'[w].done = worker[w].done /\ worker[w].pc = "load"
        /\ \A v \in Workers \ {w} : worker'[v] = worker[v]
    BY <1>2, <1>9 DEF LoadJob, At, WorkerStates
  <2>2. Attempt(w)'
    BY <1>1, <1>2, <2>1, AttemptGoto DEF Fresh, ChildSteps, ParentSteps
  <2>. QED
    BY <1>1, <2>1, <2>2, AttemptFrame
<1>6. CASE LoadAudit(w)
  <2>1. PICK pc \in {"repair", "running"} :
          /\ Goto(w, pc) /\ (pc = "running" => worker[w].job \notin audit)
          /\ worker[w].pc = "audit"
    BY <1>6 DEF LoadAudit, At
  <2>. QED
    BY <1>5, <2>1 DEF Fresh, ChildSteps, ParentSteps
<1>7. CASE StartImport(w)
  <2>1. Goto(w, "review") /\ worker[w].pc = "running"
    BY <1>7 DEF StartImport, At
  <2>2. worker[w].job \notin audit
    BY <1>1, <1>2, <2>1 DEF Attempt, Fresh
  <2>. QED
    BY <1>5, <2>1, <2>2 DEF Fresh, ChildSteps
<1>8. CASE \/ RepairJob(w) \/ ReportSaved(w) \/ ReportFailed(w) \/ CheckAudit(w)
           \/ MarkFailed(w) \/ Error(w) \/ ChildKilled(w) \/ (Publish(w) /\ ~MayPublish(w))
  <2>1. PICK pc \in {"completed", "caught", "mark", "throw", "fail", "unstage", "saved"} :
          Goto(w, pc)
    <3>1. worker[w].pc \in ChildSteps \cup ParentSteps
      BY <1>1, <1>2 DEF WorkerStates
    <3>2. CASE Error(w)
      BY <3>1, <3>2 DEF Error, AfterError, ChildSteps, ParentSteps
    <3>3. CASE CheckAudit(w)
      BY <3>3 DEF CheckAudit
    <3>. QED
      BY <1>8, <3>2, <3>3 DEF RepairJob, ReportSaved, ReportFailed, MarkFailed, ChildKilled,
                              Publish
  <2>. QED
    BY <1>5, <2>1 DEF Fresh, ChildSteps, ParentSteps
<1>. QED
  BY <1>3, <1>4, <1>6, <1>7, <1>8, <1>9

\* Steps of submission, of the queue and of instances that take, settle or lose a job.
LEMMA LockStep ==
    ASSUME CInv, IInv', "lock" \notin Faults,
           \/ \E j \in Jobs : \/ Submit(j) \/ QueueAdd(j) \/ QueueAddFails(j)
                              \/ MarkRefused(j) \/ MarkRefusedFails(j)
                              \/ EnqueueCrash(j) \/ LoseLock(j) \/ Stalled(j)
           \/ \E w \in Workers : Complete(w) \/ Throw(w) \/ WorkerCrash(w)
    PROVE  CInv'
<1>1. UNCHANGED <<survey, rows, audit>>
  BY DEF Submit, QueueAdd, QueueAddFails, MarkRefused, MarkRefusedFails, EnqueueCrash,
         LoseLock, Stalled, Complete, Throw, Settle, WorkerCrash, data
<1>2. Filled'
  BY <1>1 DEF CInv, Filled
<1>3. /\ TypeOK /\ Locked /\ \A v \in Workers : Attempt(v)
  BY DEF CInv, IInv
<1>4. ASSUME NEW j \in Jobs, Submit(j) PROVE CInv'
  <2>1. queue[j] = "missing"
    BY <1>4 DEF Submit, CInv, IInv, RowsInv
  <2>2. adding' = adding \cup {j} /\ queue' = queue /\ lock' = lock /\ worker' = worker
    BY <1>4 DEF Submit
  <2>3. Locked'
    BY <1>3, <2>1, <2>2 DEF Locked
  <2>. QED
    BY <1>1, <1>2, <1>3, <2>2, <2>3, AttemptWaits DEF CInv
<1>9. ASSUME NEW j \in Jobs, MarkRefused(j) \/ MarkRefusedFails(j) \/ EnqueueCrash(j)
      PROVE  CInv'
  <2>1. adding' \subseteq adding /\ queue' = queue /\ lock' = lock /\ worker' = worker
    BY <1>9 DEF MarkRefused, MarkRefusedFails, EnqueueCrash
  <2>2. Locked'
    BY <1>3, <2>1 DEF Locked
  <2>. QED
    BY <1>1, <1>2, <1>3, <2>1, <2>2, AttemptWaits DEF CInv
<1>5. ASSUME NEW j \in Jobs, QueueAdd(j) \/ QueueAddFails(j) PROVE CInv'
  <2>1. /\ j \in adding /\ adding' = adding \ {j} /\ lock' = lock /\ worker' = worker
        /\ queue' = queue \/ queue' = [queue EXCEPT ![j] = "waiting"]
    BY <1>5 DEF QueueAdd, QueueAddFails
  <2>2. Locked'
    BY <1>3, <2>1 DEF Locked, TypeOK
  <2>. QED
    BY <1>1, <1>2, <1>3, <2>1, <2>2, AttemptWaits DEF CInv
<1>6. ASSUME NEW j \in Jobs, LoseLock(j) PROVE CInv'
  BY <1>6 DEF LoseLock, Fault
<1>7. ASSUME NEW j \in Jobs, Stalled(j) PROVE CInv'
  <2>1. /\ lock[j] = None /\ adding' = adding /\ lock' = lock /\ worker' = worker
        /\ queue[j] = "active" /\ \A i \in Jobs \ {j} : queue'[i] = queue[i]
    BY <1>3, <1>7 DEF Stalled, TypeOK
  <2>2. Locked'
    BY <1>3, <2>1 DEF Locked, TypeOK
  <2>. QED
    BY <1>1, <1>2, <1>3, <2>1, <2>2, AttemptWaits DEF CInv
<1>8. ASSUME NEW w \in Workers, Complete(w) \/ Throw(w) \/ WorkerCrash(w) PROVE CInv'
  <2>1. /\ worker[w].pc # "idle" /\ worker' = [worker EXCEPT ![w] = IdleWorker]
        /\ adding' = adding
    BY <1>8 DEF Complete, Throw, Settle, WorkerCrash, At
  <2>2. lock[worker[w].job] = w /\ worker[w].job \in Jobs /\ None \notin Workers
    BY <1>3, <2>1, Working, EfsAssumption DEF CInv, Attempt
  <2>3. /\ \A i \in Jobs : lock'[i] # None => lock'[i] = lock[i]
        /\ \A i \in Jobs : lock[i] # w => lock'[i] = lock[i]
        /\ \A i \in Jobs : queue'[i] = queue[i] \/ (lock[i] = w /\ lock'[i] = None)
    <3>1. ASSUME NEW state, Settle(w, state)
          PROVE  /\ \A i \in Jobs : lock'[i] # None => lock'[i] = lock[i]
                 /\ \A i \in Jobs : lock[i] # w => lock'[i] = lock[i]
                 /\ \A i \in Jobs : queue'[i] = queue[i] \/ (lock[i] = w /\ lock'[i] = None)
      BY <1>3, <2>2, <3>1 DEF Settle, TypeOK
    <3>2. CASE WorkerCrash(w)
      BY <1>3, <3>2 DEF WorkerCrash, TypeOK
    <3>. QED
      BY <1>8, <3>1, <3>2 DEF Complete, Throw
  <2>4. Locked'
    <3>1. \A i \in Jobs : lock'[i] # None => queue'[i] = "active"
      BY <1>3, <2>3 DEF Locked
    <3>2. \A i \in adding : queue'[i] = "missing"
      BY <1>3, <2>2, <2>3 DEF Locked, TypeOK
    <3>. QED
      BY <2>1, <3>1, <3>2 DEF Locked
  <2>5. ASSUME NEW v \in Workers PROVE Attempt(v)'
    <3>1. CASE v = w
      BY <1>3, <2>1, <3>1, IdleWorkerOK DEF TypeOK, Attempt
    <3>2. CASE v # w
      <4>1. worker'[v] = worker[v]
        BY <1>3, <2>1, <3>2 DEF TypeOK
      <4>2. worker[v].pc # "idle" => lock[worker[v].job] = v /\ worker[v].job \in Jobs
        BY <1>3, Working DEF CInv, Attempt
      <4>3. worker[v].pc # "idle" => lock'[worker[v].job] = lock[worker[v].job]
        BY <2>3, <3>2, <4>2
      <4>. QED
        BY <1>1, <1>3, <4>1, <4>3, AttemptWaits
    <3>. QED
      BY <3>1, <3>2
  <2>. QED
    BY <1>2, <2>4, <2>5 DEF CInv
<1>. QED
  BY <1>4, <1>5, <1>6, <1>7, <1>8, <1>9

LEMMA TakeLocks ==
    ASSUME CInv, IInv', NEW w \in Workers, NEW j \in Jobs, Take(w, j)
    PROVE  CInv'
<1>. DEFINE new == [IdleWorker EXCEPT !.job = j, !.pc = "load"]
<1>1. new.job = j /\ new.pc = "load" /\ new.done = 0
  BY DEF IdleWorker
<1>2. /\ worker[w].pc = "idle" /\ queue[j] = "waiting"
      /\ queue' = [queue EXCEPT ![j] = "active"] /\ lock' = [lock EXCEPT ![j] = w]
      /\ worker' = [worker EXCEPT ![w] = new]
      /\ UNCHANGED <<survey, rows, audit, adding>>
  BY DEF Take, new, data
<1>. HIDE DEF new
<1>3. TypeOK /\ Locked /\ Filled' /\ \A v \in Workers : Attempt(v)
  BY <1>2 DEF CInv, IInv, Filled
<1>4. lock[j] = None /\ j \notin adding
  BY <1>2, <1>3 DEF Locked
<1>5. Locked'
  BY <1>2, <1>3, <1>4 DEF Locked, TypeOK
<1>6. Attempt(w)'
  <2>1. worker'[w] = new /\ lock'[j] = w
    BY <1>2, <1>3 DEF TypeOK
  <2>. QED
    BY <1>1, <2>1 DEF Attempt, Fresh
<1>7. ASSUME NEW v \in Workers \ {w} PROVE Attempt(v)'
  <2>1. worker'[v] = worker[v]
    BY <1>2, <1>3 DEF TypeOK
  <2>2. worker[v].pc # "idle" => worker[v].job \in Jobs /\ worker[v].job # j
    BY <1>3, <1>4, Working, EfsAssumption DEF CInv, Attempt
  <2>3. worker[v].pc # "idle" => lock'[worker[v].job] = lock[worker[v].job]
    BY <1>2, <1>3, <2>2 DEF TypeOK
  <2>. QED
    BY <1>2, <1>3, <2>1, <2>3, AttemptWaits
<1>. QED
  BY <1>3, <1>5, <1>6, <1>7 DEF CInv

\* An attempt changes the rows of its own save only, or of surveys that were replaced.
LEMMA DataFrame ==
    ASSUME CInv, IInv', NEW w \in Workers, worker[w].pc # "idle", UNCHANGED bull, Filled',
           \A v \in Workers \ {w} : worker'[v] = worker[v], Attempt(w)',
           \A j \in Jobs \ {worker[w].job} : j \in audit' => j \in audit,
           \A v \in Workers \ {w} : worker[v].pc \in {"rows", "publish"} =>
                                        rows'[worker[v].job] = rows[worker[v].job]
    PROVE  CInv'
<1>1. lock' = lock /\ Locked'
  BY DEF CInv, Locked, bull
<1>2. ASSUME NEW v \in Workers \ {w} PROVE Attempt(v)'
  <2>1. Attempt(v) /\ worker'[v] = worker[v]
    BY DEF CInv
  <2>2. worker[v].pc # "idle" => worker[v].job \in Jobs \ {worker[w].job}
    BY OneAttempt, Working DEF CInv
  <2>. QED
    BY <1>1, <2>1, <2>2 DEF Attempt
<1>. QED
  BY <1>1, <1>2 DEF CInv

LEMMA DeleteStagingFills ==
    ASSUME CInv, NEW j \in Jobs, DeleteStaging(j)
    PROVE  Filled' /\ \A i \in Jobs \ {j} : rows'[i] = rows[i]
<1>1. Filled /\ survey \in [Surveys -> Kinds] /\ rows \in [Surveys -> SUBSET (1..Parts)]
  BY DEF CInv, IInv, TypeOK
<1>2. j \in Surveys /\ Jobs \subseteq Surveys
  BY DEF Surveys
<1>3. CASE survey[j] = "employee-staging"
  BY <1>1, <1>2, <1>3 DEF DeleteStaging, Filled
<1>4. CASE survey[j] # "employee-staging"
  BY <1>1, <1>4 DEF DeleteStaging, Filled
<1>. QED
  BY <1>3, <1>4

LEMMA ClearFills ==
    ASSUME CInv, IInv', NEW w \in Workers, ClearStaging(w) \/ Unstage(w)
    PROVE  CInv'
<1>1. PICK pc \in {"create", "fail"} :
        /\ Goto(w, pc) /\ (pc = "create" => worker[w].pc = "clear")
        /\ worker[w].pc # "idle" /\ DeleteStaging(worker[w].job)
        /\ bull' = bull /\ audit' = audit
  BY DEF ClearStaging, Unstage, At
<1>2. IInv /\ Attempt(w) /\ worker[w].job \in Jobs /\ worker \in [Workers -> WorkerStates]
  BY <1>1, Working DEF CInv, IInv, TypeOK
<1>3. pc \in (ChildSteps \cup ParentSteps) \ {"rows", "publish"}
  BY DEF ChildSteps
<1>4. /\ worker'[w].pc = pc /\ worker'[w].job = worker[w].job
      /\ worker'[w].done = worker[w].done
      /\ worker' = [worker EXCEPT ![w] = [worker[w] EXCEPT !.pc = pc]]
  BY <1>1, <1>2, <1>3, GotoIs
<1>5. \A v \in Workers \ {w} : worker'[v] = worker[v]
  BY <1>2, <1>4
<1>6. Attempt(w)'
  <2>1. lock' = lock
    BY <1>1 DEF bull
  <2>2. worker[w].pc = "clear" => worker[w].pc \in Fresh /\ worker[w].job \notin audit
    BY <1>1, <1>2 DEF Attempt, Fresh
  <2>3. "fail" \notin Fresh
    BY DEF Fresh
  <2>. QED
    BY <1>1, <1>3, <1>4, <2>1, <2>2, <2>3, AttemptGoto
<1>7. Filled' /\ \A i \in Jobs \ {worker[w].job} : rows'[i] = rows[i]
  BY <1>1, <1>2, DeleteStagingFills
<1>8. \A v \in Workers \ {w} : worker[v].pc \in {"rows", "publish"} =>
                                   rows'[worker[v].job] = rows[worker[v].job]
  BY <1>1, <1>2, <1>7, OneAttempt, Working
<1>. QED
  BY <1>1, <1>5, <1>6, <1>7, <1>8, DataFrame

LEMMA CreateFills == ASSUME CInv, IInv', NEW w \in Workers, CreateStaging(w) PROVE CInv'
<1>. DEFINE j == worker[w].job
<1>1. worker[w].pc = "create" /\ UNCHANGED <<bull, rows, audit>>
  BY DEF CreateStaging, At
<1>2. /\ IInv /\ Attempt(w) /\ j \in Jobs /\ j \in Surveys /\ Filled
      /\ worker \in [Workers -> WorkerStates] /\ survey \in [Surveys -> Kinds]
  BY <1>1, Working DEF CInv, IInv, TypeOK
<1>3. j \notin audit /\ worker[w].done = 0 /\ lock[j] = w /\ lock' = lock
  BY <1>1, <1>2 DEF Attempt, Fresh, bull
<1>4. PICK pc \in {"rows", "unstage"} :
        /\ Goto(w, pc)
        /\ \/ pc = "unstage" /\ survey' = survey
           \/ /\ pc = "rows" /\ survey[j] = "absent"
              /\ survey' = [survey EXCEPT ![j] = "employee-staging"]
  BY DEF CreateStaging
<1>5. pc \in ChildSteps \cup ParentSteps
  BY DEF ChildSteps
<1>6. /\ worker'[w].pc = pc /\ worker'[w].job = j /\ worker'[w].done = worker[w].done
      /\ worker' = [worker EXCEPT ![w] = [worker[w] EXCEPT !.pc = pc]]
  BY <1>2, <1>4, <1>5, GotoIs
<1>7. \A v \in Workers \ {w} : worker'[v] = worker[v]
  BY <1>2, <1>6
<1>. HIDE DEF j
<1>8. Filled'
  BY <1>1, <1>2, <1>4 DEF Filled
<1>9. Attempt(w)'
  <2>1. pc = "rows" => rows[j] = 1..worker[w].done
    <3>1. 1..0 = {}
      OBVIOUS
    <3>. QED
      BY <1>2, <1>3, <1>4, <3>1 DEF Filled
  <2>2. /\ pc \notin Fresh /\ pc # "publish" /\ lock'[j] = w /\ rows' = rows
        /\ j \notin audit'
    BY <1>1, <1>3 DEF Fresh
  <2>. QED
    BY <1>6, <2>1, <2>2 DEF Attempt
<1>. QED
  BY <1>1, <1>7, <1>8, <1>9, DataFrame

LEMMA InsertFills == ASSUME CInv, IInv', NEW w \in Workers, InsertRows(w) PROVE CInv'
<1>. DEFINE j == worker[w].job
            part == worker[w].done + 1
            next == IF part = Parts THEN "publish" ELSE "rows"
<1>1. worker[w].pc = "rows" /\ UNCHANGED <<bull, survey, audit>>
  BY DEF InsertRows, At
<1>2. /\ IInv /\ Attempt(w) /\ WorkerInv(w) /\ j \in Jobs /\ j \in Surveys /\ Filled
      /\ worker \in [Workers -> WorkerStates] /\ worker[w] \in WorkerStates
      /\ rows \in [Surveys -> SUBSET (1..Parts)]
  BY <1>1, Working DEF CInv, IInv, TypeOK
<1>3. /\ j \notin audit /\ lock[j] = w /\ lock' = lock /\ rows[j] = 1..worker[w].done
      /\ worker[w].done \in 0..Parts /\ worker[w].done < Parts
  BY <1>1, <1>2 DEF Attempt, Fresh, bull, WorkerStates, WorkerInv, Preparing
<1>4. /\ part \in 1..Parts /\ part \notin 1..worker[w].done
      /\ (1..worker[w].done) \cup {part} = 1..part
  BY <1>3, EfsAssumption
<1>5. CASE ~(survey[j] # "absent" /\ part \notin rows[j])
  <2>1. Goto(w, "unstage") /\ rows' = rows
    BY <1>5 DEF InsertRows
  <2>2. "unstage" \in (ChildSteps \cup ParentSteps) \ {"rows", "publish"} /\ "unstage" \notin Fresh
    BY DEF ChildSteps, Fresh
  <2>3. /\ worker'[w].pc = "unstage" /\ worker'[w].job = j /\ worker'[w].done = worker[w].done
        /\ worker' = [worker EXCEPT ![w] = [worker[w] EXCEPT !.pc = "unstage"]]
    BY <1>2, <2>1, <2>2, GotoIs
  <2>4. Attempt(w)'
    BY <1>1, <1>3, <2>2, <2>3, AttemptGoto
  <2>. QED
    BY <1>1, <1>2, <2>1, <2>3, <2>4, AttemptFrame
<1>6. CASE survey[j] # "absent" /\ part \notin rows[j]
  <2>1. /\ rows' = [rows EXCEPT ![j] = @ \cup {part}]
        /\ worker' = [worker EXCEPT ![w].done = part, ![w].pc = next]
    BY <1>6 DEF InsertRows
  <2>2. /\ worker'[w].done = part /\ worker'[w].pc = next /\ worker'[w].job = j
        /\ \A v \in Workers \ {w} : worker'[v] = worker[v]
    BY <1>2, <2>1 DEF WorkerStates
  <2>3. /\ next \in {"publish", "rows"} /\ (next = "publish" => part = Parts)
    OBVIOUS
  <2>. HIDE DEF next
  <2>4. rows'[j] = 1..part /\ \A x \in Surveys \ {j} : rows'[x] = rows[x]
    BY <1>2, <1>3, <1>4, <2>1
  <2>5. survey[j] # "employee"
    BY <1>2, <1>4, <1>6 DEF Filled
  <2>. HIDE DEF part, j
  <2>6. Filled'
    BY <1>1, <1>2, <1>6, <2>4, <2>5 DEF Filled
  <2>7. Attempt(w)'
    <3>1. next \notin Fresh /\ j \notin audit' /\ lock'[j] = w
      BY <1>1, <1>3, <2>3 DEF Fresh
    <3>. QED
      BY <2>2, <2>3, <2>4, <3>1 DEF Attempt
  <2>8. \A v \in Workers \ {w} : worker[v].pc \in {"rows", "publish"} =>
                                     rows'[worker[v].job] = rows[worker[v].job]
    BY <1>1, <1>2, <2>4, OneAttempt, Working DEF j
  <2>. QED
    BY <1>1, <2>2, <2>6, <2>7, <2>8, DataFrame
<1>. QED
  BY <1>5, <1>6

LEMMA CommitFills ==
    ASSUME CInv, IInv', NEW w \in Workers,
           \/ Publish(w) /\ MayPublish(w)
           \/ PublishUnacknowledged(w)
    PROVE  CInv'
<1>. DEFINE j == worker[w].job
<1>1. /\ worker[w].pc = "publish" /\ bull' = bull /\ Published(j)
      /\ \E pc \in {"retire", "unstage"} : Goto(w, pc)
  BY DEF Publish, PublishUnacknowledged, At
<1>2. /\ IInv /\ TypeOK /\ Attempt(w) /\ j \in Jobs /\ j \in Surveys /\ Filled
      /\ worker \in [Workers -> WorkerStates] /\ survey \in [Surveys -> Kinds]
  BY <1>1, Working DEF CInv, IInv, TypeOK
<1>3. lock[j] = w /\ lock' = lock /\ rows[j] = 1..Parts
  BY <1>1, <1>2 DEF Attempt, bull
<1>4. /\ rows' = rows /\ audit' = audit \cup {j}
      /\ \A x \in Surveys : /\ survey'[x] = "employee" => x = j
                            /\ survey'[x] = "absent" => survey[x] = "absent"
  BY <1>2, <1>1 DEF Published
<1>5. PICK pc \in {"retire", "unstage"} : Goto(w, pc)
  BY <1>1
<1>6. pc \in ChildSteps \cup ParentSteps /\ pc \notin Fresh
  BY DEF ChildSteps, Fresh
<1>7. /\ worker'[w].pc = pc /\ worker'[w].job = j
      /\ worker' = [worker EXCEPT ![w] = [worker[w] EXCEPT !.pc = pc]]
  BY <1>2, <1>5, <1>6, GotoIs
<1>8. \A v \in Workers \ {w} : worker'[v] = worker[v]
  BY <1>2, <1>7
<1>9. Filled'
  BY <1>2, <1>3, <1>4 DEF Filled
<1>10. Attempt(w)'
  BY <1>3, <1>6, <1>7 DEF Attempt
<1>. QED
  BY <1>1, <1>4, <1>8, <1>9, <1>10, DataFrame

LEMMA RetireFills == ASSUME CInv, IInv', NEW w \in Workers, DeleteRetired(w) PROVE CInv'
<1>1. /\ worker[w].pc = "retire" /\ Goto(w, "saved") /\ UNCHANGED <<bull, audit>>
      /\ survey' = [x \in Surveys |-> IF x \in worker[w].list THEN "absent" ELSE survey[x]]
      /\ rows' = [x \in Surveys |-> IF x \in worker[w].list THEN {} ELSE rows[x]]
  BY DEF DeleteRetired, At
<1>2. /\ IInv /\ Attempt(w) /\ WorkerInv(w) /\ Filled /\ worker \in [Workers -> WorkerStates]
  BY <1>1, Working DEF CInv, IInv, TypeOK
<1>3. Filled'
  BY <1>1, <1>2 DEF Filled
<1>4. "saved" \in (ChildSteps \cup ParentSteps) \ {"rows", "publish"} /\ "saved" \notin Fresh
  BY DEF ChildSteps, Fresh
<1>5. /\ worker'[w].pc = "saved" /\ worker'[w].job = worker[w].job
      /\ worker'[w].done = worker[w].done
      /\ worker' = [worker EXCEPT ![w] = [worker[w] EXCEPT !.pc = "saved"]]
  BY <1>1, <1>2, <1>4, GotoIs
<1>6. \A v \in Workers \ {w} : worker'[v] = worker[v]
  BY <1>2, <1>5
<1>7. Attempt(w)'
  <2>1. lock' = lock /\ audit' = audit
    BY <1>1 DEF bull
  <2>. QED
    BY <1>1, <1>4, <1>5, <2>1, AttemptGoto
<1>8. ASSUME NEW v \in Workers \ {w}, worker[v].pc \in {"rows", "publish"}
      PROVE  rows'[worker[v].job] = rows[worker[v].job]
  <2>1. worker[v].job \in Jobs /\ worker[v].job \in Surveys /\ worker[v].job # OldSurvey
    BY <1>2, <1>8, Working, EfsAssumption
  <2>2. worker[v].job \notin audit
    BY <1>8 DEF CInv, Attempt, Fresh
  <2>3. worker[v].job \notin worker[w].list
    BY <1>2, <2>1, <2>2 DEF WorkerInv, Committed
  <2>. QED
    BY <1>1, <2>1, <2>3
<1>. QED
  BY <1>1, <1>3, <1>6, <1>7, <1>8, DataFrame

LEMMA CInvInductive ==
    ASSUME "lock" \notin Faults
    PROVE  CInv /\ [Next]_vars => CInv'
<1>. SUFFICES ASSUME CInv, [Next]_vars PROVE CInv'
  OBVIOUS
<1>1. IInv'
  BY IInvInductive DEF CInv
<1>2. ASSUME NEW j \in Jobs,
             \/ Submit(j) \/ QueueAdd(j) \/ QueueAddFails(j) \/ MarkRefused(j)
             \/ MarkRefusedFails(j) \/ EnqueueCrash(j) \/ LoseLock(j) \/ Stalled(j)
      PROVE  CInv'
  BY <1>1, <1>2, LockStep
<1>3. ASSUME NEW j \in Jobs, NEW w \in Workers, Take(w, j) PROVE CInv'
  BY <1>1, <1>3, TakeLocks
<1>4. ASSUME UNCHANGED <<bull, survey, rows, audit, worker>> PROVE CInv'
  BY <1>1, <1>4, AttemptFrame
<1>5. ASSUME NEW p \in Pollers,
             Poll(p) \/ PollError(p) \/ (\E j \in Jobs : PollRecord(p, j))
      PROVE  CInv'
  BY <1>4, <1>5 DEF Poll, PollAudit, PollSeesJob, PollMissesJob, PollMark, PollError,
                    PollRecord, data
<1>6. CASE EditProgram
  BY <1>4, <1>6 DEF EditProgram
<1>7. CASE UNCHANGED vars
  BY <1>4, <1>7 DEF vars, bull
<1>8. ASSUME NEW w \in Workers, Work(w) \/ WorkerFault(w) PROVE CInv'
  <2>1. CASE Complete(w) \/ Throw(w) \/ WorkerCrash(w)
    BY <1>1, <2>1, LockStep
  <2>2. CASE ClearStaging(w) \/ Unstage(w)
    BY <1>1, <2>2, ClearFills
  <2>3. CASE CreateStaging(w)
    BY <1>1, <2>3, CreateFills
  <2>4. CASE InsertRows(w)
    BY <1>1, <2>4, InsertFills
  <2>5. CASE (Publish(w) /\ MayPublish(w)) \/ PublishUnacknowledged(w)
    BY <1>1, <2>5, CommitFills
  <2>6. CASE DeleteRetired(w)
    BY <1>1, <2>6, RetireFills
  <2>7. CASE \/ LoadJob(w) \/ LoadAudit(w) \/ RepairJob(w) \/ StartImport(w)
             \/ ReadProgram(w) \/ CheckRevision(w) \/ ReportSaved(w) \/ ReportFailed(w)
             \/ CheckAudit(w) \/ MarkFailed(w) \/ Error(w) \/ ChildKilled(w)
             \/ (Publish(w) /\ ~MayPublish(w))
    BY <1>1, <2>7, SmallStep
  <2>. QED
    BY <1>8, <2>1, <2>2, <2>3, <2>4, <2>5, <2>6, <2>7 DEF Work, WorkerFault
<1>. QED
  BY <1>2, <1>3, <1>5, <1>6, <1>7, <1>8 DEF Next

\* While no living instance loses its BullMQ lock, what the reports read has all the
\* rows of its workbook: through errors, kills, crashes and unacknowledged commits.
THEOREM ActiveComplete ==
    ASSUME "lock" \notin Faults
    PROVE  Spec => []ActiveIsComplete
<1>1. CInv => ActiveIsComplete
  BY DEF CInv, Filled, ActiveIsComplete, ActiveSurveys
<1>. QED
  BY <1>1, InitCInv, CInvInductive, PTL DEF Spec
=============================================================================
