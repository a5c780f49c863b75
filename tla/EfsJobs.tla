------------------------------- MODULE EfsJobs -------------------------------
(***************************************************************************)
(* Saving a re-uploaded employee survey (EFS) of one program:               *)
(* ProgramEfsJobs (enqueue, status), ProgramEfsWorker (the BullMQ side and   *)
(* the import that runs in a child process) and reuploadProgramEfs().        *)
(*                                                                          *)
(* A worker is one API instance with its single import child.  Handlers are *)
(* cut at their awaits; an instance or a child may die between two of them, *)
(* a call may fail, and BullMQ may take a job for stalled and run it again. *)
(***************************************************************************)
EXTENDS Integers, FiniteSets

CONSTANTS
    Jobs,        \* saves; the survey a save creates has a deterministic id: the save's
    Workers,     \* API instances
    Pollers,     \* browsers that ask for a job's status
    OldSurvey,   \* the survey that is active before these saves
    None,        \* no job, no worker
    Faults,      \* the kinds of faults that may occur
    MaxFaults,   \* bound: faults that occur
    MaxEdits,    \* bound: other changes of the program
    Parts        \* bound: batches of rows that a workbook is inserted in

FaultKinds == {"error",    \* an awaited database or Redis call rejects
               "unacked",  \* a transaction commits, its caller gets an error
               "kill",     \* the import child dies (memory limit)
               "crash",    \* the API instance dies, and its child with it
               "lock"}     \* a living instance loses its BullMQ job lock

ASSUME EfsAssumption ==
    /\ OldSurvey \notin Jobs
    /\ None \notin Jobs \cup Workers
    /\ Faults \subseteq FaultKinds
    /\ MaxFaults \in Nat
    /\ MaxEdits \in Nat
    /\ Parts \in Nat \ {0}

Surveys == Jobs \cup {OldSurvey}

VARIABLES
    job,        \* SyncJob.status of each save ("absent": not submitted)
    upload,     \* saves whose input still holds the workbook
    review,     \* the revision of the preview that each save was submitted with
    adding,     \* saves whose enqueue() is about to call queue.add
    refused,    \* saves whose queue.add was rejected, and which enqueue() will mark
    queue,      \* the BullMQ state of each save
    lock,       \* the worker that holds the BullMQ lock of each save
    stalls,     \* how often BullMQ found each save stalled
    revision,   \* Program.updatedAt
    survey,     \* metadata.kind of each survey ("absent": no row)
    rows,       \* the batches of rows each survey has
    audit,      \* saves with a SUCCEEDED "efs-reupload" SyncJob
    worker,     \* what each worker is doing
    poll,       \* what each poller is doing
    faults,     \* faults so far
    edits       \* other changes of the program so far

jobRows  == <<job, upload, review>>
bull     == <<adding, refused, queue, lock, stalls>>
data     == <<revision, survey, rows, audit>>
bounds   == <<faults, edits>>
vars == <<job, upload, review, adding, refused, queue, lock, stalls, revision, survey,
          rows, audit, worker, poll, faults, edits>>

JobStatuses == {"absent", "PENDING", "RUNNING", "SUCCEEDED", "FAILED"}
QueueStates == {"missing", "waiting", "active", "failed"}
Kinds       == {"absent", "employee-staging", "employee", "replaced-employee"}

\* The selector of active surveys (surveyWhere).
ActiveSurveys == {x \in Surveys : survey[x] = "employee"}

Reviews == [revision : Int, surveys : SUBSET Surveys]
NoReview == [revision |-> -1, surveys |-> {}]

\* The steps of the child, then those of the parent after the child's exit.
ChildSteps  == {"load", "audit", "repair", "running", "review", "list", "clear",
                "create", "rows", "publish", "retire", "saved", "unstage", "fail"}
ParentSteps == {"completed", "caught", "mark", "throw"}

WorkerStates == [job : Jobs \cup {None}, pc : {"idle"} \cup ChildSteps \cup ParentSteps,
                 input : BOOLEAN, seen : Int, list : SUBSET Surveys, done : 0..Parts]
IdleWorker == [job |-> None, pc |-> "idle", input |-> FALSE, seen |-> -1, list |-> {},
               done |-> 0]

PollStates == [job : Jobs \cup {None}, pc : {"idle", "audit", "queue", "mark"},
               status : JobStatuses]
IdlePoll == [job |-> None, pc |-> "idle", status |-> "absent"]

Init ==
    /\ job = [j \in Jobs |-> "absent"]
    /\ upload = {}
    /\ review = [j \in Jobs |-> NoReview]
    /\ adding = {}
    /\ refused = {}
    /\ queue = [j \in Jobs |-> "missing"]
    /\ lock = [j \in Jobs |-> None]
    /\ stalls = [j \in Jobs |-> 0]
    /\ revision = 0
    /\ survey = [x \in Surveys |-> IF x = OldSurvey THEN "employee" ELSE "absent"]
    /\ rows = [x \in Surveys |-> IF x = OldSurvey THEN 1..Parts ELSE {}]
    /\ audit = {}
    /\ worker = [w \in Workers |-> IdleWorker]
    /\ poll = [p \in Pollers |-> IdlePoll]
    /\ faults = 0
    /\ edits = 0

Fault(kind) ==
    /\ kind \in Faults
    /\ faults < MaxFaults
    /\ faults' = faults + 1
    /\ UNCHANGED edits

-----------------------------------------------------------------------------
(* ProgramEfsJobs.enqueue() *)

\* The administrator submits the revision that the preview has just shown.
Submit(j) ==
    /\ job[j] = "absent"
    /\ job' = [job EXCEPT ![j] = "PENDING"]
    /\ upload' = upload \cup {j}
    /\ review' = [review EXCEPT ![j] = [revision |-> revision, surveys |-> ActiveSurveys]]
    /\ adding' = adding \cup {j}
    /\ UNCHANGED <<refused, queue, lock, stalls, data, worker, poll, bounds>>

QueueAdd(j) ==
    /\ j \in adding
    /\ adding' = adding \ {j}
    /\ queue' = [queue EXCEPT ![j] = "waiting"]
    /\ UNCHANGED <<jobRows, refused, lock, stalls, data, worker, poll, bounds>>

\* The call to Redis fails, and may have been applied all the same: then a worker may
\* have taken the job, and finished it, by the time that the catch writes.
QueueAddFails(j) ==
    /\ j \in adding
    /\ Fault("error")
    /\ adding' = adding \ {j}
    /\ refused' = refused \cup {j}
    /\ queue' \in {queue, [queue EXCEPT ![j] = "waiting"]}
    /\ UNCHANGED <<jobRows, lock, stalls, data, worker, poll>>

\* The catch writes FAILED over whatever is there, and drops the workbook.
MarkRefused(j) ==
    /\ j \in refused
    /\ refused' = refused \ {j}
    /\ job' = [job EXCEPT ![j] = "FAILED"]
    /\ upload' = upload \ {j}
    /\ UNCHANGED <<review, adding, queue, lock, stalls, data, worker, poll, bounds>>

\* That update fails as well.
MarkRefusedFails(j) ==
    /\ j \in refused
    /\ Fault("error")
    /\ refused' = refused \ {j}
    /\ UNCHANGED <<jobRows, adding, queue, lock, stalls, data, worker, poll>>

\* The instance dies before the job reaches Redis, or before the catch has written.
EnqueueCrash(j) ==
    /\ j \in adding \cup refused
    /\ Fault("crash")
    /\ adding' = adding \ {j}
    /\ refused' = refused \ {j}
    /\ UNCHANGED <<jobRows, queue, lock, stalls, data, worker, poll>>

\* Anything else that updates the Program row.
EditProgram ==
    /\ edits < MaxEdits
    /\ edits' = edits + 1
    /\ revision' = revision + 1
    /\ UNCHANGED <<jobRows, bull, survey, rows, audit, worker, poll, faults>>

-----------------------------------------------------------------------------
(* BullMQ, as the worker options configure it *)

Take(w, j) ==
    /\ worker[w].pc = "idle"
    /\ queue[j] = "waiting"
    /\ queue' = [queue EXCEPT ![j] = "active"]
    /\ lock' = [lock EXCEPT ![j] = w]
    /\ worker' = [worker EXCEPT ![w] = [IdleWorker EXCEPT !.job = j, !.pc = "load"]]
    /\ UNCHANGED <<jobRows, adding, refused, stalls, data, poll, bounds>>

\* The lock runs out although its owner lives (a Redis outage of two minutes).
LoseLock(j) ==
    /\ lock[j] # None
    /\ Fault("lock")
    /\ lock' = [lock EXCEPT ![j] = None]
    /\ UNCHANGED <<jobRows, adding, refused, queue, stalls, data, worker, poll>>

\* Mutant: a stalled job is put back every time.
MutantStalled(j) ==
    /\ queue[j] = "active"
    /\ lock[j] = None
    /\ queue' = [queue EXCEPT ![j] = "waiting"]
    /\ stalls' = [stalls EXCEPT ![j] = @ + 1]
    /\ UNCHANGED <<jobRows, adding, refused, lock, data, worker, poll, bounds>>

\* The job is put back once (maxStalledCount = 1) and failed the second time.
Stalled(j) ==
    /\ queue[j] = "active"
    /\ lock[j] = None
    /\ queue' = [queue EXCEPT ![j] = IF stalls[j] = 0 THEN "waiting" ELSE "failed"]
    /\ stalls' = [stalls EXCEPT ![j] = 1]
    /\ UNCHANGED <<jobRows, adding, refused, lock, data, worker, poll, bounds>>

\* The processor returned or threw: removeOnComplete or removeOnFail.  A worker
\* that lost the lock changes nothing.
Settle(w, state) ==
    LET j == worker[w].job IN
    /\ IF lock[j] = w
         THEN /\ queue' = [queue EXCEPT ![j] = state]
              /\ lock' = [lock EXCEPT ![j] = None]
         ELSE UNCHANGED <<queue, lock>>
    /\ worker' = [worker EXCEPT ![w] = IdleWorker]
    /\ UNCHANGED <<jobRows, adding, refused, stalls, data, poll, bounds>>

-----------------------------------------------------------------------------
(* The child: runImport() around reuploadProgramEfs() *)

At(w, pc) == worker[w].pc = pc

Goto(w, pc) == worker' = [worker EXCEPT ![w].pc = pc]

SetJob(j, s) == job' = [job EXCEPT ![j] = s]

\* The record is read once, with the workbook if it is still there.
LoadJob(w) ==
    LET j == worker[w].job IN
    /\ At(w, "load")
    /\ worker' = [worker EXCEPT
         ![w].input = j \in upload,
         ![w].pc = IF job[j] = "SUCCEEDED" THEN "completed" ELSE "audit"]
    /\ UNCHANGED <<jobRows, bull, data, poll, bounds>>

LoadAudit(w) ==
    /\ At(w, "audit")
    /\ Goto(w, IF worker[w].job \in audit THEN "repair" ELSE "running")
    /\ UNCHANGED <<jobRows, bull, data, poll, bounds>>

\* A recovered job whose save had committed is not imported again.
RepairJob(w) ==
    /\ At(w, "repair")
    /\ SetJob(worker[w].job, "SUCCEEDED")
    /\ upload' = upload \ {worker[w].job}
    /\ Goto(w, "completed")
    /\ UNCHANGED <<review, bull, data, poll, bounds>>

StartImport(w) ==
    /\ At(w, "running")
    /\ SetJob(worker[w].job, "RUNNING")
    /\ Goto(w, "review")
    /\ UNCHANGED <<upload, review, bull, data, poll, bounds>>

\* Without its workbook, a job that comes back cannot be validated; one that has read it
\* goes on, whatever becomes of the record.
ReadProgram(w) ==
    /\ At(w, "review")
    /\ worker' = [worker EXCEPT
         ![w].seen = revision,
         ![w].pc = IF worker[w].input THEN "list" ELSE "fail"]
    /\ UNCHANGED <<jobRows, bull, data, poll, bounds>>

\* The digest of program and surveys must be the one of the preview.
CheckRevision(w) ==
    LET reviewed == review[worker[w].job] IN
    /\ At(w, "list")
    /\ worker' = [worker EXCEPT
         ![w].list = ActiveSurveys,
         ![w].pc = IF /\ reviewed.revision = worker[w].seen
                      /\ reviewed.surveys = ActiveSurveys
                   THEN "clear" ELSE "fail"]
    /\ UNCHANGED <<jobRows, bull, data, poll, bounds>>

\* deleteMany of the save's own staging survey, with its rows.
DeleteStaging(j) ==
    IF survey[j] = "employee-staging"
      THEN /\ survey' = [survey EXCEPT ![j] = "absent"]
           /\ rows' = [rows EXCEPT ![j] = {}]
      ELSE UNCHANGED <<survey, rows>>

ClearStaging(w) ==
    /\ At(w, "clear")
    /\ DeleteStaging(worker[w].job)
    /\ Goto(w, "create")
    /\ UNCHANGED <<jobRows, bull, revision, audit, poll, bounds>>

\* The id is deterministic: a second create is a unique violation.
CreateStaging(w) ==
    LET j == worker[w].job IN
    /\ At(w, "create")
    /\ IF survey[j] = "absent"
         THEN /\ survey' = [survey EXCEPT ![j] = "employee-staging"]
              /\ Goto(w, "rows")
         ELSE /\ Goto(w, "unstage")
              /\ UNCHANGED survey
    /\ UNCHANGED <<jobRows, bull, revision, rows, audit, poll, bounds>>

\* Mutant: the last flush of the batch buffers is missing.
MutantInsertRows(w) ==
    LET part == worker[w].done + 1 IN
    /\ At(w, "rows")
    /\ rows' = [rows EXCEPT ![worker[w].job] = @ \cup {part}]
    /\ worker' = [worker EXCEPT ![w].done = part,
                                ![w].pc = IF part + 1 = Parts THEN "publish" ELSE "rows"]
    /\ UNCHANGED <<jobRows, bull, revision, survey, audit, poll, bounds>>

\* Batches go in one after the other.  The rows reference the survey, and their
\* ids are deterministic too.
InsertRows(w) ==
    LET j == worker[w].job
        part == worker[w].done + 1
    IN
    /\ At(w, "rows")
    /\ IF survey[j] # "absent" /\ part \notin rows[j]
         THEN /\ rows' = [rows EXCEPT ![j] = @ \cup {part}]
              /\ worker' = [worker EXCEPT ![w].done = part,
                                          ![w].pc = IF part = Parts THEN "publish" ELSE "rows"]
         ELSE /\ Goto(w, "unstage")
              /\ UNCHANGED rows
    /\ UNCHANGED <<jobRows, bull, revision, survey, audit, poll, bounds>>

\* Mutant: the transaction does not compare Program.updatedAt.
MutantMayPublish(w) ==
    survey[worker[w].job] # "absent" /\ worker[w].job \notin audit

\* Under the row lock of the program, the transaction commits if the program is
\* the one that was validated, the staged survey is there, and there is no audit
\* row of the save yet (its idempotencyKey is unique).
MayPublish(w) ==
    /\ revision = worker[w].seen
    /\ survey[worker[w].job] # "absent"
    /\ worker[w].job \notin audit

\* Mutant: the surveys of earlier saves keep their kind.
MutantPublished(j) ==
    /\ survey' = [survey EXCEPT ![j] = "employee"]
    /\ revision' = revision + 1
    /\ audit' = audit \cup {j}
    /\ UNCHANGED rows

Published(j) ==
    /\ survey' = [x \in Surveys |-> IF x = j THEN "employee"
                                    ELSE IF survey[x] = "employee" THEN "replaced-employee"
                                    ELSE survey[x]]
    /\ revision' = revision + 1
    /\ audit' = audit \cup {j}
    /\ UNCHANGED rows

\* Mutant: the conflict is logged, and the save goes on.
MutantPublish(w) ==
    /\ At(w, "publish")
    /\ IF MayPublish(w) THEN Published(worker[w].job) ELSE UNCHANGED data
    /\ Goto(w, "retire")
    /\ UNCHANGED <<jobRows, bull, poll, bounds>>

Publish(w) ==
    /\ At(w, "publish")
    /\ IF MayPublish(w)
         THEN /\ Published(worker[w].job)
              /\ Goto(w, "retire")
         ELSE /\ Goto(w, "unstage")
              /\ UNCHANGED data
    /\ UNCHANGED <<jobRows, bull, poll, bounds>>

\* The commit is not acknowledged: for the child, the save has failed.
PublishUnacknowledged(w) ==
    /\ At(w, "publish")
    /\ MayPublish(w)
    /\ Fault("unacked")
    /\ Published(worker[w].job)
    /\ Goto(w, "unstage")
    /\ UNCHANGED <<jobRows, bull, poll>>

\* deleteMany of the surveys that were listed before, whatever they are now.
DeleteRetired(w) ==
    /\ At(w, "retire")
    /\ survey' = [x \in Surveys |-> IF x \in worker[w].list THEN "absent" ELSE survey[x]]
    /\ rows' = [x \in Surveys |-> IF x \in worker[w].list THEN {} ELSE rows[x]]
    /\ Goto(w, "saved")
    /\ UNCHANGED <<jobRows, bull, revision, audit, poll, bounds>>

ReportSaved(w) ==
    /\ At(w, "saved")
    /\ SetJob(worker[w].job, "SUCCEEDED")
    /\ upload' = upload \ {worker[w].job}
    /\ Goto(w, "completed")
    /\ UNCHANGED <<review, bull, data, poll, bounds>>

\* The inner catch, if nothing was published as far as the child knows.
Unstage(w) ==
    /\ At(w, "unstage")
    /\ DeleteStaging(worker[w].job)
    /\ Goto(w, "fail")
    /\ UNCHANGED <<jobRows, bull, revision, audit, poll, bounds>>

\* The catch of runImport() writes FAILED over whatever is there.
ReportFailed(w) ==
    /\ At(w, "fail")
    /\ SetJob(worker[w].job, "FAILED")
    /\ upload' = upload \ {worker[w].job}
    /\ Goto(w, "caught")
    /\ UNCHANGED <<review, bull, data, poll, bounds>>

-----------------------------------------------------------------------------
(* The parent: ProgramEfsWorker.process() once the child has exited *)

\* The parent did not see the child succeed: did its save commit all the same?
CheckAudit(w) ==
    /\ At(w, "caught")
    /\ Goto(w, IF worker[w].job \in audit THEN "completed" ELSE "mark")
    /\ UNCHANGED <<jobRows, bull, data, poll, bounds>>

\* updateMany of a PENDING or RUNNING record, with an empty input.
MarkFailed(w) ==
    LET j == worker[w].job IN
    /\ At(w, "mark")
    /\ IF job[j] \in {"PENDING", "RUNNING"}
         THEN /\ SetJob(j, "FAILED")
              /\ upload' = upload \ {j}
         ELSE UNCHANGED <<job, upload>>
    /\ Goto(w, "throw")
    /\ UNCHANGED <<review, bull, data, poll, bounds>>

Complete(w) == At(w, "completed") /\ Settle(w, "missing")

Throw(w) == At(w, "throw") /\ Settle(w, "failed")

-----------------------------------------------------------------------------
(* Faults of a worker *)

\* Where an error of each awaited call leads.  Before the import starts and
\* after the child's exit nothing catches it but BullMQ; a failed cleanup of
\* retired surveys is logged, a failed cleanup of the staging survey ignored.
AfterError(pc) ==
    CASE pc \in {"load", "audit", "repair", "running"}       -> "caught"
      [] pc \in {"review", "list", "saved"}                  -> "fail"
      [] pc \in {"clear", "create", "rows", "publish"}       -> "unstage"
      [] pc = "retire"                                       -> "saved"
      [] pc = "unstage"                                      -> "fail"
      [] pc = "fail"                                         -> "caught"
      [] pc \in {"caught", "mark"}                           -> "throw"

Error(w) ==
    /\ worker[w].pc \notin {"idle", "completed", "throw"}
    /\ Fault("error")
    /\ Goto(w, AfterError(worker[w].pc))
    /\ UNCHANGED <<jobRows, bull, data, poll>>

ChildKilled(w) ==
    /\ worker[w].pc \in ChildSteps
    /\ Fault("kill")
    /\ Goto(w, "caught")
    /\ UNCHANGED <<jobRows, bull, data, poll>>

\* The child stops with its owner (stopWithOwner), and the lock runs out.
WorkerCrash(w) ==
    /\ worker[w].pc # "idle"
    /\ Fault("crash")
    /\ worker' = [worker EXCEPT ![w] = IdleWorker]
    /\ lock' = [j \in Jobs |-> IF lock[j] = w THEN None ELSE lock[j]]
    /\ UNCHANGED <<jobRows, adding, refused, queue, stalls, data, poll>>

-----------------------------------------------------------------------------
(* ProgramEfsJobs.status() *)

Answer(p) == poll' = [poll EXCEPT ![p] = IdlePoll]

PollGoto(p, pc) == poll' = [poll EXCEPT ![p].pc = pc]

\* Mutant: a FAILED record is believed.
MutantPollRecord(p, j) ==
    /\ poll[p].pc = "idle"
    /\ job[j] \in {"PENDING", "RUNNING"}
    /\ poll' = [poll EXCEPT ![p] = [job |-> j, status |-> job[j],
                                    pc |-> IF job[j] = "PENDING" THEN "queue" ELSE "audit"]]
    /\ UNCHANGED <<jobRows, bull, data, worker, bounds>>

PollRecord(p, j) ==
    /\ poll[p].pc = "idle"
    /\ job[j] \in {"PENDING", "RUNNING", "FAILED"}
    /\ poll' = [poll EXCEPT ![p] = [job |-> j, status |-> job[j],
                                    pc |-> IF job[j] = "PENDING" THEN "queue" ELSE "audit"]]
    /\ UNCHANGED <<jobRows, bull, data, worker, bounds>>

\* A publication that the record does not show yet repairs the record.
PollAudit(p) ==
    LET j == poll[p].job IN
    /\ poll[p].pc = "audit"
    /\ IF j \in audit
         THEN /\ SetJob(j, "SUCCEEDED")
              /\ upload' = upload \ {j}
              /\ Answer(p)
         ELSE /\ IF poll[p].status = "RUNNING" THEN PollGoto(p, "queue") ELSE Answer(p)
              /\ UNCHANGED <<job, upload>>
    /\ UNCHANGED <<review, bull, data, worker, bounds>>

\* The queue knows the job, or it was touched in the last minute.
PollSeesJob(p) ==
    /\ poll[p].pc = "queue"
    /\ queue[poll[p].job] # "failed"
    /\ Answer(p)
    /\ UNCHANGED <<jobRows, bull, data, worker, bounds>>

\* Mutant: only a job that the queue has failed is marked.
MutantPollMissesJob(p) ==
    /\ poll[p].pc = "queue"
    /\ queue[poll[p].job] = "failed"
    /\ PollGoto(p, "mark")
    /\ UNCHANGED <<jobRows, bull, data, worker, bounds>>

\* The queue failed the job or, a minute after the record's last change, does
\* not know it.
PollMissesJob(p) ==
    /\ poll[p].pc = "queue"
    /\ queue[poll[p].job] \in {"failed", "missing"}
    /\ PollGoto(p, "mark")
    /\ UNCHANGED <<jobRows, bull, data, worker, bounds>>

\* updateMany of a record that is still PENDING or RUNNING.
PollMark(p) ==
    LET j == poll[p].job IN
    /\ poll[p].pc = "mark"
    /\ job' = IF job[j] \in {"PENDING", "RUNNING"} THEN [job EXCEPT ![j] = "FAILED"] ELSE job
    /\ Answer(p)
    /\ UNCHANGED <<upload, review, bull, data, worker, bounds>>

\* A Redis outage or a database error ends the poll.
PollError(p) ==
    /\ poll[p].pc # "idle"
    /\ Fault("error")
    /\ Answer(p)
    /\ UNCHANGED <<jobRows, bull, data, worker>>

-----------------------------------------------------------------------------

Work(w) ==
    \/ LoadJob(w) \/ LoadAudit(w) \/ RepairJob(w) \/ StartImport(w)
    \/ ReadProgram(w) \/ CheckRevision(w) \/ ClearStaging(w) \/ CreateStaging(w)
    \/ InsertRows(w) \/ Publish(w) \/ DeleteRetired(w) \/ ReportSaved(w)
    \/ Unstage(w) \/ ReportFailed(w)
    \/ CheckAudit(w) \/ MarkFailed(w) \/ Complete(w) \/ Throw(w)

WorkerFault(w) ==
    PublishUnacknowledged(w) \/ Error(w) \/ ChildKilled(w) \/ WorkerCrash(w)

Poll(p) ==
    \/ PollAudit(p) \/ PollSeesJob(p) \/ PollMissesJob(p) \/ PollMark(p)

Next ==
    \/ \E j \in Jobs : \/ Submit(j) \/ QueueAdd(j) \/ QueueAddFails(j)
                       \/ MarkRefused(j) \/ MarkRefusedFails(j) \/ EnqueueCrash(j)
                       \/ LoseLock(j) \/ Stalled(j)
                       \/ \E w \in Workers : Take(w, j)
                       \/ \E p \in Pollers : PollRecord(p, j)
    \/ EditProgram
    \/ \E w \in Workers : Work(w) \/ WorkerFault(w)
    \/ \E p \in Pollers : Poll(p) \/ PollError(p)

Spec == Init /\ [][Next]_vars

\* Promises settle, BullMQ hands out and checks its jobs, and somebody keeps
\* asking for a save that is not reported SUCCEEDED.  A job the queue does not
\* know is at some time a minute old, and queue.add returns.
Fairness ==
    /\ \A w \in Workers : WF_vars(Work(w))
    /\ \A j \in Jobs : /\ WF_vars(QueueAdd(j))
                       /\ WF_vars(MarkRefused(j))
                       /\ WF_vars(Stalled(j))
                       /\ SF_vars(\E w \in Workers : Take(w, j))
                       /\ SF_vars(\E p \in Pollers : PollRecord(p, j))
    /\ \A p \in Pollers : /\ WF_vars(Poll(p))
                          /\ SF_vars(PollMissesJob(p))

FairSpec == Spec /\ Fairness

-----------------------------------------------------------------------------
(* Properties *)

TypeOK ==
    /\ job \in [Jobs -> JobStatuses]
    /\ upload \in SUBSET Jobs
    /\ review \in [Jobs -> Reviews]
    /\ adding \in SUBSET Jobs
    /\ refused \in SUBSET Jobs
    /\ queue \in [Jobs -> QueueStates]
    /\ lock \in [Jobs -> Workers \cup {None}]
    /\ stalls \in [Jobs -> 0..1]
    /\ revision \in Nat
    /\ survey \in [Surveys -> Kinds]
    /\ rows \in [Surveys -> SUBSET (1..Parts)]
    /\ audit \in SUBSET Jobs
    /\ worker \in [Workers -> WorkerStates]
    /\ poll \in [Pollers -> PollStates]
    /\ faults \in 0..MaxFaults
    /\ edits \in 0..MaxEdits

\* Whoever reads the employee survey of the program finds exactly one, at every
\* step of every save, also of saves that fail or run twice.
OneActiveSurvey == Cardinality(ActiveSurveys) = 1

\* What the reports read has all the rows of its workbook.
ActiveIsComplete == \A x \in ActiveSurveys : rows[x] = 1..Parts

\* A save reported as SUCCEEDED did commit.
SucceededIsPublished == \A j \in Jobs : job[j] = "SUCCEEDED" => j \in audit

\* A committed save is reported as SUCCEEDED in the end, whatever happened to
\* the worker that made it.
SavedIsReported == \A j \in Jobs : j \in audit ~> job[j] = "SUCCEEDED"

\* No submitted save stays PENDING or RUNNING for ever.
EverySaveEnds ==
    \A j \in Jobs : job[j] \in {"PENDING", "RUNNING"} ~> job[j] \in {"SUCCEEDED", "FAILED"}

\* Publication is the atomic replacement of SurveyPublication: the active survey gives
\* way to the survey of a save, and only as long as the program is what was reviewed.
Publication == INSTANCE SurveyPublication WITH
    active <- CHOOSE x \in Surveys : survey[x] = "employee",
    reviewed <- [j \in Jobs |-> review[j].revision]

ImplementsPublication == Publication!Spec
=============================================================================
