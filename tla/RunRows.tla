------------------------------- MODULE RunRows -------------------------------
(***************************************************************************)
(* The two tables every process of the desk reads and writes: tasks and    *)
(* agent_runs (server/store.js), and the statements TaskStore executes on  *)
(* them, as operators from tables to tables.  T is the tasks table, R the  *)
(* agent_runs table.                                                       *)
(*                                                                         *)
(* Abstractions.  A run is numbered by its creation, so "ORDER BY          *)
(* created_at DESC LIMIT 1" is the largest number; texts, timestamps and   *)
(* release evidence are dropped; worker_id is kept only while the run is   *)
(* 'running', the only time the code reads it; release_status 'processing' *)
(* with release_phase 'verifying' is the value "verifying"; the verdict of *)
(* the quality gate, a JSON text in `details`, is one of four values.      *)
(***************************************************************************)
EXTENDS Naturals

CONSTANTS
    Tasks,       \* the tasks of the desk
    Workers,     \* the slots in which a codex-worker process may run
    Areas,       \* the values of (project, area)
    AreaOf,      \* the project and area of each task
    SentinelTasks, \* the tasks the log sentinel filed
    MaxRuns,     \* bound: the number of agent runs ever inserted
    NoWorker,    \* worker_id = ''
    Gone,        \* the worker id (a UUID) of a process that no longer exists
    NoTask       \* the task of a row that has not been inserted

ASSUME RowsAssumption ==
    /\ MaxRuns \in Nat
    /\ NoWorker \notin Workers /\ Gone \notin Workers /\ NoWorker # Gone
    /\ NoTask \notin Tasks
    /\ AreaOf \in [Tasks -> Areas]
    /\ SentinelTasks \subseteq Tasks

RunIds == 1..MaxRuns

TaskStatus == {"new", "in_progress", "ready_for_retest", "review_again", "done", "blocked"}
RunStatus == {"absent", "queued", "running", "completed", "needs_review", "blocked", "failed"}
Control == {"", "stop", "stop_revert", "cleanup_running"}
ReleaseStatus == {"pending", "processing", "verifying", "retrying",
                  "waiting_mainline", "released", "blocked"}
Verdict == {"none", "completed", "sandbox", "review", "blocked"}

Task == [status : TaskStatus, ai : BOOLEAN]
Run == [task : Tasks \cup {NoTask}, status : RunStatus, control : Control,
        release : ReleaseStatus, worker : Workers \cup {NoWorker, Gone},
        verdict : Verdict, auto : BOOLEAN, snapshot : TaskStatus]

NoRun == [task |-> NoTask, status |-> "absent", control |-> "", release |-> "pending",
          worker |-> NoWorker, verdict |-> "none", auto |-> FALSE, snapshot |-> "new"]

-----------------------------------------------------------------------------
(* Queries. *)

Active(rec) == rec.status \in {"queued", "running"}
Final == {"released", "blocked"}
LiveRelease == {"pending", "processing", "verifying", "retrying"}

HasActiveRun(R, t) == \E r \in RunIds : R[r].task = t /\ Active(R[r])

Latest(R, r) == /\ R[r].task # NoTask
                /\ \A q \in RunIds : R[q].task = R[r].task => q <= r

(* hasActiveRelease: a completed run occupies the release queue from its   *)
(* verdict on, a needs_review run only once the release worker took it.    *)
ReleaseBusy(rec) ==
    \/ rec.status = "completed" /\ rec.release \in LiveRelease
    \/ rec.status = "needs_review" /\ rec.release \in LiveRelease \ {"pending"}

HasActiveRelease(T, R, t) ==
    /\ T[t].status # "done"
    /\ \E r \in RunIds : R[r].task = t /\ Latest(R, r) /\ ReleaseBusy(R[r])

(* claimNextAgentRun: another open task of the same project and area that  *)
(* is being coded, or whose latest result is still on its way to DEV.      *)
AreaTaken(T, R, r) ==
    \E q \in RunIds :
        /\ R[q].task # NoTask /\ R[q].task # R[r].task
        /\ AreaOf[R[q].task] = AreaOf[R[r].task]
        /\ T[R[q].task].status # "done"
        /\ \/ R[q].status = "running"
           \/ Latest(R, q) /\ R[q].status = "completed" /\ R[q].release \in LiveRelease

Claimable(T, R, r) ==
    /\ R[r].status = "queued"
    /\ T[R[r].task].status # "done"
    /\ T[R[r].task].ai
    /\ ~AreaTaken(T, R, r)

(* Mutant of CleanupReady: the clean-up does not wait for the task.        *)
CleanupAtOnce(R, r) == R[r].status = "blocked" /\ R[r].control = "stop_revert"

CleanupReady(R, r) ==
    /\ R[r].status = "blocked" /\ R[r].control = "stop_revert"
    /\ ~HasActiveRun(R, R[r].task)

-----------------------------------------------------------------------------
(* Updates of one row. *)

Finish(rec, s) == [rec EXCEPT !.status = s, !.worker = NoWorker]
FailRow(rec) == [Finish(rec, "failed") EXCEPT !.release = "blocked"]
StoppedRow(rec) == [Finish(rec, "blocked") EXCEPT !.control = "", !.release = "blocked"]
DequeuedRow(rec, c) == [rec EXCEPT !.status = "blocked", !.control = c, !.release = "blocked"]
QueuedAgain(rec) == [rec EXCEPT !.status = "queued", !.worker = NoWorker, !.control = ""]

(* Mutants of RequeueRow: the row is not checked to be the worker's own;   *)
(* a row with an accepted stop is left as it is.                           *)
RequeueAny(rec, w) == QueuedAgain(rec)
RequeueUnstopped(rec, w) ==
    IF rec.status = "running" /\ rec.worker = w /\ rec.control = "" THEN QueuedAgain(rec) ELSE rec

(* requeueAgentRun: only the worker that holds the running row. *)
RequeueRow(rec, w) ==
    IF rec.status = "running" /\ rec.worker = w THEN QueuedAgain(rec) ELSE rec

(* Mutants of OrphanRow: an interrupted clean-up is forgotten; a running   *)
(* row with an accepted stop is skipped.                                   *)
OrphanRowNoCleanup(rec) ==
    IF rec.status = "running" /\ rec.control = "" THEN QueuedAgain(rec)
    ELSE IF rec.status = "running" THEN Finish(rec, "blocked")
    ELSE rec
OrphanRowUnstopped(rec) ==
    IF rec.status = "running" /\ rec.control = "" THEN QueuedAgain(rec) ELSE rec

(* requeueOrphanedRuns on one row. *)
OrphanRow(rec) ==
    IF rec.status = "blocked" /\ rec.control = "cleanup_running"
        THEN [rec EXCEPT !.control = "stop_revert"]
    ELSE IF rec.status # "running" THEN rec
    ELSE IF rec.control = "stop_revert" THEN Finish(rec, "blocked")
    ELSE IF rec.control = "stop" THEN [Finish(rec, "blocked") EXCEPT !.control = ""]
    ELSE QueuedAgain(rec)

(* releaseStaleRunningRun: the release fields are left as they were. *)
StaleRow(rec) == [Finish(rec, "failed") EXCEPT !.control = ""]

-----------------------------------------------------------------------------
(* Updates of the tables. *)

(* patch(): what turning AI off, or closing the task, does to its runs. *)
PatchRuns(R, t, aiOff, closes) ==
    [r \in RunIds |->
        IF R[r].task # t THEN R[r]
        ELSE IF R[r].status = "queued" /\ (aiOff \/ closes) THEN DequeuedRow(R[r], "stop")
        ELSE IF R[r].status = "running" /\ aiOff /\ R[r].control = ""
            THEN [R[r] EXCEPT !.control = "stop"]
        ELSE R[r]]

(* Mutant of Supersede: a release that waits for mainline is left alone.   *)
SupersedeReview(R, t) ==
    [r \in RunIds |->
        IF R[r].task = t /\ Latest(R, r) /\ R[r].status = "needs_review" /\ R[r].release = "pending"
        THEN [R[r] EXCEPT !.release = "blocked"]
        ELSE R[r]]

(* enqueueAgentRun: the release markers a new run replaces ... *)
Supersede(R, t) ==
    [r \in RunIds |->
        IF /\ R[r].task = t /\ Latest(R, r)
           /\ \/ R[r].status = "needs_review" /\ R[r].release = "pending"
              \/ R[r].release = "waiting_mainline"
        THEN [R[r] EXCEPT !.release = "blocked"]
        ELSE R[r]]

(* ... its refusals ... *)
Accepts(T, t) == T[t].status # "done" /\ T[t].ai

Inserts(T, R, t) ==
    /\ Accepts(T, t)
    /\ ~HasActiveRelease(T, Supersede(R, t), t)
    /\ ~HasActiveRun(Supersede(R, t), t)

(* ... and the row it inserts; `seen` is the status of the task. *)
NewRun(t, seen, auto) ==
    [NoRun EXCEPT !.task = t, !.status = "queued", !.auto = auto, !.snapshot = seen]

EnqueueRuns(T, R, n, t, auto) ==
    IF ~Accepts(T, t) THEN R
    ELSE IF Inserts(T, R, t) THEN [Supersede(R, t) EXCEPT ![n] = NewRun(t, T[t].status, auto)]
    ELSE Supersede(R, t)

(* failAgentRun: an open task nobody works on any more returns to 'new'. *)
FailTasks(T, R, r) ==
    LET t == R[r].task
    IN  IF T[t].status = "in_progress" /\ ~HasActiveRun([R EXCEPT ![r] = FailRow(R[r])], t)
        THEN [T EXCEPT ![t].status = "new"]
        ELSE T

RequeueOrphanTasks(T, R) ==
    [t \in Tasks |->
        IF \E r \in RunIds : /\ R[r].task = t /\ R[r].status = "running"
                             /\ R[r].control \in {"stop", "stop_revert"}
        THEN [T[t] EXCEPT !.status = "new"]
        ELSE T[t]]

(* restorableTaskStatus *)
Restorable(s) == IF s \in {"new", "in_progress", "ready_for_retest", "blocked"} THEN s ELSE "new"

(* pipelineTaskStatusAfterBlock, on the status the release worker last saw: *)
(* a status that belongs to QA survives a release that gave up.            *)
AfterBlock(t, s) ==
    IF s \in {"new", "in_progress", "blocked"} \/ t \in SentinelTasks THEN "blocked" ELSE s

(* The task status finalizeEntry publishes with `released`. *)
AfterRelease(t) == IF t \in SentinelTasks THEN "done" ELSE "ready_for_retest"
=============================================================================
