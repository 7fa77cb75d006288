------------------------------ MODULE AgentRuns ------------------------------
(***************************************************************************)
(* The life of an agent run: the web process (server/app.js on TaskStore), *)
(* the codex-worker processes (server/codex-worker.js, on the same SQLite  *)
(* file) and, as far as it writes release_status, the release worker       *)
(* (server/release-worker.js, through PATCH /api/agent-runs/:id/release).  *)
(*                                                                         *)
(* Atomicity.  A web handler does not wait for anything between its reads  *)
(* and writes, so no other request falls between them; a commit of the     *)
(* worker can, and the model lets it into enqueueAgentRun (Ask, Answer),   *)
(* which the handlers call outside a transaction.  A worker's job is cut   *)
(* at every await and, where it writes several rows without an await,      *)
(* between the commits: the web process may come in between, the worker's  *)
(* own thread may not                                                      *)
(* (Turn).  A crash may fall between any two actions.                      *)
(*                                                                         *)
(* Abstractions.  Heartbeats carry no clock: `silent` holds the live       *)
(* processes whose heartbeat is older than the lease TTL and               *)
(* CODEX_RUN_STALE_MS.  The order of the queue (queue_priority,            *)
(* created_at) and the usage-limit pause only delay claims: any claimable  *)
(* run may be claimed.  The second Codex invocation of a job (lost         *)
(* session, finalisation) prolongs phase "agent".                          *)
(***************************************************************************)
EXTENDS RunRows, Sequences, FiniteSets

CONSTANTS
    Concurrency,         \* CODEX_CONCURRENCY
    PatchStatuses,       \* the statuses people set by PATCH (a bound on TaskStatus)
    PatchAi,             \* the values of aiMode they set (a bound on BOOLEAN)
    StopControls,        \* the kinds of stop they ask for (a bound)
    Verdicts,            \* the verdicts a Codex run may earn (a bound on Verdict)
    MayStall,            \* the workers that may miss their heartbeats for a TTL
    MayCrash,            \* the workers that may die at any moment
    ChildrenOutlive      \* do Codex processes survive their worker (no PID namespace)?

ASSUME AgentRunsAssumption ==
    /\ Concurrency \in 1..3
    /\ PatchStatuses \subseteq TaskStatus /\ PatchAi \subseteq BOOLEAN
    /\ StopControls \subseteq {"stop", "stop_revert"}
    /\ Verdicts \subseteq Verdict \ {"none"}
    /\ MayStall \subseteq Workers /\ MayCrash \subseteq Workers
    /\ ChildrenOutlive \in BOOLEAN

VARIABLES
    task,      \* the tasks table
    run,       \* the agent_runs table
    made,      \* the number of inserted runs
    proc,      \* the worker process in each slot
    lease,     \* owner of the lease 'codex-worker'
    silent,    \* live workers whose last heartbeat is too old
    job,       \* job[w][r]: worker w's processRun for run r
    chain,     \* chain[w]: worktreeMutationChain, the git work queued in w
    agents,    \* <<w, r>>: a Codex child of worker w runs for r
    orphans,   \* runs whose Codex process outlived its worker
    rel,       \* the release worker's current item and the task status it saw
    web        \* the enqueue the web process is in the middle of

store == <<task, run, made>>
worker == <<proc, lease, silent, job, chain, agents, orphans>>
vars == <<task, run, made, proc, lease, silent, job, chain, agents, orphans, rel, web>>

Phase == {"idle", "claimed", "ensure", "ready", "agent", "late", "exited",
          "revert", "restore", "verify", "stored", "settle"}
ProcState == {"down", "up", "stopping", "losing", "zombie"}
Op == [op : {"ensure", "revert", "cleanup"}, run : RunIds]

Idle == [phase |-> "idle", stop |-> ""]
NoRelease == [run |-> 0, seen |-> "new"]
NoRequest == [task |-> NoTask, seen |-> "new"]

Init ==
    /\ task \in [Tasks -> {[status |-> "new", ai |-> TRUE]}]
    /\ run = [r \in RunIds |-> NoRun]
    /\ made = 0
    /\ proc = [w \in Workers |-> "down"]
    /\ lease = NoWorker
    /\ silent = {}
    /\ job = [w \in Workers |-> [r \in RunIds |-> Idle]]
    /\ chain = [w \in Workers |-> <<>>]
    /\ agents = {}
    /\ orphans = {}
    /\ rel = NoRelease
    /\ web = NoRequest

-----------------------------------------------------------------------------
(* The web process. *)

(* Mutant of Enqueue: a refused run is counted. *)
EnqueueCounted(T, R, t, auto) ==
    /\ Inserts(T, R, t) => made < MaxRuns
    /\ run' = EnqueueRuns(T, R, made + 1, t, auto)
    /\ made' = made + 1

(* enqueueAgentRun in one piece (within the transaction of reviewAgain,    *)
(* and as the worker calls it) on tables T and R: the bound MaxRuns is the *)
(* only reason for which the model refuses what the code accepts.          *)
Enqueue(T, R, t, auto) ==
    /\ Inserts(T, R, t) => made < MaxRuns
    /\ run' = EnqueueRuns(T, R, made + 1, t, auto)
    /\ made' = IF Inserts(T, R, t) THEN made + 1 ELSE made

(* enqueueAgentRun as the handlers call it: outside a transaction, so that *)
(* the worker may commit after the query for an active release and before  *)
(* the query for an active run.                                            *)
Ask(T, R, t) ==
    /\ run' = IF Accepts(T, t) THEN Supersede(R, t) ELSE R
    /\ web' = IF Accepts(T, t) /\ ~HasActiveRelease(T, Supersede(R, t), t)
              THEN [task |-> t, seen |-> T[t].status] ELSE NoRequest
    /\ web'.task # NoTask => made < MaxRuns
    /\ UNCHANGED made

(* Mutant of Answer: the active run is not looked for again at the INSERT  *)
(* (and no unique index stops it).                                         *)
AnswerBlindly ==
    LET t == web.task
    IN  /\ t # NoTask /\ made < MaxRuns
        /\ run' = [run EXCEPT ![made + 1] = NewRun(t, web.seen, FALSE)]
        /\ made' = made + 1
        /\ web' = NoRequest
        /\ UNCHANGED <<task, worker, rel>>

(* ... and the query for an active run with the INSERT that follows it.    *)
Answer ==
    LET t == web.task
        inserts == ~HasActiveRun(run, t) /\ made < MaxRuns
    IN  /\ t # NoTask
        /\ run' = IF inserts
                  THEN [run EXCEPT ![made + 1] = NewRun(t, web.seen, FALSE)]
                  ELSE run
        /\ made' = IF inserts THEN made + 1 ELSE made
        /\ web' = NoRequest
        /\ UNCHANGED <<task, worker, rel>>

(* POST /api/tasks/:id/agent-runs, and the enqueue after POST /api/tasks. *)
StartRun(t) ==
    /\ Ask(task, run, t)
    /\ UNCHANGED <<task, worker, rel>>

(* PATCH /api/tasks/:id with a status, an aiMode, or both; "unset" is a    *)
(* request without a status.                                               *)
PatchTask(t, s, ai) ==
    LET review == s = "review_again" /\ task[t].status # "review_again"
        T == [task EXCEPT ![t] = [status |-> IF s = "unset" THEN @.status ELSE s, ai |-> ai]]
        R == PatchRuns(run, t, task[t].ai /\ ~ai, s = "done")
    IN  /\ review => ai /\ ~HasActiveRelease(task, run, t)
        /\ task' = T
        /\ IF review THEN Ask(T, R, t)
                     ELSE run' = R /\ UNCHANGED <<made, web>>
        /\ UNCHANGED <<worker, rel>>

(* POST /api/tasks/:id/review-again: one transaction, rolled back when the *)
(* enqueue inside it does not insert.                                      *)
ReviewAgain(t) ==
    LET T == [task EXCEPT ![t].status = "review_again"]
    IN  /\ task[t].ai
        /\ ~HasActiveRelease(task, run, t)
        /\ task[t].status # "review_again"
        /\ ~HasActiveRun(run, t)
        /\ Inserts(T, run, t)
        /\ task' = T
        /\ Enqueue(T, run, t, FALSE)
        /\ UNCHANGED <<worker, rel, web>>

(* Mutant of Stop: a running row is closed by the web process itself. *)
StopAtOnce(t, c) ==
    \E r \in RunIds :
        /\ run[r].task = t /\ Active(run[r])
        /\ run' = [run EXCEPT ![r] = DequeuedRow(@, c)]
        /\ task' = [task EXCEPT ![t].status = "new"]
        /\ UNCHANGED <<made, worker, rel, web>>

(* POST /api/tasks/:id/agent-runs/stop *)
Stop(t, c) ==
    \E r \in RunIds :
        /\ run[r].task = t /\ Active(run[r])
        /\ IF run[r].status = "queued"
           THEN /\ run' = [run EXCEPT ![r] = DequeuedRow(@, c)]
                /\ task' = [task EXCEPT ![t].status = "new"]
           ELSE /\ run' = [run EXCEPT ![r].control = c]
                /\ UNCHANGED task
        /\ UNCHANGED <<made, worker, rel, web>>

(* Mutant of Stale: the age of the heartbeat is not looked at. *)
StaleAlways(rec) == rec.status = "running"

(* The heartbeat of a running row is older than CODEX_RUN_STALE_MS. *)
Stale(rec) == rec.status = "running" /\ (rec.worker \in silent \/ rec.worker = Gone)

(* POST /api/tasks/:id/agent-runs/resume *)
Resume(t) ==
    \/ /\ \A r \in RunIds : run[r].task = t /\ Latest(run, r) => run[r].status # "running"
       /\ Ask(task, run, t)
       /\ UNCHANGED <<task, worker, rel>>
    \/ \E r \in RunIds :
        /\ run[r].task = t /\ Latest(run, r) /\ Stale(run[r])
        /\ Ask(task, [run EXCEPT ![r] = StaleRow(@)], t)
        /\ UNCHANGED <<task, worker, rel>>

-----------------------------------------------------------------------------
(* The codex worker: process, lease and heartbeat. *)

Busy(w) == {r \in RunIds : job[w][r].phase # "idle"}
Children(w) == {a \in agents : a[1] = w}
Stopping(w) == proc[w] # "up"
LeaseFree == lease \in {NoWorker, Gone} \cup silent

Start(w) ==
    /\ proc[w] = "down" /\ LeaseFree
    /\ lease' = w
    /\ proc' = [proc EXCEPT ![w] = "up"]
    /\ task' = RequeueOrphanTasks(task, run)
    /\ run' = [r \in RunIds |-> OrphanRow(run[r])]
    /\ UNCHANGED <<made, silent, job, chain, agents, orphans, rel, web>>

Stall(w) ==
    /\ w \in MayStall /\ proc[w] = "up"
    /\ silent' = silent \cup {w}
    /\ UNCHANGED <<store, proc, lease, job, chain, agents, orphans, rel, web>>

(* heartbeat(): a worker that lost the lease stops, without exiting. *)
Heartbeat(w) ==
    /\ proc[w] = "up"
    /\ IF lease = w
       THEN silent' = silent \ {w} /\ UNCHANGED proc
       ELSE proc' = [proc EXCEPT ![w] = "losing"] /\ UNCHANGED silent
    /\ UNCHANGED <<store, lease, job, chain, agents, orphans, rel, web>>

(* SIGTERM: stop() kills the children it knows at this moment. *)
StopBegin(w) ==
    /\ proc[w] = "up"
    /\ proc' = [proc EXCEPT ![w] = "stopping"]
    /\ UNCHANGED <<store, lease, silent, job, chain, agents, orphans, rel, web>>

(* What the death of process w leaves: no jobs, its children orphaned. *)
Vanish(w) ==
    /\ proc' = [proc EXCEPT ![w] = "down"]
    /\ silent' = silent \ {w}
    /\ job' = [job EXCEPT ![w] = [r \in RunIds |-> Idle]]
    /\ chain' = [chain EXCEPT ![w] = <<>>]
    /\ agents' = agents \ Children(w)
    /\ orphans' = IF ChildrenOutlive THEN orphans \cup {a[2] : a \in Children(w)} ELSE orphans

(* The end of stop(): the known children are dead, the jobs were given     *)
(* their 8 seconds, what is left goes back to the queue.  After SIGTERM    *)
(* the process exits; after a lost lease it lives on until its jobs end.   *)
StopEnd(w) ==
    /\ proc[w] \in {"stopping", "losing"}
    /\ \A r \in RunIds : job[w][r].phase # "agent"
    /\ run' = [r \in RunIds |-> IF r \in Busy(w) THEN RequeueRow(run[r], w) ELSE run[r]]
    /\ lease' = IF lease = w THEN NoWorker ELSE lease
    /\ IF proc[w] = "stopping"
       THEN Vanish(w)
       ELSE /\ proc' = [proc EXCEPT ![w] = "zombie"]
            /\ UNCHANGED <<silent, job, chain, agents, orphans>>
    /\ UNCHANGED <<task, made, rel, web>>

ZombieExit(w) ==
    /\ proc[w] = "zombie" /\ Busy(w) = {} /\ chain[w] = <<>>
    /\ Vanish(w)
    /\ UNCHANGED <<store, lease, rel, web>>

(* The process dies; its worker id will never be used again. *)
Crash(w) ==
    /\ w \in MayCrash /\ proc[w] # "down"
    /\ Vanish(w)
    /\ lease' = IF lease = w THEN Gone ELSE lease
    /\ run' = [r \in RunIds |-> IF run[r].worker = w THEN [run[r] EXCEPT !.worker = Gone]
                                                     ELSE run[r]]
    /\ UNCHANGED <<task, made, rel, web>>

OrphanExit(r) ==
    /\ r \in orphans
    /\ orphans' = orphans \ {r}
    /\ UNCHANGED <<store, proc, lease, silent, job, chain, agents, rel, web>>

-----------------------------------------------------------------------------
(* The codex worker: one job. *)

SetJob(w, r, p) == job' = [job EXCEPT ![w][r].phase = p]
EndJob(w, r) == job' = [job EXCEPT ![w][r] = Idle]
Requeue(w, r) == run' = [run EXCEPT ![r] = RequeueRow(@, w)]
Head1(w, op, r) == chain[w] # <<>> /\ Head(chain[w]) = [op |-> op, run |-> r]
Push(w, op, r) == chain' = [chain EXCEPT ![w] = Append(@, [op |-> op, run |-> r])]
Pop(w) == chain' = [chain EXCEPT ![w] = Tail(@)]

JobUnchanged == UNCHANGED <<made, proc, lease, silent, orphans, rel, web>>

(* tick() claims while it has a free slot: it looks at its own slots, not  *)
(* at the lease.                                                           *)
Claim(w, r) ==
    /\ proc[w] = "up" /\ Cardinality(Busy(w)) < Concurrency
    /\ job[w][r].phase = "idle"
    /\ Claimable(task, run, r)
    /\ run' = [run EXCEPT ![r].status = "running", ![r].worker = w]
    /\ SetJob(w, r, "claimed")
    /\ JobUnchanged /\ UNCHANGED <<task, chain, agents>>

Begin(w, r) ==
    LET t == run[r].task
    IN  /\ job[w][r].phase = "claimed"
        /\ IF task[t].ai
           THEN /\ task' = [task EXCEPT ![t].status = "in_progress"]
                /\ Push(w, "ensure", r)
                /\ SetJob(w, r, "ensure")
                /\ UNCHANGED run
           ELSE /\ run' = [run EXCEPT ![r] = StoppedRow(@)]
                /\ EndJob(w, r)
                /\ UNCHANGED <<task, chain>>
        /\ JobUnchanged /\ UNCHANGED agents

(* ensureWorktrees is done: the worktree of the task exists. *)
Ensured(w, r) ==
    /\ job[w][r].phase = "ensure" /\ Head1(w, "ensure", r)
    /\ Pop(w)
    /\ IF Stopping(w) THEN Requeue(w, r) /\ EndJob(w, r)
                      ELSE SetJob(w, r, "ready") /\ UNCHANGED run
    /\ JobUnchanged /\ UNCHANGED <<task, agents>>

(* invokeCodex: `stopping` is not read again, so stop() may already have   *)
(* taken its snapshot of the children.                                     *)
Spawn(w, r) ==
    /\ job[w][r].phase = "ready"
    /\ agents' = agents \cup {<<w, r>>}
    /\ SetJob(w, r, IF Stopping(w) THEN "late" ELSE "agent")
    /\ JobUnchanged /\ UNCHANGED <<task, run, chain>>

(* The poll of the control column, every two seconds while Codex runs. *)
Poll(w, r) ==
    /\ job[w][r].phase \in {"agent", "late"}
    /\ job[w][r].stop = "" /\ run[r].control # ""
    /\ job' = [job EXCEPT ![w][r].stop = run[r].control]
    /\ JobUnchanged /\ UNCHANGED <<task, run, chain, agents>>

(* Codex ends by itself, at its timeout, or by a signal. *)
AgentExit(w, r) ==
    /\ job[w][r].phase \in {"agent", "late"}
    /\ agents' = agents \ {<<w, r>>}
    /\ SetJob(w, r, "exited")
    /\ JobUnchanged /\ UNCHANGED <<task, run, chain>>

(* Codex was cut off twice (max_output_tokens), hit the usage limit, or    *)
(* the worker is stopping: back to the queue.                              *)
GiveBack(w, r) ==
    /\ job[w][r].phase = "exited"
    /\ job[w][r].stop = "" \/ Stopping(w)
    /\ Requeue(w, r)
    /\ EndJob(w, r)
    /\ JobUnchanged /\ UNCHANGED <<task, chain, agents>>

HonourStop(w, r) ==
    /\ job[w][r].phase = "exited" /\ ~Stopping(w)
    /\ \/ /\ job[w][r].stop \notin {"", "stop_revert"}
          /\ run' = [run EXCEPT ![r] = StoppedRow(@)]
          /\ SetJob(w, r, "restore")
          /\ UNCHANGED chain
       \/ /\ job[w][r].stop = "stop_revert"
          /\ Push(w, "revert", r)
          /\ SetJob(w, r, "revert")
          /\ UNCHANGED run
    /\ JobUnchanged /\ UNCHANGED <<task, agents>>

(* revertTaskWork is done: worktree and branch of the task are gone. *)
Reverted(w, r) ==
    /\ job[w][r].phase = "revert" /\ Head1(w, "revert", r)
    /\ Pop(w)
    /\ run' = [run EXCEPT ![r] = StoppedRow(@)]
    /\ SetJob(w, r, "restore")
    /\ JobUnchanged /\ UNCHANGED <<task, agents>>

(* After markStopped: the status the task had when the run was enqueued. *)
Restore(w, r) ==
    LET t == run[r].task
    IN  /\ job[w][r].phase = "restore"
        /\ task' = IF task[t].ai THEN [task EXCEPT ![t].status = Restorable(run[r].snapshot)]
                                 ELSE task
        /\ EndJob(w, r)
        /\ JobUnchanged /\ UNCHANGED <<run, chain, agents>>

(* Codex left a structured result: the worktree is inspected and the live  *)
(* spec run before the verdict is stored.                                  *)
Inspect(w, r) ==
    /\ job[w][r].phase = "exited" /\ job[w][r].stop = "" /\ ~Stopping(w)
    /\ SetJob(w, r, "verify")
    /\ JobUnchanged /\ UNCHANGED <<task, run, chain, agents>>

(* failAgentRun: Codex failed, its result is unreadable, or processRun     *)
(* threw; a worker that is stopping gives an exception back to the queue.  *)
Fail(w, r) ==
    /\ \/ job[w][r].phase = "exited" /\ job[w][r].stop = "" /\ ~Stopping(w) /\ UNCHANGED chain
       \/ job[w][r].phase \in {"ready", "verify"} /\ UNCHANGED chain
       \/ /\ job[w][r].phase \in {"ensure", "revert"}
          /\ Head1(w, job[w][r].phase, r)
          /\ Pop(w)
    /\ IF Stopping(w)
       THEN Requeue(w, r) /\ UNCHANGED task
       ELSE /\ run' = [run EXCEPT ![r] = FailRow(@)]
            /\ task' = FailTasks(task, run, r)
    /\ EndJob(w, r)
    /\ JobUnchanged /\ UNCHANGED agents

RunStatusOf(v) == CASE v = "completed" -> "completed"
                    [] v \in {"sandbox", "review"} -> "needs_review"
                    [] v = "blocked" -> "blocked"

(* updateAgentRun with the verdict: neither the row's status, nor its      *)
(* worker, nor its control is looked at.                                   *)
StoreVerdict(w, r, v) ==
    /\ job[w][r].phase = "verify"
    /\ run' = [run EXCEPT ![r] = [Finish(@, RunStatusOf(v)) EXCEPT !.verdict = v]]
    /\ SetJob(w, r, "stored")
    /\ JobUnchanged /\ UNCHANGED <<task, chain, agents>>

(* updateAgentRunRelease: only `completed` and the sandbox-limited review  *)
(* keep a pending release.                                                 *)
SealRelease(w, r) ==
    /\ job[w][r].phase = "stored"
    /\ run' = IF run[r].verdict \in {"review", "blocked"}
              THEN [run EXCEPT ![r].release = "blocked"] ELSE run
    /\ SetJob(w, r, "settle")
    /\ JobUnchanged /\ UNCHANGED <<task, chain, agents>>

(* The end of processRun: the status of the task, or one continuation.     *)
(* The last alternative is the INSERT of a continuation that the unique    *)
(* index refuses, because the web process inserted a run after the worker  *)
(* had looked for one: failAgentRun overwrites the verdict.                *)
Settle(w, r) ==
    LET t == run[r].task
        put(s) == task' = [task EXCEPT ![t].status = s]
        keepRuns == UNCHANGED <<run, made>>
        unsettled == run[r].verdict \in {"review", "blocked"}
    IN  /\ job[w][r].phase = "settle"
        /\ \/ ~task[t].ai /\ UNCHANGED task /\ keepRuns
           \/ task[t].ai /\ run[r].verdict = "completed" /\ put("in_progress") /\ keepRuns
           \/ task[t].ai /\ run[r].verdict = "sandbox" /\ UNCHANGED task /\ keepRuns
           \/ task[t].ai /\ unsettled /\ put("blocked") /\ keepRuns
           \/ /\ task[t].ai /\ unsettled /\ ~run[r].auto
              /\ Enqueue(task, run, t, TRUE)
              /\ put(IF Inserts(task, run, t) THEN "in_progress" ELSE "blocked")
           \/ /\ task[t].ai /\ unsettled /\ ~run[r].auto
              /\ HasActiveRun(run, t)
              /\ run' = [run EXCEPT ![r] = FailRow(@)]
              /\ task' = FailTasks(task, run, r)
              /\ UNCHANGED made
        /\ EndJob(w, r)
        /\ UNCHANGED <<proc, lease, silent, chain, agents, orphans, rel, web>>

-----------------------------------------------------------------------------
(* The codex worker: the deferred clean-up of a stopped run. *)

ClaimCleanup(w, r) ==
    /\ proc[w] = "up"
    /\ \A i \in DOMAIN chain[w] : chain[w][i].op # "cleanup"
    /\ CleanupReady(run, r)
    /\ run' = [run EXCEPT ![r].control = "cleanup_running"]
    /\ Push(w, "cleanup", r)
    /\ JobUnchanged /\ UNCHANGED <<task, job, agents>>

CleanedUp(w, r) ==
    /\ Head1(w, "cleanup", r)
    /\ Pop(w)
    /\ run' = IF run[r].control = "cleanup_running"
              THEN [run EXCEPT ![r].control = ""] ELSE run
    /\ JobUnchanged /\ UNCHANGED <<task, job, agents>>

-----------------------------------------------------------------------------
(* The release worker, as far as PATCH /api/agent-runs/:id/release shows   *)
(* it.  What it decides between two of these requests (git, gates, deploy, *)
(* probes) is nondeterministic here.  `rel` is the item the owner of the   *)
(* lease 'release-worker' works on; the handler answers 409 to everyone    *)
(* else, so a lost lease is RelDrop.                                       *)

ReleaseCandidate(rec) ==
    \/ rec.status = "completed"
    \/ rec.status = "needs_review" /\ rec.verdict = "sandbox"

(* Mutant of Open: a final release_status may be overwritten. *)
OpenAlways(r) == rel.run = r

(* The handler refuses (409) to change a final release_status. *)
Open(r) == rel.run = r /\ run[r].release \notin Final

RelUnchanged == UNCHANGED <<made, worker, web>>

(* GET /api/tasks and selectReleasableTasks: `seen` is the status in this  *)
(* snapshot, which is used for as long as the item lasts.                  *)
RelTake(r) ==
    LET t == run[r].task
    IN  /\ rel.run = 0
        /\ Latest(run, r) /\ ReleaseCandidate(run[r])
        /\ run[r].release \in LiveRelease \cup {"waiting_mainline"}
        /\ task[t].ai /\ task[t].status # "done"
        /\ rel' = [run |-> r, seen |-> task[t].status]
        /\ RelUnchanged /\ UNCHANGED <<task, run>>

RelWrite(r, s) == run' = [run EXCEPT ![r].release = s]

(* status 'processing' with any phase before, or with phase 'verifying'. *)
RelProcess(r, s) ==
    /\ Open(r) /\ s \in {"processing", "verifying"}
    /\ s = "verifying" => run[r].release \in {"processing", "verifying"}
    /\ RelWrite(r, s)
    /\ RelUnchanged /\ UNCHANGED <<task, rel, web>>

(* A failure that is retried, a deferral, a hold for a red mainline. *)
RelPutBack(r, s) ==
    /\ Open(r) /\ s \in {"pending", "retrying", "waiting_mainline"}
    /\ RelWrite(r, s)
    /\ rel' = NoRelease
    /\ RelUnchanged /\ UNCHANGED task

(* The release gives up: handleReleaseFailure, handleScenarioFailure. *)
RelBlock(r, s) ==
    /\ Open(r)
    /\ s \in {AfterBlock(run[r].task, rel.seen), "blocked", "in_progress"} \ {"done"}
    /\ RelWrite(r, "blocked")
    /\ task' = [task EXCEPT ![run[r].task].status = s]
    /\ rel' = NoRelease
    /\ RelUnchanged

RelFinish(r) ==
    /\ Open(r) /\ run[r].release = "verifying"
    /\ RelWrite(r, "released")
    /\ task' = [task EXCEPT ![run[r].task].status = AfterRelease(run[r].task)]
    /\ rel' = NoRelease
    /\ RelUnchanged

(* The tick ends without a write: a 409, an exception, a lost lease, or a  *)
(* crash of the release worker.                                            *)
RelDrop ==
    /\ rel.run # 0
    /\ rel' = NoRelease
    /\ RelUnchanged /\ UNCHANGED <<task, run>>

(* recoverMainlineBlockedTasks -> reopenAgentRunRelease *)
RelReopen(r, s) ==
    LET t == run[r].task
    IN  /\ rel.run = 0 /\ s \in {"retrying", "waiting_mainline"}
        /\ run[r].release = "blocked" /\ ReleaseCandidate(run[r])
        /\ Latest(run, r)
        /\ task[t].status # "done" /\ task[t].ai
        /\ RelWrite(r, s)
        /\ task' = IF task[t].status \in {"blocked", "new"}
                   THEN [task EXCEPT ![t].status = "in_progress"] ELSE task
        /\ RelUnchanged /\ UNCHANGED rel

-----------------------------------------------------------------------------
(* The system. *)

(* The worker's thread is not in the middle of a sequence of writes. *)
Turn(w) == \A r \in RunIds : job[w][r].phase \notin {"claimed", "restore", "stored", "settle"}

Web(t) ==
    \/ StartRun(t) \/ ReviewAgain(t) \/ Resume(t)
    \/ \E s \in PatchStatuses \cup {"unset"}, ai \in PatchAi : PatchTask(t, s, ai)
    \/ \E c \in StopControls : Stop(t, c)

(* Writes that follow in the same turn of the worker's event loop ... *)
SameTurn(w, r) ==
    Begin(w, r) \/ Restore(w, r) \/ SealRelease(w, r) \/ Settle(w, r)

(* ... and the steps of a job that begin a new turn. *)
NextTurn(w, r) ==
    /\ Turn(w)
    /\ \/ Ensured(w, r) \/ Spawn(w, r) \/ Poll(w, r) \/ AgentExit(w, r)
       \/ GiveBack(w, r) \/ HonourStop(w, r) \/ Reverted(w, r)
       \/ Inspect(w, r) \/ Fail(w, r)
       \/ \E v \in Verdicts : StoreVerdict(w, r, v)

JobStep(w, r) == SameTurn(w, r) \/ NextTurn(w, r)

Process(w) ==
    \/ Start(w) \/ Crash(w)
    \/ /\ Turn(w)
       /\ \/ Stall(w) \/ Heartbeat(w) \/ StopBegin(w) \/ StopEnd(w) \/ ZombieExit(w)
          \/ \E r \in RunIds : Claim(w, r) \/ ClaimCleanup(w, r) \/ CleanedUp(w, r)

Release ==
    \/ RelDrop
    \/ \E r \in RunIds :
        \/ RelTake(r) \/ RelFinish(r)
        \/ \E s \in ReleaseStatus : RelProcess(r, s) \/ RelPutBack(r, s) \/ RelReopen(r, s)
        \/ \E s \in TaskStatus : RelBlock(r, s)

Next ==
    \/ web = NoRequest /\ \E t \in Tasks : Web(t)
    \/ Answer
    \/ \E w \in Workers : Process(w) \/ \E r \in RunIds : JobStep(w, r)
    \/ \E r \in RunIds : OrphanExit(r)
    \/ web = NoRequest /\ Release

Spec == Init /\ [][Next]_vars

(* Timers and the supervisor: a job's awaits end (Codex by its timeout),   *)
(* stop() ends, the clean-up ends, and a dead worker is started again.     *)
Fairness ==
    \A w \in Workers :
        /\ WF_vars(Start(w))
        /\ WF_vars(Turn(w) /\ StopEnd(w))
        /\ \A r \in RunIds :
            /\ WF_vars(JobStep(w, r))
            /\ WF_vars(Turn(w) /\ CleanedUp(w, r))

FairSpec == Spec /\ Fairness

-----------------------------------------------------------------------------
(* Properties. *)

(* Types of the tables and of the volatile state of every process. *)
TypeOK ==
    /\ task \in [Tasks -> Task]
    /\ run \in [RunIds -> Run]
    /\ made \in 0..MaxRuns
    /\ proc \in [Workers -> ProcState]
    /\ lease \in Workers \cup {NoWorker, Gone}
    /\ silent \subseteq Workers
    /\ job \in [Workers -> [RunIds -> [phase : Phase, stop : Control]]]
    /\ chain \in [Workers -> Seq(Op)]
    /\ agents \subseteq Workers \X RunIds
    /\ orphans \subseteq RunIds
    /\ rel \in [run : 0..MaxRuns, seen : TaskStatus]
    /\ web \in [task : Tasks \cup {NoTask}, seen : TaskStatus]

(* A queued or running run is the newest run of its task.  Every "ORDER BY *)
(* created_at DESC LIMIT 1" of the code takes this for granted: a run that *)
(* a crash, a stop or a stale-run release brings back must not be older    *)
(* than another one.                                                       *)
ActiveIsLatest == \A r \in RunIds : Active(run[r]) => Latest(run, r)

(* Once the release worker has taken a result or begun to release it, and  *)
(* until its release is final, no run of the task is queued or coding: an  *)
(* agent would change the worktree the release worker validates, pushes    *)
(* and removes.  An enqueue may be cut by commits of the worker, a task    *)
(* closed and opened again, a release dropped and taken up at any step.    *)
InRelease(r) ==
    /\ run[r].release \notin Final
    /\ rel.run = r \/ run[r].release \in {"processing", "verifying", "retrying"}
BegunReleaseExcludesRun ==
    \A r \in RunIds : InRelease(r) => ~HasActiveRun(run, run[r].task)

(* A job that has not stored its verdict still holds its row: 'running',   *)
(* under this worker.  The unconditional UPDATEs of the code (failAgentRun,*)
(* markStopped, updateAgentRun) are safe only because of it.               *)
HoldsRow(w, r) == run[r].status = "running" /\ run[r].worker = w
JobOwnsRow ==
    \A w \in Workers, r \in RunIds :
        job[w][r].phase \notin {"idle", "restore", "stored", "settle"} => HoldsRow(w, r)

(* No running row is forgotten: a row in the name of a live worker is      *)
(* being executed by it, whatever crashed or was requeued before.          *)
RunningHasJob ==
    \A w \in Workers, r \in RunIds : HoldsRow(w, r) => job[w][r].phase # "idle"

(* At most one Codex process works in the worktree of a task. *)
CodexRuns == {a[2] : a \in agents} \cup orphans
OneAgentPerTask ==
    /\ \A a, b \in agents : run[a[2]].task = run[b[2]].task => a = b
    /\ \A r \in orphans, q \in CodexRuns : run[r].task = run[q].task => r = q
    /\ orphans \cap {a[2] : a \in agents} = {}

(* Git never removes the worktree of a task (stop with revert, deferred    *)
(* clean-up) while Codex works in it.                                      *)
NoRevertUnderAgent ==
    \A w \in Workers :
        chain[w] # <<>> /\ Head(chain[w]).op \in {"revert", "cleanup"} =>
            \A q \in CodexRuns : run[q].task # run[Head(chain[w]).run].task

(* A row in 'cleanup_running' is in the queue of the worker that serves:   *)
(* one that a restart left behind is taken up again.                       *)
CleanupHasExecutor ==
    \A w \in Workers, r \in RunIds :
        run[r].control = "cleanup_running" /\ proc[w] = "up" =>
            \E i \in DOMAIN chain[w] : chain[w][i] = [op |-> "cleanup", run |-> r]

(* A final release_status stays, but for the reopening of the newest run:  *)
(* a release superseded by a new run never resumes, a released one is      *)
(* never rewritten by a late release worker or by a new run.               *)
FinalReleaseStays ==
    [][\A r \in RunIds :
        run[r].release \in Final /\ run'[r].release # run[r].release =>
            /\ run[r].release = "blocked"
            /\ run'[r].release \in {"retrying", "waiting_mainline"}
            /\ Latest(run, r)]_vars

(* A running row does not stay running for ever, through crashes, restarts *)
(* and graceful stops of the worker.                                       *)
RunEnds == \A r \in RunIds : run[r].status = "running" ~> run[r].status # "running"

(* The abstract specification that these tables implement, with and        *)
(* without a worker that outlives its lease: the runs of a task never      *)
(* overlap and a closed run never comes back.                              *)
Life(rec) == IF rec.status \in {"absent", "queued", "running"} THEN rec.status ELSE "closed"

Ledger == INSTANCE RunLedger WITH
    owner <- [r \in RunIds |-> run[r].task],
    life <- [r \in RunIds |-> Life(run[r])]

ImplementsLedger == Ledger!Spec

-----------------------------------------------------------------------------
(* What comments and answers of the code say and the code does not do: TLC *)
(* finds it violated (see README.md).                                      *)

(* app.js answers 409 to a request for a run of a task that "is already in *)
(* release", and enqueueAgentRun supersedes a pending marker "atomically   *)
(* before the new queue row is inserted": no run is queued or coding while *)
(* a result of the task is on its way to DEV (hasActiveRelease).  A verdict*)
(* that is stored between its two queries is a result it does not see.     *)
ReleaseExcludesRun ==
    \A r \in RunIds : ReleaseBusy(run[r]) => ~HasActiveRun(run, run[r].task)

(* store.js, claimNextCleanupRun: the clean-up of an old run waits until   *)
(* the task is free, because the worktree belongs to all runs of the task. *)
(* A newer completed result on its way to DEV still needs it.              *)
CleanupSparesNewerResult ==
    \A w \in Workers : chain[w] # <<>> /\ Head(chain[w]).op = "cleanup" =>
        LET c == Head(chain[w]).run
        IN  \A q \in RunIds : run[q].task = run[c].task /\ q > c => ~ReleaseBusy(run[q])
==============================================================================
