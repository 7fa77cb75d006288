# GBA QA Desk: a TLA+ model

This directory models and checks the QA desk in `src/`: a bug desk whose tasks are
repaired by a Codex worker in git worktrees and brought to the DEV environment by a
release worker. The documentation of the program is in Ukrainian (`src/README.md`); this
text, the modules and the properties are in English.

Contents: 1 the system, 2 the modules, 3 how the model corresponds to the code, 4 the
runs, 5 fairness, 6 findings, 7 proofs, 8 what is not modelled, 9 where to go on.

## 1. The system

Several operating-system processes share one SQLite file and a directory of git worktrees.

| component | state it keeps | operations | how it interacts |
|---|---|---|---|
| tables `tasks`, `agent_runs`, `worker_leases` (`store.js`) | status and AI mode of a task; status, `control`, `release_status`, `worker_id`, verdict of a run; owner and heartbeat of a lease | `enqueueAgentRun`, `claimNextAgentRun`, `requestStop`, `claimNextCleanupRun`, `requeueOrphanedRuns`, ... | all processes; the web and the Codex worker execute SQL, the release worker and the log sentinel go through HTTP |
| web API (`app.js`) | none besides the tables and a login throttle | PATCH task, review again, start, stop, resume, reorder, PATCH release, leases | called by people, by the release worker and by the log sentinel |
| Codex worker (`codex-worker.js`, `worker.js`) | its worker id, the set of active jobs and children, a chain of serialised git work, a pause after a usage limit | `start`, `stop`, `heartbeat`, `tick`, `processRun`, `cleanupRun` | claims rows, spawns Codex in the worktree of the task, polls `control` every two seconds, writes the verdict |
| release worker (`release-worker.js`) | a lease, caches of mainline gates and of usage, `release_phase` and `release_evidence` of the run | select, validate, push, migrate, deploy, verify, finalise; hold, defer, retry, block; follow-up runs; bisection of batches; mainline guardian | reads all tasks, writes `release_status` through the API, pushes branches, removes worktrees |
| worktree synchronisation (`codex-worker.js`) | the task branch, HEAD of the worktree, a rebase in progress, refs under `refs/gba-qa/preserved` | `ensureWorktrees`, `synchronizeWorktreeBaseline` | runs in the chain of git work before Codex starts; the release commits and publishes on the same branch |
| session and context (`codex-context.js`) | session id of a task, lessons file | `decideCodexSession`, `appendLesson`, prompt assembly | read by a job before it spawns Codex |
| host gates (`host-gates.js`) | lock files with process ids, a pending marker | `acquire`, `acquireExclusive`, release | used by the test gates of the release worker and of agents on the same host |
| log sentinel (`log-sentinel.js`) | a JSON state file: known fingerprints, cooldowns, hourly counter | read docker logs, group lines, file a task | creates tasks by HTTP; the release worker closes them without QA |
| builds (`store.js`) | numbered and pending builds, the tasks of each | `ensureBuild`, `markTaskProcessed` | written when the status of a task is patched |
| queue order (`store.js`) | `queue_priority` | `reorderQueuedRun` | read by the claim |
| comments, uploads, transcription, intake capture | own tables and files | create, read, delete | only the intake capture touches runs: it delays the first enqueue |
| authentication | users, sessions, a throttle in memory | login, logout, provision | guards the API |
| verification (`verification-spec.js`, `release-worker.js`) | attempt and check of a live spec; `followUp` in the release evidence | `verifyScenario`, `runLiveVerification`, `handleScenarioFailure`, `recoverVerificationFollowUps` | calls DEV through the proxy; enqueues follow-up runs by HTTP |
| mainline guardian (`release-worker.js`) | in memory: per repository the SHA, status and failure it knows; the gate cache | probe of quiet mainlines, confirmation, MAIN RED task | runs between releases; opens and closes tasks by HTTP |
| dev API proxy (`dev-api-proxy.js`) | requests in flight, a cached token and its pending renewal | one request: admission, token, call, retry after a rejected token | used by the verification and by agents |
| metrics, topology | none | read | read-only |
| frontend (`src/src`) | none of the system's | requests | its requests are the inputs of the web API |

**What is hard.** The processes share rows and directories but no lock. A web handler is
one turn of an event loop, yet outside a transaction another process may commit between its
statements. A job of the Codex worker lasts up to 45 minutes and writes its outcome in
three commits; in between people stop it, close the task or turn AI off, the worker is
restarted, loses its lease, or dies. What a crash left is recovered from the columns
`status` and `control` alone. A stop with revert deletes a worktree that belongs to every
run of the task. A release pushes to several repositories, one after the other, and takes
its decisions on a snapshot of the tasks. `PROJECT.json` lists these hazards at their lines.

**What makes each component correct.**

- *Runs*: the runs of a task never overlap; a closed run stays closed; a running row has
  somebody who executes it, and ends; an accepted stop is not lost.
- *Releases*: while a result is on its way to DEV no agent of the task is queued or at
  work; a final release status is final; a superseded release never resumes.
- *Worktrees*: at most one Codex process works in one; git removes none under an agent or
  under a result that is still to be released.
- *Release pipeline*: nothing is pushed that was not validated as a whole on the mainline
  it is pushed on; a partial push is never reported as released, and no work is lost with a
  worktree; only a task that has a part in a red gate stays blocked for it; an environment
  failure costs no attempt; every release comes to an end, a hold when the mainline is green.
- *Verification*: the proxy loses neither slots nor waiters; only a scenario that DEV
  contradicts is charged to the task; a failure is followed up once, and not for ever.
- *Mainline guardian*: one open task about a red mainline, opened only after two probes agree,
  closed when the mainline is green.
- *Worktree synchronisation*: no committed work is lost by any sequence of git commands, and
  the agent starts on the mainline it was promised and on all its earlier work.
- *Host gates*: a slot has one holder; a request is granted or given up; nobody leaves files
  or markers behind.
- *Log sentinel*: one open task per fingerprint, the cooldowns and the hourly limit, also
  through a crash.

## 2. The modules

| module | what it is |
|---|---|
| `RunRows` | the two tables and the SQL statements of `store.js`, as operators from tables to tables; the mutants of these statements stand beside them |
| `AgentRuns` | the processes: web handlers, Codex workers with their jobs and git work, and the release worker as far as it writes rows; the properties |
| `RunLedger` | the abstract specification: what the desk promises of the runs of a task, whoever writes the table |
| `ReleasePipeline` | the release worker from the inside: repositories, mainlines, DEV, worktrees, the steps of one tick; the properties |
| `DevApiProxy` | one request through the proxy, the shared login, the limit of requests in flight |
| `LiveVerification` | the scenario check of a release and the runs that follow a failure; extends `DevApiProxy`, whose clients it schedules |
| `HostGates` | lock files and pending markers of several processes on one host |
| `LogSentinel` | the sentinel with its state file, beside the people who edit its tasks |
| `MainlineGuardian` | the guardian of the release worker with the gate cache |
| `WorktreeSync` | one worktree, command by command |
| `MCAgentRuns`, `MCReleasePipeline`, `MCHostGates`, `MCMainlineGuardian` | constants for TLC |
| `MCAgentEnvironments` | `AgentRuns` for TLC in two environments, one of which the initial state picks |
| `AgentRuns_proofs`, `AgentRuns_safety` | proofs about `AgentRuns`: rows and the ledger; jobs, git work, Codex processes and releases |
| `ReleasePipeline_proofs`, `LiveVerification_proofs`, `MainlineGuardian_proofs`, `WorktreeSync_proofs`, `HostGates_proofs`, `LogSentinel_proofs` | proofs about the module of the same name |

`AgentRuns` extends `RunRows`. `RunLedger` is instantiated in `AgentRuns` with a refinement
mapping (`owner` is the column `task_id`, `life` folds the four closed statuses into one).
`LiveVerification` composes the release worker with the proxy and its other clients. The other
modules look into one component each and replace the rest of the system by what it may do to
them: `ReleasePipeline` takes one completed run per task as given and looks into the steps
between two writes that `AgentRuns` leaves open; `LiveVerification` starts where the pipeline
has deployed; `WorktreeSync` is what `AgentRuns` calls one piece of git work.

## 3. Model and code

**State.** `task` and `run` are the tables; `made` counts the inserted runs; `proc` is the
worker process of each slot, `lease` the owner of the lease `codex-worker`, `silent` the live
processes whose heartbeat is too old. `job[w][r]` is the call of `processRun` for run `r` in
process `w`: the await it stands at, and the stop request it has read. `chain[w]` is
`worktreeMutationChain`. `agents` are the Codex children of live workers, `orphans` those
that outlived their worker. `rel` is the item of the release worker with the task status it
saw. `web` is the enqueue the web process is in the middle of.

**Atomicity.** A web handler is one action: it awaits nothing between its reads and writes.
The exception is `enqueueAgentRun`, which the routes call outside a transaction: it is two
actions (`Ask`, `Answer`), cut between the query for an active release and the query for an
active run, where workers may commit; a commit between any other two of its statements has the
effect of one before `Ask` or of one at the cut. The worker's own enqueue, the automatic
continuation, is one action (`Settle`), with the outcome that its `INSERT` meets a run which the web
process inserted meanwhile.
A job is cut at every await. Where it commits several rows without an await, it is cut
between the commits too, so that a crash or a web request may fall there; `Turn` keeps the
worker's own thread out.

| actions | code |
|---|---|
| `StartRun`, `PatchTask`, `ReviewAgain`, `Stop`, `Resume` | routes of `app.js` with the statements of `store.js` |
| `Start`, `Heartbeat`, `StopBegin`, `StopEnd` | `start` (with the recovery of `requeueOrphanedRuns`), `heartbeat`, the two halves of `stop` |
| `Stall`, `Crash`, `ZombieExit`, `OrphanExit` | the environment: missed heartbeats, death of the process, end of a worker that lost its lease, end of a Codex process without parent |
| `Claim`, `Begin`, `Ensured`, `Spawn`, `Poll`, `AgentExit` | `tick`, then `processRun` up to the end of Codex |
| `GiveBack`, `HonourStop`, `Reverted`, `Restore`, `Inspect`, `Fail` | its exits before a verdict |
| `StoreVerdict`, `SealRelease`, `Settle` | its three last commits: verdict, release marker, status of the task or one automatic continuation |
| `ClaimCleanup`, `CleanedUp` | `claimNextCleanupRun`, `cleanupRun` |
| `RelTake` ... `RelReopen` | `selectReleasableTasks` and the requests `PATCH /api/agent-runs/:id/release` |

`PROJECT.json` maps every definition to its lines.

**ReleasePipeline.** `main`, `dev` and `tree` are the world outside the worker: the mainlines
at origin, the commits DEV runs, the worktrees. A commit is what it contains: the tasks whose
work is in it and the number of foreign pushes. `row` is what the desk stores of a release
(status, attempts, repositories, and of the evidence the recorded files, the gate that failed,
whether the clean mainline passed it, the hold). `seen` and `excluded` are `firstSeenAt` and
`batchExcluded`; the other variables are the locals of a tick, `pc` the await it stands at.
What the code of the tasks is like (whose work turns which gate red, alone or together, what
does not merge, which foreign version is red) is fixed at the start in `code`, which the worker
never reads directly.

| actions | code |
|---|---|
| `Tick` | `tick`: sweep of released worktrees, selection, batch or single, holds, recovery of blocked releases |
| `Prepare` | `prepareRelease` of one task, with the fetch before it |
| `Integrate`, `Validate` | merges and gates of `releaseTask` and `releaseGroup`, the probe of the clean mainline, `bisectCulprit`, and what `handleReleaseFailure` makes of the result |
| `Publish`, `Push`, `Record` | the last comparison with the mainlines, one push per repository, the evidence of a batch |
| `Deploy`, `Finalize`, `Cleanup`, `Seal` | `deployAndFinalize`, `finalizeEntry`, `cleanupReleasedWorktrees`, the final write |
| `Abort`, `Crash` | an exception that ends the tick, and the death of the process, at any await |
| `PushOutside`, `Close` | a foreign push, a person closing the task |

Inside these actions a disjunct with `Fault` is a failure of the machine (a fetch, a push that
may or may not have landed, docker on some of the services, a gate or a probe that falls to
the host). Faults and crashes are counted together, up to `MaxFaults`. Simplifications: the
checks of a repository are one gate, a function of the commit, so a flaky test that the worker
does not recognise is outside the model; a fetch at the head of a tick succeeds (a stale
mainline is fetched again by `Prepare`); attempts are counted up to three, beyond which the
code makes no difference; the person who closes a task does so before its release is over.

**Abstractions.** Texts, timestamps and evidence are dropped. A run is numbered by its
insertion, so `ORDER BY created_at DESC LIMIT 1` is the largest number (the code cannot
insert two runs of a task in one millisecond without closing the first). `worker_id` is kept
while the run is running, the only time the code reads it. The verdict of the quality gate is
one of four values, chosen freely among `Verdicts`. The order of the queue and the pause
after a usage limit only delay claims, so any claimable run may be claimed. A second Codex
invocation in the same job (lost session, finalisation) prolongs the phase `agent`. The
release worker of `AgentRuns` has one item at a time: the batches of `releaseGroup` write the same statuses
for each member. What it decides between its writes is nondeterministic, `RelReopen` even
without the condition on the snapshot: the model allows more than the code, and what holds
of it holds of the code.

**HostGates.** `owner` and `signed` are the lock directory: who created a file, and whether
its process id is already in it. `gate[p]` is the call of `acquire` or `acquireExclusive` in
process `p` with the files it still has to try, `held` what it believes it holds, `robbed` the
files that were removed under a living holder. Creating a file and writing into it are two
steps (`Open`, `Sign`), as are reading and removing a file that looks dead (`Look`,
`Remove`). Waiting is a number of polls (`MaxPolls`). A process id is not given out again.

**DevApiProxy and LiveVerification.** `req[c]` is a request of client `c` and the await it
stands at; `provider` and `pending` are the cached token and the login under way. A token is
numbered by its issue; DEV may forget tokens, and a token may grow old. `verify` is the release
worker in `verifyScenario`: the step (`smoke`, `live`, `asked`, `ui`, `history`, `record`,
`enqueue`), the attempt, the check. What DEV makes of a result is fixed when the run ends
(`scenario`); "works" includes a UI specification that is fit to run. The AI mode of the task
is left out.

**LogSentinel.** Time is the age of what the sentinel remembers, cut off where no comparison
sees a difference (`MaxAge`); `Tick` makes everything older. `mem` and `disk` are the state in
memory and in the file. The creations of the last hour, a list in the code, are the set of their
ages: the container's pause is between any two of them. A log line is an error, a line below the
threshold, an ignored line or a continuation. A file that was torn by a crash is read as an empty state, as the code does.

**MainlineGuardian.** `health` is what the gates of a mainline show, `cache` and `known` are
the gate cache and `guardianState`, `job` is the walk over the repositories. The time between
probes is longer than a step of the walk.

**WorktreeSync.** A commit is what it contains: the mainline commit it is based on and the
pieces of work. `tree` is the worktree: whether HEAD is on the branch, where it is otherwise,
whether a rebase is in progress, whether something is not committed. Every git command is an
action (`AddWorktree`, `Look`, `Forward`, `Rebase`, `Abort`, `Preserve`, `Detach`,
`MoveBranch`, `SwitchBack`), and `CommandFails` and `Crash` may come at each. A rebase that
begins off the branch is not interrupted in the model.

| module | actions | code |
|---|---|---|
| `HostGates` | `Ask`, `CheckPending`, `Sweep`, `Scan`, `Open` ... `Remove`, `Grant`, `SleepsOn`, `GivesUp`, `Finish`, `Fail`, `GiveBack`, `Crash` | `withGateSlot`, `foreignExclusivePending`, `admissible`, `acquireLockFile`, the loops of `acquire` and `acquireExclusive`, their errors |
| `DevApiProxy` | `Arrive`, `LoggedIn`, `LoginFails`, `Answers200`, `Breaks`, `Rejected`, `RejectedAgain`, `Expire`, `Forget` | the request handler and the token provider; DEV |
| `LiveVerification` | `BeginVerify`, `Smoke`, `AskDev`, `ReadDev`, `Ui`, `ReadHistory`, `RecordFailure`, `EnqueueFollowUp`, `Recover`, `Crash` | `verifyScenario`, `runLiveVerification`, `handleScenarioFailure`, `recoverVerificationFollowUps` |
| | `Start`, `CodexEnds`, `NotDeployed` | the run of Codex in between and its way to DEV, with the automatic continuation |
| `LogSentinel` | `Feed`, `Quiet`, `Begin`, `FindByMarker`, `FindById`, `Create`, `CreateUnheard`, `SaveState`, `CallFails`, `Crash` | the collector of lines, `handleGroup` |
| | `Close`, `Edit`, `Tick` | people, time |
| `MainlineGuardian` | `Tick`, `Walk`, `Judge`, `Confirm`, `Verdict`, `FindRed` ... `CloseGreen`, `Unheard`, `Restart` | `guardMainlines` and the functions it calls |
| | `Push`, `PersonCloses`, `TimeIsUp` | the environment |
| `WorktreeSync` | the commands above; `Start`, `Agent`, `Again`, `Revert`; `Prepare`, `Publish`, `Clean`; `MainMoves` | `ensureWorktrees`, `synchronizeWorktreeBaseline`; the Codex run and its revert; the release worker on the same branch; foreign pushes |

## 4. The runs

The runs of `AgentRuns` bound the number of inserted runs (`MaxRuns`, in the guard of
`Enqueue`), and the values people send (`PatchStatuses`, `PatchAi`, `StopControls`). Two runs
are what the interesting cases need: each hazard is an old run of a task meeting a newer one,
and no statement looks at three rows of a task. Deadlock is checked in every passing run but
`verification` and `sentinel`: there the bounds on runs, tokens and task ids, which the code
does not have, stop the model.

| run | instance | shows |
|---|---|---|
| `core` | two tasks (filed by the sentinel) in one area, one worker with two slots that may crash, two runs; verdicts `completed`, `sandbox` and `review`, stop with revert, closing the task; enqueues cut by commits of the worker | `TypeOK`; a result that is taken for release, or whose release has begun, excludes a queued or running run; a job that has no verdict yet owns its row; every running row of a live worker has its job; one agent per task; no worktree is removed under an agent; an interrupted clean-up is taken up again; a final release status stays final |
| `environments` | one task, two runs, verdict `review`, in two environments; *harsh*: two workers, one of which may miss its heartbeats, lose its lease and go on writing, and people who ask for another review; *calm*: one worker that may crash, AI off and on, stop with revert, Codex processes that survive their worker | an active run is the newest of its task; the system implements `RunLedger`; `RunEnds`: a running row ends or returns to the queue |
| `pipeline` | `ReleasePipeline`: two tasks that change the same two repositories, one with a migration, batching on; five kinds of code (harmless; one task breaks a gate; the two together break one; they do not merge; the first of two foreign pushes is red); one fault or crash anywhere; one task may be closed | what is released is live in every repository; no work is lost; nothing pushed or deployed is undone; a green mainline stays green; who is blocked by a gate that the mainline passes has a part in it; every release settles |
| `gates` | two processes that ask for a full vitest, in the foreground or background, a dotnet test or a related vitest; one dotnet slot; one poll; one death or error | a file has two believers only after one was robbed; a request that is over leaves no file with its process id, and a gate runs with the whole host, one slot or nothing; every request is answered |
| `verification` | three clients of a proxy with two slots: the verifier, an agent, another one; two tokens; one check, two attempts; three runs, of which two verifications may fail; one fault | the counted slots are those in use; who waits for a login has one under way; a scenario that works is charged only if DEV itself answered with a server error; a failure is followed up once; the newest runs are never as many returns in a row as the limit says, unless a history could not be read; every verification and every recorded follow-up settles |
| `sentinel` | one error in two fingerprints, groups of two lines, two tasks an hour, three task ids, one edit by a person, one fault | no second open task about a fingerprint; both cooldowns and the hourly limit, unless a task was filed that the file does not tell of |
| `guardian` | two mainlines, one of them with a flaky test; one push, one disturbed probe, one fault (a failed request, a restart) | one open task; opened only after two probes on one commit agreed; the task follows the mainline, unless the desk was not told |
| `worktree` | four mainline commits, three pieces of work, two faults | committed work is in the mainline, on the branch or preserved; an agent starts on its base, with all earlier work of the task before it or under a preserved ref |
| `beside_release`, `late_cleanup`, `part_shipped`, `gates_exclusive` | one property each | violated, see section 6 |

Which environment a property needs is part of what the runs show:

- `ActiveIsLatest` and `ImplementsLedger` hold even with a worker that lost its lease and
  goes on writing, and with interrupted enqueues. They rest on the unique index on active
  runs and on the guards of the requeueing statements.
- `RunningHasJob` holds with such a worker as well: only the claim of a worker puts its name on a
  row, and every end of a job takes the row out of `running`, whoever holds it by then.
- `JobOwnsRow`, `NoRevertUnderAgent`, `OneAgentPerTask`, `CleanupHasExecutor`,
  `BegunReleaseExcludesRun` and `FinalReleaseStays` need a worker that does not miss its heartbeats for
  as long as the lease lasts (`MayStall = {}`). A worker that was silent for so long has its rows
  recovered by its successor, and its later writes go by run id only: TLC refutes each of them for
  two workers of which one may stall.
- `RunEnds` holds in both environments: whatever a worker that lost its lease still writes takes
  rows out of `running`, never back into it, and a crash leaves its rows to the next `start`.
- That no run stands beside a result on its way to DEV (`ReleaseExcludesRun`) is false in every
  environment, because of the gap in `enqueueAgentRun` (section 6). What is left of it is
  `BegunReleaseExcludesRun`: the release worker takes newest runs only, and its request waits for
  the end of the enqueue, so that no agent is at work once it has taken the result.
- `OneAgentPerTask` and `NoRevertUnderAgent` are stated for a container: the worker is process 1
  of its PID namespace, so that Codex dies with it (`ChildrenOutlive = FALSE`; with `TRUE` TLC
  refutes the first).
- `NoSecondTask` holds whatever is lost, by the marker in the notes of the task.
  `CooldownsKept` and `HourlyLimit` need the file: they except a creation that was lost between
  the desk and the file (`forgot`).

For `pipeline` two tasks and two repositories are the least that have a batch with an innocent
member, a half pushed release and another task to ship it. Two foreign pushes make a mainline
red and green again. One fault is enough to stop any step half way and to leave what a retry
has to cope with; the same instance with two faults and one foreign push (1.9 million states)
satisfies the safety properties too, but takes too long together with liveness. For
`verification` three clients and two slots make a full proxy, a shared login and a login that
somebody else's rejection restarts. Three runs are one more than the limit of two, so that the limit is
reached; that the count starts anew after it is seen with six runs, a limit of three, two faults and
no other client (1.7 million states, where `OneFollowUpPerFailure` and `DirectReturnsBounded` hold as
well), and proved. For `worktree` two faults are an interrupted command and a failure of the one that
repairs it.

`SYMMETRY` on tasks is used in `core`: invariants and one action property, in which no task is
singled out.

## 5. Fairness

`RunEnds` is checked under weak fairness of: `Start` (the supervisor restarts a dead
worker: `restart: unless-stopped` in compose, systemd without Docker), the steps of a job
(each await ends: git commands have time limits, Codex is killed after
`CODEX_TIMEOUT_MS`, SQLite statements do not wait for people), `StopEnd` (`stop` waits a
bounded time) and `CleanedUp`. No fairness is assumed of people, of the release worker, of
crashes, of the poll of `control` as distinct from the other steps of its job, or of claims.

`EveryReleaseSettles` is checked under weak fairness of the worker of `ReleasePipeline` as a
whole: its poll timer always comes again, and every command it runs ends or times out. The
bound on faults says that the machines behave in the end; with endless faults the code retries
for ever, by design. Recovery of blocked releases waits for an interval and is not needed.

`EveryRequestAnswered` is checked under weak fairness of the steps of each process: its file
system calls return and its poll timer comes again. A gate that runs ends, by its own timeout.
`VerificationSettles` is checked under weak fairness of the release worker, of the login and of
the verifier's own call: each is bounded by `timeoutMs`. Nothing is assumed of the other
clients; they may hold a slot for ever. `MainRedFollowsMain` is checked under weak fairness of
the guardian and strong fairness of the interval of each repository, which comes round although
a probe of another repository may be in its way.

## 6. Findings

Four runs find a state that a comment, an answer or a test of the repository excludes.

1. `late_cleanup`: the deferred clean-up of a stopped run waits for queued and running runs
   of the task, not for a result on its way to DEV. A run is stopped with revert while it is
   queued; the next run of the task completes; the clean-up then removes the worktree and the
   branch the release worker is going to push (`store.js:1422-1448`).
2. `beside_release`: `enqueueAgentRun` asks for an active release, then for an active run, and
   inserts, outside a transaction (`store.js:1148-1155`). A run is asked for while the worker still
   holds the one before; between the two queries the worker stores the verdict `completed`; the
   first query found no release, the second finds no active run, and the new run is queued beside
   a result with `release_status` `pending`. The comment at `store.js:1113-1116` speaks of an
   atomic step, and `app.js:921` promises 409 for a task in release. The older result is not the
   newest run any more, so that the release worker passes it over and no later enqueue
   supersedes it: its work waits for the release of a later run.
3. `part_shipped`: the worker must not ship another task while one is half pushed
   (`release-worker.js:896-898`). After a failed attempt the half pushed task has to settle
   again, while any other task is ready, and batches of new tasks go before every retry; DEV
   then runs one half of a change whose other half is in no mainline.
4. `gates_exclusive`: `acquireLockFile` creates a lock file and writes its process id into it in
   a second call. Who reads it in between takes the file for a dead one and removes it
   (`host-gates.js:109-119`); the slot has two holders, and a full vitest, which
   `tests/host-gates.test.js:149` wants alone on the host, runs beside another gate.

*Seen while modelling, without a run of their own.* Of the runs and the worker:

- `requeueAgentRun` erases `control`. After a crash an accepted stop survives
  (`store.js:1619-1620`); after a graceful shutdown of the worker the run is executed again
  (`store.js:1351-1359`).
- Codex processes are process groups of their own (`codex-worker.js:300`). On a bare host one
  that outlives its worker gets company in its worktree (set `ChildrenOutlive = TRUE`).
- A completed run held in `waiting_mainline` does not keep its area (`store.js:1258`), although
  `src/README.md:130` lets the next job start only after `released` or `blocked`.
- A task closed during its release is open again afterwards. The exclusion of an area does not
  count a running run whose task was closed (`store.js:1254`). A review request on a task
  already in `review_again` is answered although no run may exist (`app.js:725-727`).
- `src/README.md:130` says that `CODEX_CONCURRENCY` is normalised to 1, the code accepts 1 to 3
  (`codex-worker.js:462-466`; the model takes `1..3`).

Of the release worker:

- A bisection run that falls to the host counts as red (`release-worker.js:1202`), so that an
  innocent task of the batch is charged with an attempt.
- A batch writes down its changed files only after its last push. If a later push fails, the
  retry of a task with a migration in the first repository finds no files there,
  `validateReleaseHandoff` refuses it, and after three attempts it is blocked with a part of it
  in a mainline (`Record`, `HandoffOK`; `release-worker.js:1352-1369`).
- Transient failures count as attempts too, so that the first deterministic one after two of
  them blocks (`release-worker.js:1511`).
- `src/README.md:34` promises up to three returns after a failed verification; an automatic
  continuation in between (`codex-worker.js:1767`) restarts the count
  (`release-worker.js:2471`), so that returns go on, and so does a run started by hand. `DirectReturnsBounded` states what
  holds: the limit of returns in a row, while the history can be read. An unreadable history counts
  as none (`blind`).
- DEV's own server error in a live check is charged as a failed scenario, while the smoke test
  treats it as transient; so is a body cut off on the way.
- The guardian remembers a commit as done although the request to open or close its task failed,
  and tries again only on the next commit or after a restart (`missed`). The cut of notes to
  their last 9900 characters may drop its marker after some 130 commits. With three repositories
  of which some are never decided, the others may not get their turn.

Of the worktree: after a crash or a failed switch between `Detach` and `SwitchBack` HEAD stays
off the branch; the next synchronisation finds nothing to do, the release commits on the
detached HEAD, and a branch without work is not selected, so that this commit can go with the
worktree (`strayed`; `WorkKept` excepts it, and the theorem shows that only a fault leads
there). After an interrupted rebase branch and HEAD differ, which the release takes for a
transient failure again and again.

Of the sentinel: a torn state file means a start from nothing; the id of a deleted newest task
may be given out again; a group that the timer cuts in two has another fingerprint; a reopened
older task behind a newer closed one is not found.

## 7. Proofs

TLC checks the properties on the instances of section 4; the theorems below hold for every value of
the constants that the named assumptions allow. TLC evaluates these assumptions in every run. Every
inductive invariant was checked by TLC on a small instance before it was proved.

| module | theorems | of | assumptions |
|---|---|---|---|
| `AgentRuns_proofs` | `TypeCorrect`, `NewestIsActive`, `Refinement` | `TypeOK`, `ActiveIsLatest`, `ImplementsLedger` | `RowsAssumption`, `AgentRunsAssumption` |
| `AgentRuns_safety` | `RunningRowsHaveJobs` | `RunningHasJob` | the same |
| | `JobsOwnRows`, `CleanupsAreQueued`, `BegunReleasesExcludeRuns`, `FinalReleasesStay` | `JobOwnsRow`, `CleanupHasExecutor`, `BegunReleaseExcludesRun`, `FinalReleaseStays` | and `MayStall = {}` |
| | `AgentsDoNotMeet`, `NoRevertMeetsAgent` | `OneAgentPerTask`, `NoRevertUnderAgent` | and `~ChildrenOutlive` |
| `ReleasePipeline_proofs` | `TypeCorrect`, `OnlyLiveIsReleased`, `WorkIsKept`, `InnocentsGoFree`, `MainlinesStayGreen`, `NothingIsUndone` | `TypeOK`, `ReleasedIsLive`, `WorkNeverLost`, `OnlyGuiltyBlocked`, `GreenStaysGreen`, `NothingUndone` | `PipelineAssumption` |
| `LiveVerification_proofs` | `SlotsAreCounted`, `LoginIsUnderWay` | `SlotsCounted`, `NobodyWaitsInVain` | `ProxyAssumption` |
| | `VerificationTypeCorrect`, `OnlyScenarioCharged`, `FailuresAreFollowedOnce`, `ReturnsAreBounded` | `TypeOK`, `EnvironmentNotCharged`, `OneFollowUpPerFailure`, `DirectReturnsBounded` | and `LiveAssumption` |
| `WorktreeSync_proofs` | `SyncTypeCorrect`, `WorkIsKept`, `AgentSeesItsWork` | `TypeOK`, `WorkKept`, `AgentSeesAll` | `SyncAssumption` |
| `HostGates_proofs` | `TypeCorrect`, `CreationIsExclusive`, `NothingStaysBehind` | `TypeOK`, `HeldTwiceOnlyIfRobbed`, `NothingLeftBehind` | `GateAssumption` |
| `LogSentinel_proofs` | `TypeCorrect`, `OneErrorOneTask`, `CooldownsAreKept`, `HourIsLimited` | `TypeOK`, `NoSecondTask`, `CooldownsKept`, `HourlyLimit` | `SentinelAssumption` |
| `MainlineGuardian_proofs` | `TypeCorrect`, `OneMainRedAtATime`, `OnlyConfirmedIsOpened` | `TypeOK`, `OneMainRed`, `OpenedOnlyConfirmed` | `GuardianAssumption` |

Beside them the `Invariance` theorems (`SafeInvariance` in `AgentRuns_safety`) state the inductive
invariants. The assumptions type the constants: sets of clients and tasks are finite, bounds are
natural numbers, limits that the code requires to be positive are positive, sets of special values
do not overlap. `MayStall` and `ChildrenOutlive` are the environment of section 4; without them TLC refutes the properties.

In every module one lemma for each action shows that it keeps the invariant. What follows is what
the invariants add to the properties and why.

**Rows and the ledger** (`AgentRuns_proofs`; every environment: crashes, stalls, interrupted
enqueues, surviving Codex processes). `ActiveIsLatest` is not inductive: it says nothing of the
rows that are not inserted yet, nor of a job that is about to write. `IInv` adds `RowsOK` (row `r`
is inserted exactly when `r <= made`, an absent row has no task and is not active) and `JobsMade`
(a job exists only for an inserted row). Every step of the system then belongs to one of two
classes. *Kept*: the rows keep their tasks and no closed or absent row becomes active; this is the
place where the guards of `RequeueRow` and `OrphanRow` are used. *Grown*: after such a change one
row, number `made + 1`, is inserted for a task without active run. Two lemmas show that both classes
preserve `ActiveIsLatest` and are steps of the ledger or stutter; one lemma per action puts the
action into a class. The refinement follows with no further invariant.

**Jobs, git work, agents and releases** (`AgentRuns_safety`). `RunningHasJob` holds in every
environment: `Held` adds that a job which is about to end has closed its row. The rest is about a
lease that is worth something. `SafeInv` says what it is worth: one worker lives (`OneWorker`), its
working jobs hold their rows (`JobRows`), Codex processes are the children of jobs
(`ChildrenOfJobs`), a released row is closed and was a candidate (`Releases`). `NoRevertUnderAgent` and
`OneAgentPerTask` hang on the order of the queue of git work (`Chains`): a clean-up may stand in it
while a new job of the task waits, but then in front of that job's `ensure`, and a job is at rest in
every other case. A job may also find its row closed by its own verdict while it still has the status
of the task to write; no clean-up of such a row is claimed (`ClosedUnclaimed`). For
`BegunReleaseExcludesRun` it is not enough that a result in release is the newest run of its task:
an enqueue that has asked already must not insert another one. `ReleaseOfNewest` says both, and
it is kept because an enqueue that begins finds no release (`Asked`), and because a request of the
release worker is another request of the web process and waits for the end of the enqueue
(`FiledRelease`); a verdict in between leaves a result that nobody has taken. The steps of people, of
recoveries and of the release worker are not looked at one by one for each property: they are
`Steady` (a held row stays held) and `Calm` (they pass no verdict).

**Release pipeline** (`ReleasePipeline_proofs`). The tick carries the work of its tasks from one place
to the next, and `IInv` says where it is at each: the commit to publish is the old mainline with the
work of all tasks in hand (`Built`), it has passed the gates done so far (`Gated`), what is pushed is
in the mainline and not behind DEV (`Landed`), what is finalised is on DEV (`Shown`). A crash, at any of
these places, leaves only `Live` and `WorkNeverLost`, and they are enough for the next tick.
For `OnlyGuiltyBlocked`: a member of a batch has no attempt behind it, so that
a charge blocks none of them; a single task is accused when its commit is red and the clean mainline
green, and then it has a part in it (`SomeoneGuilty`). `GreenStaysGreen` and `NothingUndone` are properties of steps; they
follow from the invariant, action by action.

**Verification** (`LiveVerification_proofs`). The two invariants of the proxy and the type of its state
are inductive together: that `inFlight` stays within its limit needs that it counts, and counting needs
to know what state a request is in. Three lemmas count the requests in the handler when one of them
enters, leaves or stays; `OneChanges` is the step of one client; only the end of a login changes many
at once. `EnvironmentNotCharged` speaks of the moment of the verdict; what makes it true is spread
over the attempt before it. `InHand`: while a verification is under way its result is the one in hand,
and the verifier asks DEV only from a check of the spec. `Unblamed`: while a scenario works, the answer
at hand is none that contradicts it, and an attempt that has counted a failure has counted, too, that
the infrastructure or DEV was at fault. `VerifierHeard` is the lemma on the proxy that this rests on:
no step of the other clients, of a login or of DEV gives the verifier of a working scenario a
contradicting answer. The follow-ups have an invariant of their own, `HistoryInv`: every prefix of the
history has fewer returns than requests for one (`Earned`), a return that is due has not been made
(`Spare`, `Due`), and the row of returns at the end leaves room for it. The count itself
(`Chain`, a `CHOOSE`) is characterised once, by `EndsWith`.

The attempt at this proof showed that an earlier form of `DirectReturnsBounded`, which looked at every
window of the history and not at its end, is false: a history that was unreadable once makes a row of
returns that stays in the history after a new run by hand. The instance of `verification`, bounded to
three runs of the task, could not reach it; with four it does.

**Worktree** (`WorktreeSync_proofs`). `WorkKept` alone is not inductive: `MoveBranch` gives up the commit
of the branch. `IInv` adds what a command relies on of those before it: a worktree and its branch are
there where a command needs them (`TreeThere`), what `Look` saw of HEAD is still true (`HeadSeen`; nobody
else touches HEAD in between), the work of the old branch has its preserved ref before the branch is
moved (`KeptAside`), and without a fault HEAD is off the branch only between the commands that take it
away and bring it back (`OnBranch`), which is why only a fault lets work stray. For
`AgentSeesAll` a last part, `Onto`, follows the base through the commands: HEAD is on it when the agent
starts, and the branch when HEAD goes back to it; `WorkKept` says where the earlier work is.

**Host gates** (`HostGates_proofs`). `Mine`: who believes it holds a file, or is between creating and
signing it, is its owner or was robbed of it. `SignedHeld`: a file with a process id is held by its
living creator. `Passes` and `Holds` say which files a request may hold at each of its places; from
them `NothingLeftBehind` follows. Files are tried in order, so that a least element of a set is
needed (`LeastNat`).

**Log sentinel** (`LogSentinel_proofs`). A task is filed only after the desk was asked, and the answer
stays true until the task is there, since nobody else files (`Asked`); so of the tasks with one
fingerprint all but the newest are done (`Elders`), whatever is lost. The cooldowns rest on the
memory: while no creation was lost, it tells no less than the desk of the age of every task (`Told`,
`Counted`). That the hourly limit counts tasks needs an injection from the tasks of an hour to the
creations remembered: their ages differ, because the pause of the container is between them.

**Mainline guardian** (`MainlineGuardian_proofs`). A task is opened at one place, right after the desk
said that there is none, and the guardian alone opens one (`Placed`). It gets there from a verdict,
where the second run has just shown the failure of the first, or from a failure it told before, which
came the same way (`Grounded`).

*Only model-checked*: `RunEnds`, `EveryReleaseSettles`, `EveryRequestAnswered`, `VerificationSettles` and
`MainRedFollowsMain`, since liveness under fairness is out of the prover's reach. All other properties
of the passing runs are proved. The four violated ones of section 6 are false.

## 8. What is not modelled

**Parts.** Attachments, comments, transcription, metrics, topology and the frontend change nothing a run
or a release depends on. Authentication guards requests and changes no row of theirs. Intake
capture is I/O; its effect, a late first enqueue, is `StartRun` at any time. Deletion of a task
is modelled only where the sentinel meets it. Builds and the queue order are the arithmetic of
single handlers; `AgentRuns` leaves the order of claims open. Of the release worker, two
workers around one lease and the mode without origin mainlines are missing, of the proxy its
allow list and the redaction of bodies, of the specifications their parsing. The decisions on
sessions, lessons and prompts are made by one job on its own data.

**Details.** Smaller differences between the models and the lines they stand for, none of which
the properties tell apart unless it says so:

- `AgentRuns.Claim` wants the worker to have no job for the run. `tick` has no such guard
  (`codex-worker.js:1061-1070`): a worker that lost its lease and whose row was requeued could claim
  it again before its next heartbeat and overwrite its own entry in `activeRuns`. A worker that does
  not stall has no job for a queued run.
- `HostGates.Fail` is an error before the number is written; an error of `close` after it, or of
  `rm`, is not modelled (`host-gates.js:109-111`).
- `ReleasePipeline.Integrab` takes a largest mergeable set at once; the rounds of the code and their
  limit of four appear as a `Fault` (`release-worker.js:1143`). `Green` is a function of the commit; the
  code chooses checks by the changed files (`release-worker.js:2130`).
- `DevApiProxy.Rejected` is for tokens that DEV forgot, the code renews after any 401
  (`dev-api-proxy.js:461-476`); the token call of `/healthz` (`:373`) is left out.
- In `LiveVerification` the release worker dies only between its requests, a working scenario does
  not fail in the smoke test or in the UI specification as a scenario, and `Recover` looks at the
  history when it posts, the code at the snapshot of its tick (`release-worker.js:2521-2532`).
- `LogSentinel.CallFails` leaves the file as it was. A write that fails half way while the process
  lives may leave a torn file (`log-sentinel.js:516-518`), which matters at the next start only.
- `MainlineGuardian`: two failures are equal or different, the code wants half of the failing names
  in common (`release-worker.js:2726`); a repository has one check, not a list (`:2769`); after a
  failure of the environment `Judge` forgets the earlier fields of the same commit, which the code
  keeps (`:2783-2784`) and no decision reads.
- `WorktreeSync.Rebase` off the branch is not interrupted, and the git commands of `Revert` succeed.

## 9. Where to go on

1. Two release workers around one lease, in one model with the Codex worker: the sweep of
   worktrees on an old snapshot, and writes of a worker that slept through its lease.
2. A refinement of an abstract release (a task's work moves from its worktree to the mainlines
   to DEV, and is reported only there) by `ReleasePipeline`: its invariant has the mapping already.
3. What of `JobOwnsRow` and `FinalReleaseStays` is left when a worker may stall: a row that is
   written by id only, but never a row of another task.
