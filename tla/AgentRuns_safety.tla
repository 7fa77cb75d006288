--------------------------- MODULE AgentRuns_safety ---------------------------
(***************************************************************************)
(* Proofs about AgentRuns, continued: what jobs, git work, Codex processes *)
(* and releases may do to each other, for any tasks, slots and number of   *)
(* runs.                                                                   *)
(*                                                                         *)
(* Without a hypothesis: every running row has a job (Held).  The rest is  *)
(* about a system in which no worker misses its heartbeats for a whole     *)
(* lease TTL (MayStall = {}): workers crash, are stopped and restarted at  *)
(* any moment.  A worker that outlives its lease does break these          *)
(* properties, as README.md says.                                          *)
(*                                                                         *)
(* The argument.  The lease then means that one worker lives (OneWorker),  *)
(* its working jobs hold their rows (JobRows), and its queue of git work   *)
(* is in the order the jobs wait for it (Chains): a clean-up is in front   *)
(* of every 'ensure' of its task.  A step of anybody else leaves a held    *)
(* row held (Steady) and does not judge it (Calm).  A release begins and   *)
(* is taken only on the newest run of a task of which no enqueue is under  *)
(* way (Filed, ItemMoves), and an enqueue of a task is begun only when its *)
(* newest run is not, and cannot come to be, in release (Asked).           *)
(***************************************************************************)
EXTENDS AgentRuns_proofs

USE RowsAssumption, AgentRunsAssumption

(* The phases in which a job works on a row that is its own, and those in  *)
(* which it has closed the row.                                            *)
Working == {"claimed", "ensure", "ready", "agent", "late", "exited", "revert", "verify"}
Closing == {"restore", "stored", "settle"}

(* The lease is worth something: one worker lives at a time.               *)
OneWorker ==
    /\ silent = {}
    /\ \A w \in Workers :
        /\ proc[w] \in {"down", "up", "stopping"}
        /\ proc[w] # "down" => lease = w
        /\ proc[w] = "down" => chain[w] = <<>> /\ \A r \in RunIds : job[w][r].phase = "idle"

(* The Codex processes are the children of jobs in "agent" and "late".     *)
ChildrenOfJobs ==
    /\ \A w \in Workers, r \in RunIds :
        <<w, r>> \in agents <=> job[w][r].phase \in {"agent", "late"}
    /\ ~ChildrenOutlive => orphans = {}

(* A job holds its row while it works, has closed it when it closes, and a *)
(* row that is held has a job.                                             *)
JobRows ==
    \A w \in Workers, r \in RunIds :
        /\ job[w][r].phase \in Working => HoldsRow(w, r)
        /\ job[w][r].phase \in Closing => ~Active(run[r])
        /\ HoldsRow(w, r) => job[w][r].phase # "idle"

(* A job that has closed its row ends before a clean-up of it is claimed.  *)
ClosedUnclaimed ==
    \A w \in Workers, r \in RunIds :
        job[w][r].phase \in Closing => run[r].control # "cleanup_running"

(* The phases in which a job is not about to touch the worktree of its     *)
(* task: "claimed" still has to queue its 'ensure'.                        *)
Resting == {"idle", "claimed", "restore", "stored", "settle"}

(* The queue of git work: entries differ, the job of an 'ensure' or a      *)
(* 'revert' waits for it, and a clean-up waits for no job of its task but  *)
(* one whose 'ensure' comes after it.                                      *)
ChainGood(s, j, R) ==
    /\ \A i, k \in DOMAIN s : s[i] = s[k] => i = k
    /\ \A i \in DOMAIN s : s[i].op \in {"ensure", "revert"} => j[s[i].run].phase = s[i].op
    /\ \A i \in DOMAIN s : s[i].op = "cleanup" =>
        /\ R[s[i].run].task # NoTask
        /\ \A r \in RunIds : R[r].task = R[s[i].run].task =>
            \/ j[r].phase \in Resting
            \/ /\ j[r].phase = "ensure"
               /\ \E k \in DOMAIN s : k > i /\ s[k] = [op |-> "ensure", run |-> r]

Chains == \A w \in Workers : ChainGood(chain[w], job[w], run)

(* The columns of a row fit: nothing is released before it is closed, and  *)
(* the release of nothing but a result that the release worker may take    *)
(* begins or succeeds.                                                     *)
Begun(rec) == rec.release \in {"processing", "verifying", "retrying"}
RowFine(rec) ==
    /\ rec.status \in {"absent", "queued", "running"} => rec.release = "pending"
    /\ rec.status = "completed" => rec.verdict = "completed"
    /\ rec.release = "released" \/ Begun(rec) => ReleaseCandidate(rec)
    /\ rec.control = "cleanup_running" => rec.status = "blocked"

Releases ==
    /\ \A r \in RunIds : RowFine(run[r])
    /\ rel.run # 0 => ReleaseCandidate(run[rel.run])

(* A result in release is the newest run of its task, and the web process  *)
(* is not about to insert another one: it found none in release, and what  *)
(* begins or is taken since then waits for the end of its request.         *)
ReleaseOfNewest ==
    \A r \in RunIds : InRelease(r) => Latest(run, r) /\ run[r].task # web.task

(* The inductive invariant, beside IInv. *)
SafeInv ==
    /\ OneWorker /\ ChildrenOfJobs /\ JobRows /\ ClosedUnclaimed
    /\ Chains /\ CleanupHasExecutor
    /\ Releases /\ ReleaseOfNewest

-----------------------------------------------------------------------------
(* What people and recoveries do to a row.                                 *)

(* A row that runs under a live worker goes on running under it, and a     *)
(* closed row keeps its status.                                            *)
Steady(rec, new) ==
    /\ new.status = "running" => rec.status = "running" /\ new.worker = rec.worker
    /\ rec.status = "running" /\ rec.worker \notin silent \cup {Gone} => new.status = "running"
    /\ ~Active(rec) => new.status = rec.status

(* A row is rewritten by somebody else than its job: it is not judged, and *)
(* its release is at most given up.                                        *)
Calm(rec, new) ==
    /\ KeptRow(rec, new)
    /\ Steady(rec, new)
    /\ new.status \in {"completed", "needs_review"} => rec.status = new.status
    /\ new.verdict = rec.verdict
    /\ new.control = "cleanup_running" => rec.control = "cleanup_running"
    /\ \/ new.release = rec.release
       \/ new.release = "blocked" /\ (Active(rec) \/ rec.release \notin Final)
    /\ new.status \in {"absent", "queued", "running"} => new.release = rec.release

CalmTable(R, S) == S = [r \in RunIds |-> S[r]] /\ \A r \in RunIds : Calm(R[r], S[r])

(* A result whose release is not final. *)
Undecided(rec) == rec.status \in {"completed", "needs_review"} /\ rec.release \notin Final

(* The row of a new run: no result of its task is on its way to DEV, or it *)
(* is the row the web process has asked for.                               *)
Fresh(R, S, m) ==
    /\ S[m] \in Run /\ S[m].task \in Tasks
    /\ S[m].status = "queued" /\ S[m].release = "pending" /\ S[m].control = ""
    /\ \/ S[m].task = web.task
       \/ \A r \in RunIds \ {m} : Latest(R, r) /\ R[r].task = S[m].task => ~Undecided(S[r])

(* An enqueue that the web process begins: no result of the task is on its *)
(* way to DEV.                                                             *)
Asked(R, S) ==
    web'.task # web.task =>
        \A r \in RunIds : Latest(R, r) /\ R[r].task = web'.task => ~Undecided(S[r])

CalmGrowth(R, n, S, m) ==
    \/ m = n /\ CalmTable(R, S)
    \/ /\ m = n + 1 /\ m \in RunIds
       /\ \A r \in RunIds \ {m} : Calm(R[r], S[r])
       /\ Fresh(R, S, m)

FineTable(R) == \A r \in RunIds : RowFine(R[r])

LEMMA CalmTwice ==
    ASSUME NEW rec, NEW mid, NEW new, Calm(rec, mid), Calm(mid, new)
    PROVE  Calm(rec, new)
BY DEF Calm, Steady, KeptRow, Active, Final

LEMMA CalmFine ==
    ASSUME NEW rec \in Run, NEW new, RowFine(rec), Calm(rec, new)
    PROVE  RowFine(new)
BY DEF Calm, Steady, KeptRow, Active, Final, RowFine, Begun, ReleaseCandidate, Run, RunStatus

LEMMA CalmRows ==
    ASSUME NEW rec \in Run
    PROVE  /\ Calm(rec, rec)
           /\ \A c \in {"stop", "stop_revert"} : Calm(rec, [rec EXCEPT !.control = c])
           /\ \A c \in {"stop", "stop_revert"} :
                rec.status = "queued" => Calm(rec, DequeuedRow(rec, c))
           /\ Stale(rec) => Calm(rec, StaleRow(rec))
<1>1. Calm(rec, rec)
  BY TouchedRows DEF Calm, Steady
<1>2. ASSUME NEW c \in {"stop", "stop_revert"}
      PROVE  Calm(rec, [rec EXCEPT !.control = c])
  <2>1. KeptRow(rec, [rec EXCEPT !.control = c])
    BY TouchedRows DEF Control
  <2> QED
    BY <2>1 DEF Calm, Steady, Run
<1>3. ASSUME NEW c \in {"stop", "stop_revert"}, rec.status = "queued"
      PROVE  Calm(rec, DequeuedRow(rec, c))
  <2>1. KeptRow(rec, DequeuedRow(rec, c))
    BY <1>3, ClosedRows DEF Control
  <2> QED
    BY <1>3, <2>1 DEF Calm, Steady, Run, DequeuedRow, Active
<1>4. ASSUME Stale(rec)
      PROVE  Calm(rec, StaleRow(rec))
  <2>1. rec.status = "running" /\ rec.worker \in silent \cup {Gone}
    BY <1>4 DEF Stale
  <2>2. KeptRow(rec, StaleRow(rec))
    BY <2>1, ClosedRows
  <2> QED
    BY <2>1, <2>2 DEF Calm, Steady, Run, StaleRow, Finish, Active
<1> QED
  BY <1>1, <1>2, <1>3, <1>4

LEMMA PatchCalm ==
    ASSUME NEW R \in [RunIds -> Run], NEW t, NEW aiOff, NEW closes
    PROVE  CalmTable(R, PatchRuns(R, t, aiOff, closes))
<1> SUFFICES ASSUME NEW r \in RunIds
             PROVE  Calm(R[r], PatchRuns(R, t, aiOff, closes)[r])
  BY DEF CalmTable, PatchRuns
<1>1. R[r] \in Run
  OBVIOUS
<1> QED
  BY <1>1, CalmRows DEF PatchRuns

LEMMA SupersedeCalm ==
    ASSUME NEW R \in [RunIds -> Run], NEW t, FineTable(R)
    PROVE  CalmTable(R, Supersede(R, t))
<1> SUFFICES ASSUME NEW r \in RunIds
             PROVE  Calm(R[r], Supersede(R, t)[r])
  BY DEF CalmTable, Supersede
<1>1. R[r] \in Run /\ RowFine(R[r])
  BY DEF FineTable
<1>2. Calm(R[r], R[r])
  BY <1>1, CalmRows
<1>3. ASSUME \/ R[r].status = "needs_review" /\ R[r].release = "pending"
             \/ R[r].release = "waiting_mainline"
      PROVE  Calm(R[r], [R[r] EXCEPT !.release = "blocked"])
  <2>1. KeptRow(R[r], [R[r] EXCEPT !.release = "blocked"])
    BY <1>1, TouchedRows DEF ReleaseStatus
  <2>2. R[r].status \notin {"absent", "queued", "running"} /\ R[r].release \notin Final
    BY <1>1, <1>3 DEF RowFine, Final
  <2> QED
    BY <1>1, <2>1, <2>2 DEF Calm, Steady, Run
<1> QED
  BY <1>2, <1>3 DEF Supersede

LEMMA CalmTableFine ==
    ASSUME NEW R \in [RunIds -> Run], NEW S, FineTable(R), CalmTable(R, S)
    PROVE  FineTable(S)
BY CalmFine DEF FineTable, CalmTable

(* A calm rewriting followed by an insertion. *)
LEMMA CalmThenGrown ==
    ASSUME NEW R, NEW n, NEW S, NEW T, NEW m, CalmTable(R, S), CalmGrowth(S, n, T, m)
    PROVE  CalmGrowth(R, n, T, m) /\ (Asked(S, T) => Asked(R, T))
<1>1. \A r \in RunIds : Latest(S, r) <=> Latest(R, r)
  BY DEF CalmTable, Calm, Steady, KeptRow, Latest
<1>2. \A r \in RunIds : S[r].task = R[r].task
  BY DEF CalmTable, Calm, Steady, KeptRow
<1>0. Asked(S, T) => Asked(R, T)
  BY <1>1, <1>2 DEF Asked
<1>3. CASE m = n /\ CalmTable(S, T)
  BY <1>0, <1>3, CalmTwice DEF CalmGrowth, CalmTable
<1>4. CASE ~(m = n /\ CalmTable(S, T))
  <2>1. /\ m = n + 1 /\ m \in RunIds
        /\ \A r \in RunIds \ {m} : Calm(S[r], T[r])
        /\ Fresh(S, T, m)
    BY <1>4 DEF CalmGrowth
  <2>2. \A r \in RunIds \ {m} : Calm(R[r], T[r])
    BY <2>1, CalmTwice DEF CalmTable
  <2>3. Fresh(R, T, m)
    BY <1>1, <1>2, <2>1 DEF Fresh
  <2> QED
    BY <1>0, <2>1, <2>2, <2>3 DEF CalmGrowth
<1> QED
  BY <1>3, <1>4

(* Once the markers it replaces are superseded, the newest run of a task   *)
(* that may be enqueued waits for nothing.                                 *)
LEMMA InsertsDecided ==
    ASSUME NEW T, NEW R \in [RunIds -> Run], NEW t,
           Accepts(T, t), ~HasActiveRelease(T, Supersede(R, t), t),
           NEW r \in RunIds, Latest(R, r), R[r].task = t, FineTable(R)
    PROVE  ~Undecided(Supersede(R, t)[r])
<1> DEFINE S == Supersede(R, t)
<1>1. S[r] = IF \/ R[r].status = "needs_review" /\ R[r].release = "pending"
                \/ R[r].release = "waiting_mainline"
             THEN [R[r] EXCEPT !.release = "blocked"]
             ELSE R[r]
  BY DEF Supersede
<1>2. CalmTable(R, S)
  BY SupersedeCalm
<1>3. Latest(S, r) /\ S[r].task = t
  BY <1>2 DEF CalmTable, Calm, Steady, KeptRow, Latest
<1>4. ~ReleaseBusy(S[r])
  BY <1>3 DEF HasActiveRelease, Accepts
<1>5. R[r] \in Run
  OBVIOUS
<1>6. S[r].release # "waiting_mainline" /\ ~(S[r].status = "needs_review" /\ S[r].release = "pending")
  BY <1>1, <1>5 DEF Run
<1>7. S[r].release \in ReleaseStatus
  BY <1>1, <1>5 DEF Run, ReleaseStatus
<1> HIDE DEF S
<1> QED
  BY <1>4, <1>6, <1>7 DEF S, ReleaseBusy, Undecided, Final, LiveRelease, ReleaseStatus

LEMMA EnqueueCalm ==
    ASSUME NEW T \in [Tasks -> Task], NEW R, RowsOK(R, made), FineTable(R),
           NEW t \in Tasks, NEW auto \in BOOLEAN, Enqueue(T, R, t, auto)
    PROVE  CalmGrowth(R, made, run', made')
<1>1. R \in [RunIds -> Run]
  BY DEF RowsOK
<1>2. CalmTable(R, R) /\ CalmTable(R, Supersede(R, t))
  BY <1>1, CalmRows, SupersedeCalm DEF CalmTable
<1>3. CASE ~Inserts(T, R, t)
  <2>1. made' = made /\ (run' = R \/ run' = Supersede(R, t))
    BY <1>3 DEF Enqueue, EnqueueRuns
  <2> QED
    BY <1>2, <2>1 DEF CalmGrowth
<1>4. CASE Inserts(T, R, t)
  <2> DEFINE S == Supersede(R, t)
             new == NewRun(t, T[t].status, auto)
  <2>1. /\ made < MaxRuns /\ made' = made + 1
        /\ run' = [S EXCEPT ![made + 1] = new]
    BY <1>4 DEF Enqueue, EnqueueRuns, Inserts
  <2>2. /\ new \in Run /\ new.task = t /\ new.status = "queued"
        /\ new.release = "pending" /\ new.control = ""
    <3>1. T[t] \in Task
      OBVIOUS
    <3>2. T[t].status \in TaskStatus
      BY <3>1 DEF Task
    <3> QED
      BY <3>2 DEF NewRun, NoRun, Run, RunStatus, Control, ReleaseStatus, Verdict
  <2>3. made' \in RunIds
    <3>1. made \in Nat /\ made < MaxRuns /\ made' = made + 1
      BY <2>1 DEF RowsOK
    <3> QED
      BY <3>1 DEF RunIds
  <2>4. \A r \in RunIds : Latest(R, r) /\ R[r].task = t => ~Undecided(S[r])
    BY <1>1, <1>4, InsertsDecided DEF Inserts
  <2>5. DOMAIN S = RunIds
    BY DEF Supersede
  <2> HIDE DEF S, new
  <2>6. /\ run'[made'] = new
        /\ \A r \in RunIds \ {made'} : run'[r] = S[r]
    BY <2>1, <2>3, <2>5
  <2>7. \A r \in RunIds : Calm(R[r], S[r])
    BY <1>2 DEF CalmTable, S
  <2>8. Fresh(R, run', made')
    BY <2>2, <2>4, <2>6 DEF Fresh
  <2> QED
    BY <2>1, <2>3, <2>6, <2>7, <2>8 DEF CalmGrowth
<1> QED
  BY <1>3, <1>4

LEMMA AskCalm ==
    ASSUME NEW T \in [Tasks -> Task], NEW R, RowsOK(R, made), FineTable(R), NEW t \in Tasks,
           Ask(T, R, t)
    PROVE  CalmGrowth(R, made, run', made') /\ Asked(R, run')
<1>1. CalmTable(R, R) /\ CalmTable(R, Supersede(R, t))
  BY CalmRows, SupersedeCalm DEF CalmTable, RowsOK
<1>2. CalmGrowth(R, made, run', made')
  BY <1>1 DEF Ask, CalmGrowth
<1>3. CASE Accepts(T, t) /\ ~HasActiveRelease(T, Supersede(R, t), t)
  <2>1. run' = Supersede(R, t) /\ web'.task = t /\ R \in [RunIds -> Run]
    BY <1>3 DEF Ask, RowsOK
  <2> QED
    BY <1>2, <1>3, <2>1, InsertsDecided DEF Asked
<1>4. CASE ~(Accepts(T, t) /\ ~HasActiveRelease(T, Supersede(R, t), t))
  <2>1. web'.task = NoTask
    BY <1>4 DEF Ask, NoRequest
  <2> QED
    BY <1>2, <2>1 DEF Asked, Latest
<1> QED
  BY <1>3, <1>4

LEMMA OneRowCalm ==
    ASSUME NEW R \in [RunIds -> Run], NEW r, NEW rec, r \in RunIds => Calm(R[r], rec)
    PROVE  CalmTable(R, [R EXCEPT ![r] = rec])
BY CalmRows DEF CalmTable

(* The web process and the rest of an enqueue it is in the middle of.      *)
LEMMA WebCalm ==
    ASSUME IInv, FineTable(run), NEW t \in Tasks, Web(t)
    PROVE  /\ CalmGrowth(run, made, run', made')
           /\ Asked(run, run')
           /\ UNCHANGED <<worker, rel>>
<1> USE DEF IInv, TypeOK
<1>0. CalmTable(run, run)
  BY CalmRows DEF CalmTable
<1>1. CASE StartRun(t)
  BY <1>1, AskCalm DEF StartRun
<1>2. CASE ReviewAgain(t)
  <2> DEFINE T == [task EXCEPT ![t].status = "review_again"]
  <2>1. T \in [Tasks -> Task]
    BY TaskTypes DEF TaskStatus
  <2>2. Enqueue(T, run, t, FALSE) /\ UNCHANGED <<worker, rel, web>>
    BY <1>2 DEF ReviewAgain
  <2> HIDE DEF T
  <2> QED
    BY <2>1, <2>2, EnqueueCalm DEF Asked
<1>3. CASE Resume(t)
  <2>1. CASE Ask(task, run, t) /\ UNCHANGED <<worker, rel>>
    BY <2>1, AskCalm
  <2>2. ASSUME NEW r \in RunIds, Stale(run[r]), Ask(task, [run EXCEPT ![r] = StaleRow(@)], t)
        PROVE  CalmGrowth(run, made, run', made') /\ Asked(run, run')
    <3> DEFINE R == [run EXCEPT ![r] = StaleRow(@)]
    <3>1. CalmTable(run, R)
      <4>1. Calm(run[r], StaleRow(run[r]))
        BY <2>2, CalmRows
      <4>2. R = [run EXCEPT ![r] = StaleRow(run[r])]
        OBVIOUS
      <4> QED
        BY <4>1, <4>2, OneRowCalm
    <3>2. FineTable(R)
      <4>1. run \in [RunIds -> Run]
        OBVIOUS
      <4> HIDE DEF R
      <4> QED
        BY ONLY <3>1, <4>1, FineTable(run), CalmTableFine
    <3>3. RowsOK(R, made)
      <4>1. KeptRow(run[r], StaleRow(run[r]))
        BY <2>2, ClosedRows DEF Stale
      <4>2. Kept(run, R)
        BY <4>1, OneRow
      <4> QED
        BY <4>2, GrownOK DEF Grown
    <3>4. Ask(task, R, t)
      BY <2>2
    <3> HIDE DEF R
    <3>5. CalmGrowth(R, made, run', made') /\ Asked(R, run')
      BY <3>2, <3>3, <3>4, AskCalm
    <3> QED
      BY <3>1, <3>5, CalmThenGrown
  <2> QED
    BY <1>3, <2>1, <2>2 DEF Resume
<1>4. ASSUME NEW s \in PatchStatuses \cup {"unset"}, NEW ai \in PatchAi, PatchTask(t, s, ai)
      PROVE  /\ CalmGrowth(run, made, run', made')
             /\ Asked(run, run')
             /\ UNCHANGED <<worker, rel>>
  <2> DEFINE T == [task EXCEPT ![t] = [status |-> IF s = "unset" THEN @.status ELSE s, ai |-> ai]]
             R == PatchRuns(run, t, task[t].ai /\ ~ai, s = "done")
  <2>1. T \in [Tasks -> Task]
    BY TaskTypes
  <2>2. CalmTable(run, R) /\ FineTable(R)
    BY PatchCalm, CalmTableFine
  <2>3. RowsOK(R, made)
    <3>1. Kept(run, R)
      BY PatchKeeps
    <3> HIDE DEF R
    <3> QED
      BY <3>1, GrownOK DEF Grown
  <2>4. \/ Ask(T, R, t)
        \/ run' = R /\ UNCHANGED <<made, web>>
    BY <1>4 DEF PatchTask
  <2>5. UNCHANGED <<worker, rel>>
    BY <1>4 DEF PatchTask
  <2> HIDE DEF T, R
  <2>6. CASE Ask(T, R, t)
    BY <2>1, <2>2, <2>3, <2>5, <2>6, AskCalm, CalmThenGrown
  <2>7. CASE run' = R /\ UNCHANGED <<made, web>>
    BY <2>2, <2>5, <2>7 DEF CalmGrowth, Asked
  <2> QED
    BY <2>4, <2>6, <2>7
<1>5. ASSUME NEW c \in StopControls, Stop(t, c)
      PROVE  /\ CalmGrowth(run, made, run', made')
             /\ Asked(run, run')
             /\ UNCHANGED <<worker, rel>>
  <2>1. PICK r \in RunIds :
          /\ IF run[r].status = "queued"
             THEN run' = [run EXCEPT ![r] = DequeuedRow(@, c)]
             ELSE run' = [run EXCEPT ![r].control = c]
          /\ UNCHANGED <<made, worker, rel, web>>
    BY <1>5 DEF Stop
  <2>2. c \in {"stop", "stop_revert"} /\ run[r] \in Run
    OBVIOUS
  <2>3. CalmTable(run, run')
    <3>1. CASE run[r].status = "queued"
      <4>1. run' = [run EXCEPT ![r] = DequeuedRow(run[r], c)]
        BY <2>1, <3>1
      <4>2. Calm(run[r], DequeuedRow(run[r], c))
        BY <2>2, <3>1, CalmRows
      <4> QED
        BY <4>1, <4>2, OneRowCalm
    <3>2. CASE run[r].status # "queued"
      <4>1. run' = [run EXCEPT ![r] = [run[r] EXCEPT !.control = c]]
        BY <2>1, <3>2
      <4> QED
        BY <2>2, <4>1, CalmRows, OneRowCalm
    <3> QED
      BY <3>1, <3>2
  <2> QED
    BY <2>1, <2>3 DEF CalmGrowth, Asked
<1> QED
  BY <1>1, <1>2, <1>3, <1>4, <1>5, AskCalm DEF Web, StartRun, Resume, ReviewAgain

LEMMA AnswerCalm ==
    ASSUME IInv, Answer
    PROVE  /\ CalmGrowth(run, made, run', made')
           /\ Asked(run, run')
           /\ UNCHANGED <<worker, rel>>
<1>1. Asked(run, run')
  BY DEF Answer, Asked, NoRequest, Latest
<1>2. run \in [RunIds -> Run] /\ made \in 0..MaxRuns
  BY DEF IInv, TypeOK
<1>3. web.task \in Tasks /\ web.seen \in TaskStatus
  BY DEF Answer, IInv, TypeOK
<1>4. CASE run' = run /\ made' = made
  <2>1. CalmTable(run, run)
    BY <1>2, CalmRows DEF CalmTable
  <2> QED
    BY <1>1, <1>4, <2>1 DEF CalmGrowth, Answer
<1>5. CASE /\ made < MaxRuns /\ made' = made + 1
           /\ run' = [run EXCEPT ![made + 1] = NewRun(web.task, web.seen, FALSE)]
  <2> DEFINE new == NewRun(web.task, web.seen, FALSE)
  <2>1. /\ new \in Run /\ new.task = web.task /\ new.status = "queued"
        /\ new.release = "pending" /\ new.control = ""
    BY <1>3 DEF NewRun, NoRun, Run, RunStatus, Control, ReleaseStatus, Verdict
  <2>2. made' \in RunIds
    BY <1>2, <1>5 DEF RunIds
  <2>3. run' = [run EXCEPT ![made'] = new]
    BY <1>5
  <2> HIDE DEF new
  <2>4. Fresh(run, run', made')
    BY <1>2, <1>3, <2>1, <2>2, <2>3 DEF Fresh
  <2>5. \A r \in RunIds \ {made'} : Calm(run[r], run'[r])
    BY <1>2, <2>2, <2>3, CalmRows
  <2>6. CalmGrowth(run, made, run', made')
    BY <1>5, <2>2, <2>4, <2>5 DEF CalmGrowth
  <2> QED
    BY <1>1, <2>6 DEF Answer
<1> QED
  BY <1>4, <1>5 DEF Answer

-----------------------------------------------------------------------------
(* Results and their releases.                                             *)

(* A row is written by anyone, its job and the release worker included: a  *)
(* result the release worker may take stays one, and a release begins (or  *)
(* begins again) only as the release worker's item, or on the newest run   *)
(* of a task while the web process is in no enqueue.                       *)
Filed(R, r, new) ==
    /\ KeptRow(R[r], new)
    /\ RowFine(new)
    /\ ReleaseCandidate(R[r]) => ReleaseCandidate(new)
    /\ new.release \notin Final =>
        \/ R[r].release \notin Final /\ (Begun(new) => Begun(R[r]) \/ rel.run = r)
        \/ Latest(R, r) /\ web = NoRequest

FiledGrowth(R, n, S, m) ==
    \/ m = n /\ \A r \in RunIds : Filed(R, r, S[r])
    \/ /\ m = n + 1 /\ m \in RunIds
       /\ \A r \in RunIds \ {m} : Filed(R, r, S[r])
       /\ Fresh(R, S, m)

LEMMA CalmFiled ==
    ASSUME NEW R \in [RunIds -> Run], NEW r \in RunIds, NEW new, RowFine(R[r]), Calm(R[r], new)
    PROVE  Filed(R, r, new)
<1>1. RowFine(new)
  BY CalmFine
<1>2. new.release \notin Final => R[r].release \notin Final /\ (Begun(new) => Begun(R[r]))
  BY DEF Calm, Begun, Final
<1>3. ReleaseCandidate(R[r]) => ReleaseCandidate(new)
  BY DEF Calm, Steady, ReleaseCandidate, Active
<1> QED
  BY <1>1, <1>2, <1>3 DEF Filed, Calm

LEMMA CalmGrowthFiled ==
    ASSUME NEW R \in [RunIds -> Run], NEW n, NEW S, NEW m, FineTable(R), CalmGrowth(R, n, S, m)
    PROVE  FiledGrowth(R, n, S, m)
BY CalmFiled DEF FineTable, CalmGrowth, FiledGrowth, CalmTable

LEMMA FreshFine ==
    ASSUME NEW R, NEW S, NEW m, Fresh(R, S, m)
    PROVE  RowFine(S[m]) /\ ~ReleaseCandidate(S[m])
BY DEF Fresh, RowFine, Begun, ReleaseCandidate

(* The item of the release worker stays, ends, or is a new candidate, the  *)
(* newest run of a task while the web process is in no enqueue.            *)
ItemMoves ==
    \/ rel' = rel
    \/ rel'.run = 0
    \/ /\ rel'.run \in RunIds /\ ReleaseCandidate(run[rel'.run])
       /\ Latest(run, rel'.run) /\ web = NoRequest

(* What is in release after the step was so before it, or it is the newest *)
(* run of a task of which no enqueue is under way.                         *)
LEMMA FiledRelease ==
    ASSUME IInv, ReleaseOfNewest, ItemMoves, NEW r \in RunIds, InRelease(r)',
           Filed(run, r, run'[r])
    PROVE  Latest(run, r) /\ run[r].task # web.task
<1>1. CASE Latest(run, r) /\ web = NoRequest
  BY <1>1 DEF NoRequest, Latest
<1>2. CASE InRelease(r)
  BY <1>2 DEF ReleaseOfNewest
<1>3. CASE ~InRelease(r) /\ ~(Latest(run, r) /\ web = NoRequest)
  <2>1. run[r].release \notin Final /\ (Begun(run'[r]) => Begun(run[r]) \/ rel.run = r)
    BY <1>3 DEF Filed, InRelease
  <2>2. rel.run # r /\ ~Begun(run'[r])
    BY <1>3, <2>1 DEF InRelease, Begun
  <2>3. rel'.run = r /\ r # 0
    BY <2>2 DEF InRelease, Begun, RunIds
  <2> QED
    BY <1>3, <2>2, <2>3 DEF ItemMoves
<1> QED
  BY <1>1, <1>2, <1>3

LEMMA FiledSafe ==
    ASSUME IInv, Releases, ReleaseOfNewest, FiledGrowth(run, made, run', made'),
           Asked(run, run'), ItemMoves
    PROVE  Releases' /\ ReleaseOfNewest'
<1>1. run \in [RunIds -> Run] /\ made \in Nat /\ rel.run \in 0..MaxRuns
  BY DEF IInv, TypeOK
<1>2. \A r \in RunIds : Filed(run, r, run'[r]) \/ (r = made' /\ Fresh(run, run', r) /\ made' = made + 1)
  BY DEF FiledGrowth
<1>3. \A r \in RunIds : RowFine(run'[r])
  BY <1>2, FreshFine DEF Filed
<1>4. ASSUME rel'.run # 0
      PROVE  rel'.run \in RunIds /\ ReleaseCandidate(run'[rel'.run])
  <2>1. rel'.run \in RunIds /\ ReleaseCandidate(run[rel'.run])
    BY <1>1, <1>4 DEF Releases, ItemMoves, RunIds
  <2>2. run[rel'.run].status # "absent"
    BY <2>1 DEF ReleaseCandidate
  <2>3. ~(rel'.run > made)
    BY <2>1, <2>2 DEF IInv, RowsOK
  <2>4. Filed(run, rel'.run, run'[rel'.run])
    BY <1>1, <1>2, <2>1, <2>3 DEF RunIds
  <2> QED
    BY <2>1, <2>4 DEF Filed
<1>5. ASSUME NEW r \in RunIds, InRelease(r)'
      PROVE  Latest(run', r) /\ run'[r].task # web'.task
  <2>1. ReleaseCandidate(run'[r]) /\ run'[r].release \notin Final
    <3>1. CASE rel'.run = r
      <4>1. r # 0
        BY DEF RunIds
      <4> QED
        BY <1>4, <1>5, <3>1, <4>1 DEF InRelease
    <3>2. CASE Begun(run'[r])
      BY <1>3, <1>5, <3>2 DEF RowFine, InRelease
    <3> QED
      BY <1>5, <3>1, <3>2 DEF InRelease, Begun
  <2>2. Undecided(run'[r])
    BY <2>1 DEF Undecided, ReleaseCandidate
  <2>3. Filed(run, r, run'[r])
    BY <1>2, <2>1, FreshFine
  <2>4. Latest(run, r) /\ run[r].task # web.task
    BY <1>5, <2>3, FiledRelease
  <2>5. run'[r].task = run[r].task
    BY <2>3 DEF Filed, KeptRow
  <2>6. run'[r].task # web'.task
    BY <2>2, <2>4, <2>5 DEF Asked
  <2>7. ASSUME NEW q \in RunIds, run'[q].task = run'[r].task
        PROVE  q <= r
    <3>1. CASE Filed(run, q, run'[q])
      BY <2>4, <2>5, <2>7, <3>1 DEF Filed, KeptRow, Latest
    <3>2. CASE ~Filed(run, q, run'[q])
      <4>1. Fresh(run, run', q) /\ r # q
        BY <1>2, <2>3, <3>2
      <4> QED
        BY <2>2, <2>4, <2>5, <2>7, <4>1 DEF Fresh
    <3> QED
      BY <3>1, <3>2
  <2> QED
    BY <2>4, <2>5, <2>6, <2>7 DEF Latest
<1>6. Releases'
  BY <1>3, <1>4 DEF Releases
<1>7. ReleaseOfNewest'
  BY <1>5 DEF ReleaseOfNewest
<1> QED
  BY <1>6, <1>7

-----------------------------------------------------------------------------
(* The git work queued in a worker.                                        *)

LEMMA TailEntries ==
    ASSUME NEW S, NEW s \in Seq(S), s # <<>>
    PROVE  /\ 1 \in DOMAIN s /\ Head(s) = s[1]
           /\ DOMAIN s = 1..Len(s) /\ DOMAIN Tail(s) = 1..(Len(s) - 1) /\ Len(s) \in Nat
           /\ \A i \in DOMAIN Tail(s) : i + 1 \in DOMAIN s /\ Tail(s)[i] = s[i + 1]
<1>1. /\ Len(s) \in Nat /\ DOMAIN s = 1..Len(s)
      /\ Len(Tail(s)) = Len(s) - 1 /\ Tail(s) \in Seq(S)
      /\ Head(s) = s[1]
      /\ \A i \in 1..(Len(s) - 1) : Tail(s)[i] = s[i + 1]
  BY HeadTailProperties, LenProperties
<1>2. Len(s) # 0
  BY EmptySeq
<1>3. DOMAIN Tail(s) = 1..(Len(s) - 1)
  BY <1>1, LenProperties
<1> QED
  BY <1>1, <1>2, <1>3

LEMMA AppendEntries ==
    ASSUME NEW S, NEW s \in Seq(S), NEW e \in S
    PROVE  /\ DOMAIN s = 1..Len(s) /\ Len(s) \in Nat
           /\ DOMAIN Append(s, e) = 1..(Len(s) + 1)
           /\ \A i \in DOMAIN s : i \in DOMAIN Append(s, e) /\ Append(s, e)[i] = s[i]
           /\ Append(s, e)[Len(s) + 1] = e
<1>1. /\ Append(s, e) \in Seq(S) /\ Len(Append(s, e)) = Len(s) + 1
      /\ \A i \in 1..Len(s) : Append(s, e)[i] = s[i]
      /\ Append(s, e)[Len(s) + 1] = e
  BY AppendProperties
<1>2. Len(s) \in Nat /\ DOMAIN s = 1..Len(s) /\ DOMAIN Append(s, e) = 1..Len(Append(s, e))
  BY <1>1, LenProperties
<1> QED
  BY <1>1, <1>2

(* Rows keep their tasks; a run that is inserted has no job.               *)
SameTasks(R, S, j) ==
    \A r \in RunIds :
        /\ R[r].task # NoTask => S[r].task = R[r].task
        /\ R[r].task = NoTask => j[r].phase = "idle"

LEMMA TasksStay ==
    ASSUME IInv, Grown(run, made, run', made'), NEW w \in Workers
    PROVE  SameTasks(run, run', job[w])
<1>1. ASSUME NEW r \in RunIds, run[r].task # NoTask
      PROVE  run'[r].task = run[r].task
  <2>1. ~(r > made) /\ made \in Nat
    BY <1>1 DEF IInv, RowsOK
  <2> QED
    BY <2>1 DEF Grown, Kept, KeptRow, RunIds
<1>2. ASSUME NEW r \in RunIds, run[r].task = NoTask
      PROVE  job[w][r].phase = "idle"
  <2>1. r > made /\ made \in Nat
    BY <1>2 DEF IInv, RowsOK
  <2> QED
    BY <2>1 DEF IInv, JobsMade, RunIds
<1> QED
  BY <1>1, <1>2 DEF SameTasks

(* Nothing is queued or done; a job takes another phase. *)
LEMMA ChainStays ==
    ASSUME NEW s \in Seq(Op), NEW j, NEW R, NEW i, NEW S, ChainGood(s, j, R), SameTasks(R, S, j),
           NEW r, \A q \in RunIds \ {r} : i[q].phase = j[q].phase,
           \/ i[r].phase = j[r].phase
           \/ /\ j[r].phase \notin {"ensure", "revert"}
              /\ i[r].phase \in Resting \/ j[r].phase \notin Resting
    PROVE  ChainGood(s, i, S)
<1>1. \A k \in DOMAIN s : s[k] \in Op /\ s[k].run \in RunIds
  <2>1. \A k \in DOMAIN s : s[k] \in Op
    BY ElementOfSeq, LenProperties
  <2> QED
    BY <2>1 DEF Op
<1>2. ASSUME NEW k \in DOMAIN s, s[k].op \in {"ensure", "revert"}
      PROVE  i[s[k].run].phase = s[k].op
  BY <1>1, <1>2 DEF ChainGood
<1>3. ASSUME NEW k \in DOMAIN s, s[k].op = "cleanup"
      PROVE  S[s[k].run].task = R[s[k].run].task /\ R[s[k].run].task # NoTask
  BY <1>1, <1>3 DEF ChainGood, SameTasks
<1>4. ASSUME NEW k \in DOMAIN s, s[k].op = "cleanup",
             NEW q \in RunIds, S[q].task = S[s[k].run].task
      PROVE  \/ i[q].phase \in Resting
             \/ /\ i[q].phase = "ensure"
                /\ \E m \in DOMAIN s : m > k /\ s[m] = [op |-> "ensure", run |-> q]
  <2>1. \/ j[q].phase \in Resting
        \/ /\ j[q].phase = "ensure"
           /\ \E m \in DOMAIN s : m > k /\ s[m] = [op |-> "ensure", run |-> q]
    <3>1. CASE R[q].task = NoTask
      BY <3>1 DEF SameTasks, Resting
    <3>2. CASE R[q].task # NoTask
      BY <1>3, <1>4, <3>2 DEF SameTasks, ChainGood
    <3> QED
      BY <3>1, <3>2
  <2> QED
    BY <2>1
<1> QED
  BY <1>2, <1>3, <1>4 DEF ChainGood

(* The first entry is done. *)
LEMMA ChainPop ==
    ASSUME NEW s \in Seq(Op), NEW j, NEW R, NEW i, NEW S, ChainGood(s, j, R), SameTasks(R, S, j),
           s # <<>>, NEW op, NEW r \in RunIds, Head(s) = [op |-> op, run |-> r],
           \A q \in RunIds \ {r} : i[q].phase = j[q].phase,
           op \in {"ensure", "revert"} \/ i[r].phase = j[r].phase
    PROVE  ChainGood(Tail(s), i, S)
<1> DEFINE u == Tail(s)
<1>1. /\ 1 \in DOMAIN s /\ s[1] = [op |-> op, run |-> r]
      /\ DOMAIN s = 1..Len(s) /\ DOMAIN u = 1..(Len(s) - 1) /\ Len(s) \in Nat
      /\ \A k \in DOMAIN u : k + 1 \in DOMAIN s /\ u[k] = s[k + 1]
  BY TailEntries
<1>2. \A k \in DOMAIN s : s[k] \in Op /\ s[k].run \in RunIds
  <2>1. \A k \in DOMAIN s : s[k] \in Op
    BY ElementOfSeq, LenProperties
  <2> QED
    BY <2>1 DEF Op
<1> HIDE DEF u
<1>3. \A k \in DOMAIN u : u[k] # [op |-> op, run |-> r]
  <2>1. \A k \in DOMAIN u : k + 1 # 1
    BY <1>1
  <2> QED
    BY <1>1, <2>1 DEF ChainGood
<1>4. \A k, m \in DOMAIN u : u[k] = u[m] => k = m
  <2> SUFFICES ASSUME NEW k \in DOMAIN u, NEW m \in DOMAIN u, u[k] = u[m]
               PROVE  k = m
    OBVIOUS
  <2>1. k + 1 = m + 1
    BY <1>1 DEF ChainGood
  <2> QED
    BY <1>1, <2>1
<1>5. ASSUME NEW k \in DOMAIN u, u[k].op \in {"ensure", "revert"}
      PROVE  i[u[k].run].phase = u[k].op
  <2>1. u[k] \in Op /\ j[u[k].run].phase = u[k].op
    BY <1>1, <1>2, <1>5 DEF ChainGood
  <2>2. CASE u[k].run # r
    BY <2>1, <2>2 DEF Op
  <2>3. CASE u[k].run = r /\ op \in {"ensure", "revert"}
    <3>1. j[r].phase = op
      BY <1>1, <2>3 DEF ChainGood
    <3>2. u[k] = [op |-> op, run |-> r]
      BY <2>1, <2>3, <3>1 DEF Op
    <3> QED
      BY <1>3, <3>2
  <2>4. CASE u[k].run = r /\ op \notin {"ensure", "revert"}
    BY <2>1, <2>4
  <2> QED
    BY <2>2, <2>3, <2>4
<1>6. ASSUME NEW k \in DOMAIN u, u[k].op = "cleanup"
      PROVE  /\ S[u[k].run].task = R[u[k].run].task /\ R[u[k].run].task # NoTask
             /\ k + 1 \in DOMAIN s /\ s[k + 1] = u[k]
  BY <1>1, <1>2, <1>6 DEF ChainGood, SameTasks
<1>7. ASSUME NEW k \in DOMAIN u, u[k].op = "cleanup",
             NEW q \in RunIds, S[q].task = S[u[k].run].task
      PROVE  \/ i[q].phase \in Resting
             \/ /\ i[q].phase = "ensure"
                /\ \E m \in DOMAIN u : m > k /\ u[m] = [op |-> "ensure", run |-> q]
  <2>1. \/ j[q].phase \in Resting
        \/ /\ j[q].phase = "ensure"
           /\ \E m \in DOMAIN s : m > k + 1 /\ s[m] = [op |-> "ensure", run |-> q]
    <3>1. CASE R[q].task = NoTask
      BY <3>1 DEF SameTasks, Resting
    <3>2. CASE R[q].task # NoTask
      <4>1. R[q].task = R[s[k + 1].run].task /\ s[k + 1].op = "cleanup" /\ k + 1 \in DOMAIN s
        BY <1>6, <1>7, <3>2 DEF SameTasks
      <4> QED
        BY <4>1 DEF ChainGood
    <3> QED
      BY <3>1, <3>2
  <2>2. ASSUME NEW m \in DOMAIN s, m > k + 1, s[m] = [op |-> "ensure", run |-> q]
        PROVE  \E n \in DOMAIN u : n > k /\ u[n] = [op |-> "ensure", run |-> q]
    <3>1. m - 1 \in DOMAIN u /\ m - 1 > k /\ (m - 1) + 1 = m
      BY <1>1, <2>2
    <3> QED
      BY <1>1, <2>2, <3>1
  <2>3. CASE q = r /\ op \in {"ensure", "revert"}
    <3>1. j[r].phase = op
      BY <1>1, <2>3 DEF ChainGood
    <3>2. PICK m \in DOMAIN s : m > k + 1 /\ s[m] = s[1]
      BY <1>1, <2>1, <2>3, <3>1 DEF Resting
    <3>3. m = 1
      BY <1>1, <3>2 DEF ChainGood
    <3> QED
      BY <1>1, <3>2, <3>3
  <2>4. CASE i[q].phase = j[q].phase
    BY <2>1, <2>2, <2>4
  <2> QED
    BY <2>3, <2>4
<1>8. ChainGood(u, i, S)
  BY <1>4, <1>5, <1>6, <1>7 DEF ChainGood
<1> QED
  BY <1>8 DEF u

(* A job queues its git work. *)
LEMMA ChainPushJob ==
    ASSUME NEW s \in Seq(Op), NEW j, NEW R, NEW i, NEW S, ChainGood(s, j, R), SameTasks(R, S, j),
           NEW op \in {"ensure", "revert"}, NEW r \in RunIds,
           \A q \in RunIds \ {r} : i[q].phase = j[q].phase,
           i[r].phase = op, j[r].phase \notin {"ensure", "revert"},
           op = "ensure" \/ j[r].phase \notin Resting
    PROVE  ChainGood(Append(s, [op |-> op, run |-> r]), i, S)
<1> DEFINE e == [op |-> op, run |-> r]
           u == Append(s, e)
<1>0. e \in Op
  BY DEF Op
<1>1. /\ DOMAIN s = 1..Len(s) /\ Len(s) \in Nat /\ DOMAIN u = 1..(Len(s) + 1)
      /\ \A k \in DOMAIN s : k \in DOMAIN u /\ u[k] = s[k]
      /\ u[Len(s) + 1] = e
  BY <1>0, AppendEntries
<1>2. \A k \in DOMAIN s : s[k] \in Op /\ s[k].run \in RunIds
  <2>1. \A k \in DOMAIN s : s[k] \in Op
    BY ElementOfSeq, LenProperties
  <2> QED
    BY <2>1 DEF Op
<1> HIDE DEF u
<1>3. \A k \in DOMAIN u : k \in DOMAIN s \/ k = Len(s) + 1
  BY <1>1
<1>4. \A k \in DOMAIN s : s[k].op \in {"ensure", "revert"} => s[k].run # r
  BY DEF ChainGood
<1>5. \A k, m \in DOMAIN u : u[k] = u[m] => k = m
  <2>1. \A k \in DOMAIN s : s[k] # e
    BY <1>4
  <2> QED
    BY <1>1, <1>3, <2>1 DEF ChainGood
<1>6. ASSUME NEW k \in DOMAIN u, u[k].op \in {"ensure", "revert"}
      PROVE  i[u[k].run].phase = u[k].op
  <2>1. CASE k \in DOMAIN s
    BY <1>1, <1>2, <1>4, <1>6, <2>1 DEF ChainGood
  <2>2. CASE k = Len(s) + 1
    BY <1>1, <2>2
  <2> QED
    BY <1>3, <2>1, <2>2
<1>7. ASSUME NEW k \in DOMAIN u, u[k].op = "cleanup"
      PROVE  /\ k \in DOMAIN s /\ s[k] = u[k]
             /\ S[u[k].run].task = R[u[k].run].task /\ R[u[k].run].task # NoTask
  <2>1. k # Len(s) + 1
    BY <1>1, <1>7
  <2> QED
    BY <1>1, <1>2, <1>3, <1>7, <2>1 DEF ChainGood, SameTasks
<1>8. ASSUME NEW k \in DOMAIN u, u[k].op = "cleanup",
             NEW q \in RunIds, S[q].task = S[u[k].run].task
      PROVE  \/ i[q].phase \in Resting
             \/ /\ i[q].phase = "ensure"
                /\ \E m \in DOMAIN u : m > k /\ u[m] = [op |-> "ensure", run |-> q]
  <2>1. \/ j[q].phase \in Resting
        \/ /\ j[q].phase = "ensure"
           /\ \E m \in DOMAIN s : m > k /\ s[m] = [op |-> "ensure", run |-> q]
    <3>1. CASE R[q].task = NoTask
      BY <3>1 DEF SameTasks, Resting
    <3>2. CASE R[q].task # NoTask
      <4>1. R[q].task = R[s[k].run].task /\ s[k].op = "cleanup" /\ k \in DOMAIN s
        BY <1>7, <1>8, <3>2 DEF SameTasks
      <4> QED
        BY <4>1 DEF ChainGood
    <3> QED
      BY <3>1, <3>2
  <2>2. CASE q # r
    BY <1>1, <2>1, <2>2
  <2>3. CASE q = r
    <3>1. op = "ensure"
      BY <2>1, <2>3
    <3>2. Len(s) + 1 \in DOMAIN u /\ Len(s) + 1 > k
      BY <1>1, <1>7, <1>8
    <3> QED
      BY <1>1, <2>3, <3>1, <3>2
  <2> QED
    BY <2>2, <2>3
<1>9. ChainGood(u, i, S)
  BY <1>5, <1>6, <1>7, <1>8 DEF ChainGood
<1> QED
  BY <1>9 DEF u

(* A clean-up is queued: no job works in the worktree of the task.         *)
LEMMA ChainPushCleanup ==
    ASSUME NEW s \in Seq(Op), NEW j, NEW R, NEW S, ChainGood(s, j, R), SameTasks(R, S, j),
           NEW r \in RunIds, R[r].task # NoTask,
           \A k \in DOMAIN s : s[k].op # "cleanup",
           \A q \in RunIds : R[q].task = R[r].task => j[q].phase \in Resting
    PROVE  ChainGood(Append(s, [op |-> "cleanup", run |-> r]), j, S)
<1> DEFINE e == [op |-> "cleanup", run |-> r]
           u == Append(s, e)
<1>0. e \in Op
  BY DEF Op
<1>1. /\ DOMAIN s = 1..Len(s) /\ Len(s) \in Nat /\ DOMAIN u = 1..(Len(s) + 1)
      /\ \A k \in DOMAIN s : k \in DOMAIN u /\ u[k] = s[k]
      /\ u[Len(s) + 1] = e
  BY <1>0, AppendEntries
<1> HIDE DEF u
<1>2. \A k \in DOMAIN u : k \in DOMAIN s \/ k = Len(s) + 1
  BY <1>1
<1>3. \A k, m \in DOMAIN u : u[k] = u[m] => k = m
  <2>1. \A k \in DOMAIN s : s[k] # e
    OBVIOUS
  <2> QED
    BY <1>1, <1>2, <2>1 DEF ChainGood
<1>4. ASSUME NEW k \in DOMAIN u, u[k].op \in {"ensure", "revert"}
      PROVE  j[u[k].run].phase = u[k].op
  <2>1. k # Len(s) + 1
    BY <1>1, <1>4
  <2> QED
    BY <1>1, <1>2, <1>4, <2>1 DEF ChainGood
<1>5. ASSUME NEW k \in DOMAIN u, u[k].op = "cleanup"
      PROVE  u[k].run = r
  BY <1>1, <1>2, <1>5
<1>6. S[r].task = R[r].task
  BY DEF SameTasks
<1>7. ASSUME NEW q \in RunIds, S[q].task = S[r].task
      PROVE  j[q].phase \in Resting
  BY <1>6, <1>7 DEF SameTasks, Resting
<1>8. ChainGood(u, j, S)
  BY <1>3, <1>4, <1>5, <1>6, <1>7 DEF ChainGood
<1> QED
  BY <1>8 DEF u

-----------------------------------------------------------------------------
(* Steps that leave the worker alone.                                      *)

LEMMA IdleBeyond ==
    ASSUME IInv, NEW w \in Workers, NEW r \in RunIds, r > made
    PROVE  job[w][r].phase = "idle"
<1>1. made \in Nat /\ r \in Nat
  BY DEF IInv, TypeOK, RunIds
<1>2. ~(r <= made)
  BY <1>1
<1> QED
  BY <1>2 DEF IInv, JobsMade

LEMMA JobRowsStay ==
    ASSUME IInv, JobRows, silent = {}, job' = job,
           \A r \in RunIds : Steady(run[r], run'[r]) \/ (r > made /\ run'[r].status = "queued")
    PROVE  JobRows'
<1> SUFFICES ASSUME NEW w \in Workers, NEW r \in RunIds
             PROVE  /\ job[w][r].phase \in Working => HoldsRow(w, r)'
                    /\ job[w][r].phase \in Closing => ~Active(run'[r])
                    /\ HoldsRow(w, r)' => job[w][r].phase # "idle"
  BY DEF JobRows
<1>1. CASE r > made /\ run'[r].status = "queued"
  <2>1. job[w][r].phase = "idle"
    BY <1>1, IdleBeyond
  <2> QED
    BY <1>1, <2>1 DEF Working, Closing, HoldsRow
<1>2. CASE Steady(run[r], run'[r])
  <2>1. w # Gone
    BY DEF RowsAssumption
  <2> QED
    BY <1>2, <2>1 DEF JobRows, HoldsRow, Steady, Active
<1> QED
  BY <1>1, <1>2

LEMMA ChainsStay ==
    ASSUME IInv, Chains, Grown(run, made, run', made'), UNCHANGED <<job, chain>>
    PROVE  Chains'
<1> SUFFICES ASSUME NEW w \in Workers
             PROVE  ChainGood(chain[w], job[w], run')
  BY DEF Chains
<1>1. SameTasks(run, run', job[w])
  BY TasksStay
<1>2. chain[w] \in Seq(Op) /\ ChainGood(chain[w], job[w], run)
  BY DEF IInv, TypeOK, Chains
<1> QED
  BY <1>1, <1>2, ChainStays

(* A row is inserted, or it is steady and no clean-up is claimed.          *)
QuietRow(r) ==
    \/ /\ Steady(run[r], run'[r])
       /\ run'[r].control = "cleanup_running" => run[r].control = "cleanup_running"
    \/ r > made /\ run'[r].status = "queued" /\ run'[r].control = ""

LEMMA QuietSafe ==
    ASSUME IInv, SafeInv, Sound, UNCHANGED worker,
           FiledGrowth(run, made, run', made'),
           \A r \in RunIds : QuietRow(r),
           Asked(run, run'),
           ItemMoves
    PROVE  SafeInv'
<1>1. UNCHANGED <<proc, lease, silent, job, chain, agents, orphans>>
  BY DEF worker
<1>2. OneWorker' /\ ChildrenOfJobs'
  BY <1>1 DEF SafeInv, OneWorker, ChildrenOfJobs
<1>3. JobRows'
  BY <1>1, JobRowsStay DEF SafeInv, OneWorker, QuietRow
<1>4. Chains'
  BY <1>1, ChainsStay DEF SafeInv, Sound
<1>5. CleanupHasExecutor'
  <2>1. \A r \in RunIds :
            run'[r].control = "cleanup_running" => run[r].control = "cleanup_running"
    BY DEF QuietRow
  <2> QED
    BY <1>1, <2>1 DEF SafeInv, CleanupHasExecutor
<1>6. Releases' /\ ReleaseOfNewest'
  BY FiledSafe DEF SafeInv
<1>7. ClosedUnclaimed'
  BY <1>1 DEF SafeInv, ClosedUnclaimed, QuietRow
<1> QED
  BY <1>2, <1>3, <1>4, <1>5, <1>6, <1>7 DEF SafeInv

LEMMA CalmSafe ==
    ASSUME IInv, SafeInv, Sound, UNCHANGED <<worker, rel>>,
           CalmGrowth(run, made, run', made'), Asked(run, run')
    PROVE  SafeInv'
<1>1. FiledGrowth(run, made, run', made')
  BY CalmGrowthFiled DEF IInv, TypeOK, SafeInv, Releases, FineTable
<1>2. ASSUME NEW r \in RunIds
      PROVE  QuietRow(r)
  <2>1. CASE Calm(run[r], run'[r])
    BY <2>1 DEF Calm, QuietRow
  <2>2. CASE r = made' /\ made' = made + 1 /\ Fresh(run, run', made')
    <3>1. made \in Nat
      BY DEF IInv, TypeOK
    <3>2. r > made
      BY <2>2, <3>1
    <3>3. run'[r].status = "queued" /\ run'[r].control = ""
      BY <2>2 DEF Fresh
    <3> QED
      BY <3>2, <3>3 DEF QuietRow
  <2> QED
    BY <2>1, <2>2 DEF CalmGrowth, CalmTable
<1> QED
  BY <1>1, <1>2, QuietSafe DEF ItemMoves

LEMMA WebSafe ==
    ASSUME IInv, SafeInv, Sound, NEW t \in Tasks, Web(t)
    PROVE  SafeInv'
<1>1. FineTable(run)
  BY DEF SafeInv, Releases, FineTable
<1> QED
  BY <1>1, WebCalm, CalmSafe

LEMMA AnswerSafe ==
    ASSUME IInv, SafeInv, Sound, Answer
    PROVE  SafeInv'
BY AnswerCalm, CalmSafe

(* The release worker rewrites release_status.                             *)
LEMMA RelSafe ==
    ASSUME IInv, SafeInv, Sound, UNCHANGED <<made, worker, web>>,
           NEW r \in RunIds, NEW s \in ReleaseStatus, run' = run \/ RelWrite(r, s),
           run' # run =>
                /\ ReleaseCandidate(run[r])
                /\ s \notin Final => Open(r) \/ (Latest(run, r) /\ web = NoRequest),
           ItemMoves
    PROVE  SafeInv'
<1>1. run \in [RunIds -> Run] /\ \A q \in RunIds : RowFine(run[q])
  BY DEF IInv, TypeOK, SafeInv, Releases
<1>2. ASSUME NEW q \in RunIds
      PROVE  Calm(run[q], run[q]) /\ Filed(run, q, run[q])
  BY <1>1, CalmRows, CalmFiled
<1>0. Asked(run, run')
  BY DEF Asked
<1>3. CASE run' = run
  <2>1. FiledGrowth(run, made, run', made')
    BY <1>2, <1>3 DEF FiledGrowth
  <2>2. \A q \in RunIds : QuietRow(q)
    BY <1>2, <1>3 DEF QuietRow, Calm
  <2> QED
    BY <1>0, <2>1, <2>2, QuietSafe
<1>4. CASE run' # run
  <2> DEFINE rec == [run[r] EXCEPT !.release = s]
  <2>1. /\ run' = [run EXCEPT ![r] = rec]
        /\ KeptRow(run[r], rec)
        /\ rec.status = run[r].status /\ rec.verdict = run[r].verdict
        /\ rec.control = run[r].control /\ rec.worker = run[r].worker
        /\ rec.release = s
    <3>1. run[r] \in Run
      BY <1>1
    <3>2. KeptRow(run[r], rec)
      BY <3>1, TouchedRows
    <3>3. run' = [run EXCEPT ![r] = rec]
      BY <1>1, <1>4 DEF RelWrite
    <3> QED
      BY <3>1, <3>2, <3>3 DEF Run
  <2> HIDE DEF rec
  <2>2. RowFine(rec)
    BY <1>1, <1>4, <2>1 DEF RowFine, ReleaseCandidate
  <2>3. Filed(run, r, rec)
    BY <1>4, <2>1, <2>2 DEF Filed, ReleaseCandidate, Open
  <2>4. Steady(run[r], rec)
    BY <1>1, <1>4, <2>1 DEF Steady, Active, ReleaseCandidate
  <2>5. \A q \in RunIds : q # r => run'[q] = run[q]
    BY <1>1, <2>1
  <2>6. run'[r] = rec
    BY <1>1, <2>1
  <2>7. FiledGrowth(run, made, run', made')
    BY <1>2, <2>3, <2>5, <2>6 DEF FiledGrowth
  <2>8. ASSUME NEW q \in RunIds
        PROVE  QuietRow(q)
    BY <1>2, <2>1, <2>4, <2>5, <2>6 DEF Calm, QuietRow
  <2> QED
    BY <1>0, <2>7, <2>8, QuietSafe
<1> QED
  BY <1>3, <1>4

LEMMA ReleaseSafe ==
    ASSUME IInv, SafeInv, Sound, web = NoRequest, Release
    PROVE  SafeInv'
<1>1. run \in [RunIds -> Run]
  BY DEF IInv, TypeOK
<1>2. ASSUME NEW r \in RunIds, Open(r)
      PROVE  ReleaseCandidate(run[r])
  BY <1>2 DEF Open, SafeInv, Releases, RunIds
<1>3. CASE RelDrop
  <2>1. UNCHANGED <<task, run, made, worker, web>> /\ rel'.run = 0
    BY <1>3 DEF RelDrop, RelUnchanged, NoRelease
  <2>2. ASSUME NEW q \in RunIds
        PROVE  Calm(run[q], run[q]) /\ Filed(run, q, run[q])
    BY <1>1, CalmRows, CalmFiled DEF SafeInv, Releases
  <2>3. FiledGrowth(run, made, run', made')
    BY <2>1, <2>2 DEF FiledGrowth
  <2>4. \A q \in RunIds : QuietRow(q)
    BY <2>1, <2>2 DEF QuietRow, Calm
  <2>5. Asked(run, run') /\ ItemMoves
    BY <2>1 DEF Asked, ItemMoves
  <2> QED
    BY <2>1, <2>3, <2>4, <2>5, QuietSafe
<1>4. ASSUME NEW r \in RunIds, RelTake(r)
      PROVE  SafeInv'
  <2>1. /\ UNCHANGED <<made, worker, web>> /\ run' = run
        /\ ReleaseCandidate(run[r]) /\ Latest(run, r) /\ rel'.run = r
    BY <1>4 DEF RelTake, RelUnchanged
  <2>2. "pending" \in ReleaseStatus
    BY DEF ReleaseStatus
  <2> QED
    BY <2>1, <2>2, RelSafe DEF ItemMoves
<1>5. ASSUME NEW r \in RunIds, RelFinish(r)
      PROVE  SafeInv'
  <2>1. /\ UNCHANGED <<made, worker, web>> /\ RelWrite(r, "released") /\ rel'.run = 0 /\ Open(r)
    BY <1>5 DEF RelFinish, RelUnchanged, NoRelease
  <2>2. "released" \in ReleaseStatus
    BY DEF ReleaseStatus
  <2> QED
    BY <1>2, <2>1, <2>2, RelSafe DEF ItemMoves
<1>6. ASSUME NEW r \in RunIds, NEW s \in ReleaseStatus, RelProcess(r, s) \/ RelPutBack(r, s)
      PROVE  SafeInv'
  <2>1. /\ UNCHANGED <<made, worker, web>> /\ RelWrite(r, s) /\ Open(r)
        /\ rel' = rel \/ rel'.run = 0
    BY <1>6 DEF RelProcess, RelPutBack, RelUnchanged, NoRelease
  <2> QED
    BY <1>2, <2>1, RelSafe DEF ItemMoves
<1>7. ASSUME NEW r \in RunIds, NEW s \in ReleaseStatus, RelReopen(r, s)
      PROVE  SafeInv'
  <2>1. /\ UNCHANGED <<made, worker, web>> /\ RelWrite(r, s) /\ rel' = rel
        /\ ReleaseCandidate(run[r]) /\ Latest(run, r)
    BY <1>7 DEF RelReopen, RelUnchanged
  <2> QED
    BY <2>1, RelSafe DEF ItemMoves
<1>8. ASSUME NEW r \in RunIds, NEW s \in TaskStatus, RelBlock(r, s)
      PROVE  SafeInv'
  <2>1. /\ UNCHANGED <<made, worker, web>> /\ RelWrite(r, "blocked") /\ rel'.run = 0 /\ Open(r)
    BY <1>8 DEF RelBlock, RelUnchanged, NoRelease
  <2>2. "blocked" \in ReleaseStatus
    BY DEF ReleaseStatus
  <2> QED
    BY <1>2, <2>1, <2>2, RelSafe DEF ItemMoves
<1> QED
  BY <1>3, <1>4, <1>5, <1>6, <1>7, <1>8 DEF Release

-----------------------------------------------------------------------------
(* A step of one job.                                                      *)

(* The job of w for r takes phase p, or ends in phase "idle".              *)
PhaseMoves(w, r, p) ==
    \A v \in Workers, q \in RunIds :
        job'[v][q].phase = IF v = w /\ q = r THEN p ELSE job[v][q].phase

(* Its Codex process runs in the phases "agent" and "late".                *)
AgentMoves(w, r, p) ==
    \A v \in Workers, q \in RunIds :
        <<v, q>> \in agents' <=>
            IF v = w /\ q = r THEN p \in {"agent", "late"} ELSE <<v, q>> \in agents

(* The row is the job's until the job closes it or gives it back.          *)
RowFollows(w, r, p, new) ==
    /\ new.status = "running" => new.worker = w /\ p # "idle"
    /\ p \in Working => new.status = "running"
    /\ p \in Closing => ~Active(new)
    /\ new.control # "cleanup_running"

(* Only git work of w is queued or done, and no clean-up.                  *)
HasCleanup(s, r) == \E i \in DOMAIN s : s[i] = [op |-> "cleanup", run |-> r]
ChainMoves(w) ==
    /\ \A v \in Workers \ {w} : chain'[v] = chain[v]
    /\ ChainGood(chain'[w], job'[w], run')
    /\ \A r \in RunIds : HasCleanup(chain[w], r) => HasCleanup(chain'[w], r)

LEMMA JobSafe ==
    ASSUME IInv, SafeInv, Sound, UNCHANGED <<proc, lease, silent, orphans, rel, web>>,
           NEW w \in Workers, NEW r \in RunIds, NEW p \in Phase, proc[w] # "down",
           PhaseMoves(w, r, p), AgentMoves(w, r, p), RowFollows(w, r, p, run'[r]), ChainMoves(w),
           \A q \in RunIds \ {r} : QuietRow(q),
           FiledGrowth(run, made, run', made')
    PROVE  SafeInv'
<1>1. \A v \in Workers \ {w} : proc[v] = "down"
  BY DEF SafeInv, OneWorker
<1>2. OneWorker'
  <2>1. \A v \in Workers \ {w} :
            /\ chain'[v] = <<>>
            /\ \A q \in RunIds : job'[v][q].phase = "idle"
    BY <1>1 DEF SafeInv, OneWorker, ChainMoves, PhaseMoves
  <2> QED
    BY <1>1, <2>1 DEF SafeInv, OneWorker
<1>3. ChildrenOfJobs'
  BY DEF SafeInv, ChildrenOfJobs, AgentMoves, PhaseMoves
<1>4. JobRows'
  <2> SUFFICES ASSUME NEW v \in Workers, NEW q \in RunIds
               PROVE  /\ job'[v][q].phase \in Working => HoldsRow(v, q)'
                      /\ job'[v][q].phase \in Closing => ~Active(run'[q])
                      /\ HoldsRow(v, q)' => job'[v][q].phase # "idle"
    BY DEF JobRows
  <2>1. CASE v = w /\ q = r
    BY <2>1 DEF PhaseMoves, RowFollows, HoldsRow
  <2>2. CASE v # w /\ q = r
    <3>1. job'[v][q].phase = "idle"
      BY <1>1, <2>2 DEF SafeInv, OneWorker, PhaseMoves
    <3> QED
      BY <2>2, <3>1 DEF RowFollows, HoldsRow, Working, Closing
  <2>3. CASE q # r
    <3>1. job'[v][q].phase = job[v][q].phase
      BY <2>3 DEF PhaseMoves
    <3>2. CASE Steady(run[q], run'[q])
      <4>1. v # Gone
        BY DEF RowsAssumption
      <4> QED
        BY <3>1, <3>2, <4>1 DEF SafeInv, OneWorker, JobRows, HoldsRow, Steady, Active
    <3>3. CASE q > made /\ run'[q].status = "queued"
      <4>1. job[v][q].phase = "idle"
        BY <3>3, IdleBeyond
      <4> QED
        BY <3>1, <3>3, <4>1 DEF Working, Closing, HoldsRow
    <3> QED
      BY <2>3, <3>2, <3>3 DEF QuietRow
  <2> QED
    BY <2>1, <2>2, <2>3
<1>5. Chains'
  <2>1. ASSUME NEW v \in Workers, v # w
        PROVE  ChainGood(chain'[v], job'[v], run')
    <3>1. SameTasks(run, run', job[v])
      BY TasksStay DEF Sound
    <3>2. chain[v] \in Seq(Op) /\ ChainGood(chain[v], job[v], run) /\ chain'[v] = chain[v]
      BY <2>1 DEF IInv, TypeOK, SafeInv, Chains, ChainMoves
    <3>3. \A q \in RunIds : job'[v][q].phase = job[v][q].phase
      BY <2>1 DEF PhaseMoves
    <3> QED
      BY <3>1, <3>2, <3>3, ChainStays
  <2> QED
    BY <2>1 DEF Chains, ChainMoves
<1>6. CleanupHasExecutor'
  <2>1. \A q \in RunIds :
            run'[q].control = "cleanup_running" => run[q].control = "cleanup_running"
    BY DEF QuietRow, RowFollows
  <2>2. \A v \in Workers, q \in RunIds : HasCleanup(chain[v], q) => HasCleanup(chain'[v], q)
    BY DEF ChainMoves
  <2> QED
    BY <2>1, <2>2 DEF SafeInv, CleanupHasExecutor, HasCleanup
<1>7. Releases' /\ ReleaseOfNewest'
  BY FiledSafe DEF Asked, ItemMoves, SafeInv
<1>8. ClosedUnclaimed'
  <2> SUFFICES ASSUME NEW v \in Workers, NEW q \in RunIds, job'[v][q].phase \in Closing
               PROVE  run'[q].control # "cleanup_running"
    BY DEF ClosedUnclaimed
  <2>1. CASE q = r
    BY <2>1 DEF RowFollows
  <2>2. CASE q # r
    BY <2>2 DEF PhaseMoves, QuietRow, SafeInv, ClosedUnclaimed
  <2> QED
    BY <2>1, <2>2
<1> QED
  BY <1>2, <1>3, <1>4, <1>5, <1>6, <1>7, <1>8 DEF SafeInv

LEMMA JobPhases ==
    ASSUME IInv, NEW w \in Workers, NEW r \in RunIds, NEW p \in Phase,
           SetJob(w, r, p) \/ (EndJob(w, r) /\ p = "idle")
    PROVE  PhaseMoves(w, r, p)
<1>1. job \in [Workers -> [RunIds -> [phase : Phase, stop : Control]]]
  BY DEF IInv, TypeOK
<1>2. CASE SetJob(w, r, p)
  BY <1>1, <1>2 DEF SetJob, PhaseMoves
<1>3. CASE EndJob(w, r) /\ p = "idle"
  BY <1>1, <1>3 DEF EndJob, Idle, PhaseMoves
<1> QED
  BY <1>2, <1>3

(* The git work of w while its job for r takes phase p: none ...           *)
LEMMA ChainKept ==
    ASSUME IInv, SafeInv, Sound, NEW w \in Workers, NEW r \in RunIds, NEW p, PhaseMoves(w, r, p),
           chain' = chain,
           \/ p = job[w][r].phase
           \/ /\ job[w][r].phase \notin {"ensure", "revert"}
              /\ p \in Resting \/ job[w][r].phase \notin Resting
    PROVE  ChainMoves(w)
<1>1. /\ chain \in [Workers -> Seq(Op)] /\ chain[w] \in Seq(Op)
      /\ ChainGood(chain[w], job[w], run)
  BY DEF IInv, TypeOK, SafeInv, Chains
<1>2. SameTasks(run, run', job[w])
  BY TasksStay DEF Sound
<1>3. /\ \A q \in RunIds \ {r} : job'[w][q].phase = job[w][q].phase
      /\ job'[w][r].phase = p
  BY DEF PhaseMoves
<1>4. ChainGood(chain[w], job'[w], run')
  BY <1>1, <1>2, <1>3, ChainStays
<1> QED
  BY <1>4 DEF ChainMoves

(* ... some is done ... *)
LEMMA ChainPopped ==
    ASSUME IInv, SafeInv, Sound, NEW w \in Workers, NEW r \in RunIds, NEW p, PhaseMoves(w, r, p),
           NEW op \in {"ensure", "revert"}, Head1(w, op, r), Pop(w)
    PROVE  ChainMoves(w)
<1>1. /\ chain \in [Workers -> Seq(Op)] /\ chain[w] \in Seq(Op)
      /\ ChainGood(chain[w], job[w], run)
  BY DEF IInv, TypeOK, SafeInv, Chains
<1>2. SameTasks(run, run', job[w])
  BY TasksStay DEF Sound
<1>3. /\ \A q \in RunIds \ {r} : job'[w][q].phase = job[w][q].phase
      /\ job'[w][r].phase = p
  BY DEF PhaseMoves
<1>4. chain[w] # <<>> /\ Head(chain[w]) = [op |-> op, run |-> r]
  BY DEF Head1
<1>5. ChainGood(Tail(chain[w]), job'[w], run')
  BY <1>1, <1>2, <1>3, <1>4, ChainPop
<1>6. chain'[w] = Tail(chain[w]) /\ \A v \in Workers \ {w} : chain'[v] = chain[v]
  BY <1>1 DEF Pop
<1>7. ASSUME NEW q \in RunIds, HasCleanup(chain[w], q)
      PROVE  HasCleanup(Tail(chain[w]), q)
  <2> DEFINE s == chain[w]
             u == Tail(chain[w])
  <2>1. /\ 1 \in DOMAIN s /\ s[1] = [op |-> op, run |-> r]
        /\ DOMAIN s = 1..Len(s) /\ DOMAIN u = 1..(Len(s) - 1) /\ Len(s) \in Nat
        /\ \A i \in DOMAIN u : u[i] = s[i + 1]
    BY <1>1, <1>4, TailEntries
  <2>2. PICK i \in DOMAIN s : s[i] = [op |-> "cleanup", run |-> q]
    BY <1>7 DEF HasCleanup
  <2> HIDE DEF s, u
  <2>3. i # 1
    BY <2>1, <2>2
  <2>4. i - 1 \in DOMAIN u /\ u[i - 1] = s[i]
    <3>1. i - 1 \in DOMAIN u /\ (i - 1) + 1 = i
      BY <2>1, <2>2, <2>3
    <3> QED
      BY <2>1, <3>1
  <2>5. HasCleanup(u, q)
    BY <2>2, <2>4 DEF HasCleanup
  <2> QED
    BY <2>5 DEF u
<1> QED
  BY <1>5, <1>6, <1>7 DEF ChainMoves

(* ... or some is queued. *)
LEMMA ChainPushed ==
    ASSUME IInv, SafeInv, Sound, NEW w \in Workers, NEW r \in RunIds, NEW p, PhaseMoves(w, r, p),
           job[w][r].phase \notin {"ensure", "revert"}, p \in {"ensure", "revert"},
           p = "ensure" \/ job[w][r].phase \notin Resting, Push(w, p, r)
    PROVE  ChainMoves(w)
<1>1. /\ chain \in [Workers -> Seq(Op)] /\ chain[w] \in Seq(Op)
      /\ ChainGood(chain[w], job[w], run)
  BY DEF IInv, TypeOK, SafeInv, Chains
<1>2. SameTasks(run, run', job[w])
  BY TasksStay DEF Sound
<1>3. /\ \A q \in RunIds \ {r} : job'[w][q].phase = job[w][q].phase
      /\ job'[w][r].phase = p
  BY DEF PhaseMoves
<1> DEFINE e == [op |-> p, run |-> r]
<1>4. ChainGood(Append(chain[w], e), job'[w], run')
  BY <1>1, <1>2, <1>3, ChainPushJob
<1>5. chain'[w] = Append(chain[w], e) /\ \A v \in Workers \ {w} : chain'[v] = chain[v]
  BY <1>1 DEF Push
<1>6. e \in Op
  BY DEF Op
<1>7. \A q \in RunIds : HasCleanup(chain[w], q) => HasCleanup(Append(chain[w], e), q)
  BY <1>1, <1>6, AppendEntries DEF HasCleanup
<1> QED
  BY <1>4, <1>5, <1>7 DEF ChainMoves

(* A step that writes no row but the job's own.                            *)
LEMMA OwnJob ==
    ASSUME IInv, SafeInv, Sound, JobUnchanged,
           NEW w \in Workers, NEW r \in RunIds, NEW p \in Phase, proc[w] # "down",
           PhaseMoves(w, r, p), AgentMoves(w, r, p), ChainMoves(w),
           NEW rec, Filed(run, r, rec), RowFollows(w, r, p, rec),
           run' = [run EXCEPT ![r] = rec] \/ (run' = run /\ rec = run[r])
    PROVE  SafeInv'
<1>1. run \in [RunIds -> Run] /\ \A q \in RunIds : RowFine(run[q])
  BY DEF IInv, TypeOK, SafeInv, Releases
<1>2. run'[r] = rec /\ \A q \in RunIds \ {r} : run'[q] = run[q]
  BY <1>1
<1>3. \A q \in RunIds : Calm(run[q], run[q]) /\ Filed(run, q, run[q])
  BY <1>1, CalmRows, CalmFiled
<1>4. \A q \in RunIds \ {r} : QuietRow(q)
  BY <1>2, <1>3 DEF QuietRow, Calm
<1>5. made' = made /\ UNCHANGED <<proc, lease, silent, orphans, rel, web>>
  BY DEF JobUnchanged
<1>6. FiledGrowth(run, made, run', made')
  BY <1>2, <1>3, <1>5 DEF FiledGrowth
<1>7. RowFollows(w, r, p, run'[r])
  BY <1>2
<1> QED
  BY <1>4, <1>5, <1>6, <1>7, JobSafe

(* A row that is active is rewritten, by whatever process: its release     *)
(* does not begin.                                                         *)
LEMMA ActiveFiled ==
    ASSUME NEW r \in RunIds, NEW new, Active(run[r]), RowFine(run[r]),
           KeptRow(run[r], new), RowFine(new), ~Begun(new)
    PROVE  Filed(run, r, new)
BY DEF Filed, Active, RowFine, ReleaseCandidate, Final

(* The row of a job that still works, and what the job may make of it.     *)
LEMMA WorkingRow ==
    ASSUME IInv, SafeInv, NEW w \in Workers, NEW r \in RunIds, job[w][r].phase \in Working
    PROVE  /\ run[r] \in Run /\ run[r].status = "running" /\ run[r].worker = w
           /\ run[r].release = "pending" /\ run[r].control # "cleanup_running"
           /\ RowFine(run[r]) /\ Filed(run, r, run[r])
           /\ \A new : KeptRow(run[r], new) /\ RowFine(new) /\ ~Begun(new) => Filed(run, r, new)
<1>1. run[r] \in Run /\ RowFine(run[r]) /\ HoldsRow(w, r)
  BY DEF IInv, TypeOK, SafeInv, Releases, JobRows
<1>2. run[r].status = "running" /\ run[r].worker = w
  BY <1>1 DEF HoldsRow
<1>3. run[r].release = "pending" /\ run[r].control # "cleanup_running"
  BY <1>1, <1>2 DEF RowFine
<1>5. ASSUME NEW new, KeptRow(run[r], new), RowFine(new), ~Begun(new)
      PROVE  Filed(run, r, new)
  BY <1>2, <1>3, <1>5 DEF Filed, ReleaseCandidate, Final
<1>6. Filed(run, r, run[r])
  BY <1>1, <1>3, <1>5, TouchedRows DEF Begun
<1> QED
  BY <1>1, <1>2, <1>3, <1>5, <1>6

(* A job that works keeps its row as it is ... *)
LEMMA RowKept ==
    ASSUME IInv, SafeInv, NEW w \in Workers, NEW r \in RunIds, job[w][r].phase \in Working,
           NEW p \in Working
    PROVE  Filed(run, r, run[r]) /\ RowFollows(w, r, p, run[r])
<1>1. p # "idle" /\ p \notin Closing
  BY DEF Working, Closing
<1> QED
  BY <1>1, WorkingRow DEF RowFollows

(* ... or leaves it failed, stopped or queued again, when it ends or has   *)
(* nothing left to do but to restore the task.                             *)
LEMMA RowLeft ==
    ASSUME IInv, SafeInv, NEW w \in Workers, NEW r \in RunIds, job[w][r].phase \in Working
    PROVE  /\ Filed(run, r, FailRow(run[r])) /\ RowFollows(w, r, "idle", FailRow(run[r]))
           /\ Filed(run, r, StoppedRow(run[r])) /\ RowFollows(w, r, "idle", StoppedRow(run[r]))
           /\ RowFollows(w, r, "restore", StoppedRow(run[r]))
           /\ Filed(run, r, RequeueRow(run[r], w)) /\ RowFollows(w, r, "idle", RequeueRow(run[r], w))
<1>1. /\ run[r] \in Run /\ run[r].status = "running" /\ run[r].worker = w
      /\ run[r].release = "pending" /\ run[r].control # "cleanup_running" /\ RowFine(run[r])
  BY WorkingRow
<1>2. "idle" \notin Working /\ "idle" \notin Closing /\ "restore" \notin Working
  BY DEF Working, Closing
<1>3. Filed(run, r, FailRow(run[r])) /\ RowFollows(w, r, "idle", FailRow(run[r]))
  <2>1. KeptRow(run[r], FailRow(run[r]))
    BY <1>1, ClosedRows
  <2>2. /\ FailRow(run[r]).status = "failed" /\ FailRow(run[r]).release = "blocked"
        /\ FailRow(run[r]).control = run[r].control
    BY <1>1 DEF FailRow, Finish, Run
  <2>3. RowFine(FailRow(run[r])) /\ ~Begun(FailRow(run[r]))
    BY <1>1, <2>2 DEF RowFine, Begun
  <2> QED
    BY <1>1, <1>2, <2>1, <2>2, <2>3, WorkingRow DEF RowFollows
<1>4. /\ Filed(run, r, StoppedRow(run[r])) /\ RowFollows(w, r, "idle", StoppedRow(run[r]))
      /\ RowFollows(w, r, "restore", StoppedRow(run[r]))
  <2>1. KeptRow(run[r], StoppedRow(run[r]))
    BY <1>1, ClosedRows
  <2>2. /\ StoppedRow(run[r]).status = "blocked" /\ StoppedRow(run[r]).release = "blocked"
        /\ StoppedRow(run[r]).control = ""
    BY <1>1 DEF StoppedRow, Finish, Run
  <2>3. RowFine(StoppedRow(run[r])) /\ ~Begun(StoppedRow(run[r]))
    BY <2>2 DEF RowFine, Begun
  <2> QED
    BY <1>2, <2>1, <2>2, <2>3, WorkingRow DEF RowFollows, Active
<1>5. Filed(run, r, RequeueRow(run[r], w)) /\ RowFollows(w, r, "idle", RequeueRow(run[r], w))
  <2>1. KeptRow(run[r], RequeueRow(run[r], w))
    BY <1>1, RecoveredRows
  <2>2. /\ RequeueRow(run[r], w).status = "queued" /\ RequeueRow(run[r], w).release = "pending"
        /\ RequeueRow(run[r], w).control = ""
    BY <1>1 DEF RequeueRow, QueuedAgain, Run
  <2>3. RowFine(RequeueRow(run[r], w)) /\ ~Begun(RequeueRow(run[r], w))
    BY <2>2 DEF RowFine, Begun
  <2> QED
    BY <1>2, <2>1, <2>2, <2>3, WorkingRow DEF RowFollows
<1> QED
  BY <1>3, <1>4, <1>5

(* A job that has no Codex process before and after the step. *)
LEMMA NoAgent ==
    ASSUME SafeInv, NEW w \in Workers, NEW r \in RunIds, NEW p, agents' = agents,
           (p \in {"agent", "late"}) <=> (job[w][r].phase \in {"agent", "late"})
    PROVE  AgentMoves(w, r, p)
BY DEF SafeInv, ChildrenOfJobs, AgentMoves

LEMMA JobLives ==
    ASSUME SafeInv, NEW w \in Workers, NEW r \in RunIds, job[w][r].phase # "idle"
    PROVE  proc[w] # "down"
BY DEF SafeInv, OneWorker

LEMMA ClaimSafe ==
    ASSUME IInv, SafeInv, Sound, NEW w \in Workers, NEW r \in RunIds, Claim(w, r)
    PROVE  SafeInv'
<1> DEFINE rec == [run[r] EXCEPT !.status = "running", !.worker = w]
<1>1. /\ run[r] \in Run /\ run[r].status = "queued" /\ RowFine(run[r])
      /\ run' = [run EXCEPT ![r] = rec]
      /\ JobUnchanged /\ agents' = agents /\ chain' = chain /\ SetJob(w, r, "claimed")
      /\ job[w][r].phase = "idle" /\ proc[w] # "down"
  BY DEF Claim, Claimable, IInv, TypeOK, SafeInv, Releases
<1>2. /\ KeptRow(run[r], rec)
      /\ rec.status = "running" /\ rec.worker = w
      /\ rec.release = run[r].release /\ rec.control = run[r].control
  BY <1>1, RecoveredRows DEF Run
<1> HIDE DEF rec
<1>3. Active(run[r]) /\ run[r].release = "pending"
  BY <1>1 DEF Active, RowFine
<1>4. RowFine(rec) /\ ~Begun(rec)
  BY <1>1, <1>2, <1>3 DEF RowFine, Begun
<1>5. Filed(run, r, rec)
  BY <1>1, <1>2, <1>3, <1>4, ActiveFiled
<1>6. RowFollows(w, r, "claimed", rec)
  BY <1>1, <1>2 DEF RowFollows, Closing, RowFine
<1>7. "claimed" \in Phase /\ "claimed" \in Resting
  BY DEF Phase, Resting
<1>8. PhaseMoves(w, r, "claimed") /\ AgentMoves(w, r, "claimed")
  BY <1>1, <1>7, JobPhases, NoAgent
<1>9. ChainMoves(w)
  BY <1>1, <1>7, <1>8, ChainKept
<1> QED
  BY <1>1, <1>5, <1>6, <1>7, <1>8, <1>9, OwnJob

LEMMA BeginSafe ==
    ASSUME IInv, SafeInv, Sound, NEW w \in Workers, NEW r \in RunIds, Begin(w, r)
    PROVE  SafeInv'
<1>1. /\ job[w][r].phase = "claimed" /\ JobUnchanged /\ agents' = agents
      /\ "claimed" \in Working /\ "claimed" \in Resting /\ proc[w] # "down"
  BY JobLives DEF Begin, Working, Resting
<1>2. CASE task[run[r].task].ai
  <2>1. Push(w, "ensure", r) /\ SetJob(w, r, "ensure") /\ run' = run
    BY <1>2 DEF Begin
  <2>2. "ensure" \in Phase /\ "ensure" \in Working
    BY DEF Phase, Working
  <2>3. PhaseMoves(w, r, "ensure") /\ AgentMoves(w, r, "ensure")
    BY <1>1, <2>1, <2>2, JobPhases, NoAgent
  <2>4. ChainMoves(w)
    BY <1>1, <2>1, <2>3, ChainPushed
  <2>5. Filed(run, r, run[r]) /\ RowFollows(w, r, "ensure", run[r])
    BY <1>1, <2>2, RowKept
  <2> QED
    BY <1>1, <2>1, <2>2, <2>3, <2>4, <2>5, OwnJob
<1>3. CASE ~task[run[r].task].ai
  <2>1. run' = [run EXCEPT ![r] = StoppedRow(run[r])] /\ EndJob(w, r) /\ chain' = chain
    BY <1>3 DEF Begin
  <2>2. "idle" \in Phase /\ "idle" \in Resting
    BY DEF Phase, Resting
  <2>3. PhaseMoves(w, r, "idle") /\ AgentMoves(w, r, "idle")
    BY <1>1, <2>1, <2>2, JobPhases, NoAgent
  <2>4. ChainMoves(w)
    BY <1>1, <2>1, <2>2, <2>3, ChainKept
  <2>5. Filed(run, r, StoppedRow(run[r])) /\ RowFollows(w, r, "idle", StoppedRow(run[r]))
    BY <1>1, RowLeft
  <2> QED
    BY <1>1, <2>1, <2>2, <2>3, <2>4, <2>5, OwnJob
<1> QED
  BY <1>2, <1>3

LEMMA EnsuredSafe ==
    ASSUME IInv, SafeInv, Sound, NEW w \in Workers, NEW r \in RunIds, Ensured(w, r)
    PROVE  SafeInv'
<1>1. /\ job[w][r].phase = "ensure" /\ JobUnchanged /\ agents' = agents
      /\ Head1(w, "ensure", r) /\ Pop(w)
      /\ "ensure" \in Working /\ proc[w] # "down"
  BY JobLives DEF Ensured, Working
<1>2. "ready" \in Phase /\ "ready" \in Working /\ "idle" \in Phase
  BY DEF Phase, Working
<1>3. CASE Stopping(w)
  <2>1. run' = [run EXCEPT ![r] = RequeueRow(run[r], w)] /\ EndJob(w, r)
    BY <1>3 DEF Ensured, Requeue
  <2>2. PhaseMoves(w, r, "idle") /\ AgentMoves(w, r, "idle")
    BY <1>1, <1>2, <2>1, JobPhases, NoAgent
  <2>3. ChainMoves(w)
    BY <1>1, <2>2, ChainPopped
  <2>4. Filed(run, r, RequeueRow(run[r], w)) /\ RowFollows(w, r, "idle", RequeueRow(run[r], w))
    BY <1>1, RowLeft
  <2> QED
    BY <1>1, <1>2, <2>1, <2>2, <2>3, <2>4, OwnJob
<1>4. CASE ~Stopping(w)
  <2>1. run' = run /\ SetJob(w, r, "ready")
    BY <1>4 DEF Ensured
  <2>2. PhaseMoves(w, r, "ready") /\ AgentMoves(w, r, "ready")
    BY <1>1, <1>2, <2>1, JobPhases, NoAgent
  <2>3. ChainMoves(w)
    BY <1>1, <2>2, ChainPopped
  <2>4. Filed(run, r, run[r]) /\ RowFollows(w, r, "ready", run[r])
    BY <1>1, <1>2, RowKept
  <2> QED
    BY <1>1, <1>2, <2>1, <2>2, <2>3, <2>4, OwnJob
<1> QED
  BY <1>3, <1>4

(* Codex starts, ends, or has left a result.                               *)
LEMMA MoveOnSafe ==
    ASSUME IInv, SafeInv, Sound, NEW w \in Workers, NEW r \in RunIds,
           Spawn(w, r) \/ AgentExit(w, r) \/ Inspect(w, r)
    PROVE  SafeInv'
<1>1. /\ job[w][r].phase \in {"ready", "agent", "late", "exited"}
      /\ JobUnchanged /\ run' = run /\ chain' = chain
  BY DEF Spawn, AgentExit, Inspect
<1>2. PICK p \in {"late", "agent", "exited", "verify"} :
        /\ SetJob(w, r, p)
        /\ \/ p \in {"agent", "late"} /\ agents' = agents \cup {<<w, r>>}
           \/ p = "exited" /\ agents' = agents \ {<<w, r>>}
           \/ p = "verify" /\ agents' = agents /\ job[w][r].phase = "exited"
  BY DEF Spawn, AgentExit, Inspect
<1>3. p \in Phase /\ p \in Working /\ proc[w] # "down" /\ job[w][r].phase \in Working
  BY <1>1, JobLives DEF Phase, Working
<1>4. PhaseMoves(w, r, p)
  BY <1>2, <1>3, JobPhases
<1>5. AgentMoves(w, r, p)
  <2>1. <<w, r>> \in agents <=> job[w][r].phase \in {"agent", "late"}
    BY DEF SafeInv, ChildrenOfJobs
  <2>2. ASSUME p = "verify", agents' = agents, job[w][r].phase = "exited"
        PROVE  AgentMoves(w, r, p)
    BY <2>1, <2>2 DEF AgentMoves
  <2>3. ASSUME p = "exited", agents' = agents \ {<<w, r>>}
        PROVE  AgentMoves(w, r, p)
    BY <2>3 DEF AgentMoves
  <2>4. ASSUME p \in {"agent", "late"}, agents' = agents \cup {<<w, r>>}
        PROVE  AgentMoves(w, r, p)
    BY <2>4 DEF AgentMoves
  <2> QED
    BY <1>2, <2>2, <2>3, <2>4
<1>6. job[w][r].phase \notin {"ensure", "revert"} /\ job[w][r].phase \notin Resting
  BY <1>1 DEF Resting
<1>7. ChainMoves(w)
  BY <1>1, <1>4, <1>6, ChainKept
<1>8. Filed(run, r, run[r]) /\ RowFollows(w, r, p, run[r])
  BY <1>3, RowKept
<1> QED
  BY <1>1, <1>3, <1>4, <1>5, <1>7, <1>8, OwnJob

LEMMA PollSafe ==
    ASSUME IInv, SafeInv, Sound, NEW w \in Workers, NEW r \in RunIds, Poll(w, r)
    PROVE  SafeInv'
<1>1. /\ job[w][r].phase \in {"agent", "late"}
      /\ JobUnchanged /\ run' = run /\ chain' = chain /\ agents' = agents
      /\ job' = [job EXCEPT ![w][r].stop = run[r].control]
  BY DEF Poll
<1>2. job[w][r].phase \in Phase /\ job[w][r].phase \in Working /\ proc[w] # "down"
  BY <1>1, JobLives DEF Phase, Working
<1>3. PhaseMoves(w, r, job[w][r].phase)
  BY <1>1 DEF PhaseMoves, IInv, TypeOK
<1>4. AgentMoves(w, r, job[w][r].phase)
  BY <1>1, NoAgent
<1>5. ChainMoves(w)
  BY <1>1, <1>3, ChainKept
<1>6. Filed(run, r, run[r]) /\ RowFollows(w, r, job[w][r].phase, run[r])
  BY <1>2, RowKept
<1> QED
  BY <1>1, <1>2, <1>3, <1>4, <1>5, <1>6, OwnJob

LEMMA GiveBackSafe ==
    ASSUME IInv, SafeInv, Sound, NEW w \in Workers, NEW r \in RunIds, GiveBack(w, r)
    PROVE  SafeInv'
<1>1. /\ job[w][r].phase = "exited" /\ JobUnchanged /\ agents' = agents /\ chain' = chain
      /\ run' = [run EXCEPT ![r] = RequeueRow(run[r], w)] /\ EndJob(w, r)
  BY DEF GiveBack, Requeue
<1>2. "exited" \in Working /\ "idle" \in Phase /\ "idle" \in Resting /\ proc[w] # "down"
  BY <1>1, JobLives DEF Working, Phase, Resting
<1>3. PhaseMoves(w, r, "idle") /\ AgentMoves(w, r, "idle")
  BY <1>1, <1>2, JobPhases, NoAgent
<1>4. ChainMoves(w)
  BY <1>1, <1>2, <1>3, ChainKept
<1>5. Filed(run, r, RequeueRow(run[r], w)) /\ RowFollows(w, r, "idle", RequeueRow(run[r], w))
  BY <1>1, <1>2, RowLeft
<1> QED
  BY <1>1, <1>2, <1>3, <1>4, <1>5, OwnJob

LEMMA HonourStopSafe ==
    ASSUME IInv, SafeInv, Sound, NEW w \in Workers, NEW r \in RunIds, HonourStop(w, r)
    PROVE  SafeInv'
<1>1. /\ job[w][r].phase = "exited" /\ JobUnchanged /\ agents' = agents
      /\ "exited" \in Working /\ "exited" \notin Resting /\ proc[w] # "down"
  BY JobLives DEF HonourStop, Working, Resting
<1>2. CASE /\ run' = [run EXCEPT ![r] = StoppedRow(run[r])] /\ SetJob(w, r, "restore")
           /\ chain' = chain
  <2>1. "restore" \in Phase /\ "restore" \in Resting
    BY DEF Phase, Resting
  <2>2. PhaseMoves(w, r, "restore") /\ AgentMoves(w, r, "restore")
    BY <1>1, <1>2, <2>1, JobPhases, NoAgent
  <2>3. ChainMoves(w)
    BY <1>1, <1>2, <2>1, <2>2, ChainKept
  <2>4. Filed(run, r, StoppedRow(run[r])) /\ RowFollows(w, r, "restore", StoppedRow(run[r]))
    BY <1>1, RowLeft
  <2> QED
    BY <1>1, <1>2, <2>1, <2>2, <2>3, <2>4, OwnJob
<1>3. CASE Push(w, "revert", r) /\ SetJob(w, r, "revert") /\ run' = run
  <2>1. "revert" \in Phase /\ "revert" \in Working
    BY DEF Phase, Working
  <2>2. PhaseMoves(w, r, "revert") /\ AgentMoves(w, r, "revert")
    BY <1>1, <1>3, <2>1, JobPhases, NoAgent
  <2>3. ChainMoves(w)
    BY <1>1, <1>3, <2>2, ChainPushed
  <2>4. Filed(run, r, run[r]) /\ RowFollows(w, r, "revert", run[r])
    BY <1>1, <2>1, RowKept
  <2> QED
    BY <1>1, <1>3, <2>1, <2>2, <2>3, <2>4, OwnJob
<1> QED
  BY <1>2, <1>3 DEF HonourStop

LEMMA RevertedSafe ==
    ASSUME IInv, SafeInv, Sound, NEW w \in Workers, NEW r \in RunIds, Reverted(w, r)
    PROVE  SafeInv'
<1>1. /\ job[w][r].phase = "revert" /\ JobUnchanged /\ agents' = agents
      /\ Head1(w, "revert", r) /\ Pop(w)
      /\ run' = [run EXCEPT ![r] = StoppedRow(run[r])] /\ SetJob(w, r, "restore")
  BY DEF Reverted
<1>2. "revert" \in Working /\ "restore" \in Phase /\ proc[w] # "down"
  BY <1>1, JobLives DEF Working, Phase
<1>3. PhaseMoves(w, r, "restore") /\ AgentMoves(w, r, "restore")
  BY <1>1, <1>2, JobPhases, NoAgent
<1>4. ChainMoves(w)
  BY <1>1, <1>3, ChainPopped
<1>5. Filed(run, r, StoppedRow(run[r])) /\ RowFollows(w, r, "restore", StoppedRow(run[r]))
  BY <1>1, <1>2, RowLeft
<1> QED
  BY <1>1, <1>2, <1>3, <1>4, <1>5, OwnJob

LEMMA FailSafe ==
    ASSUME IInv, SafeInv, Sound, NEW w \in Workers, NEW r \in RunIds, Fail(w, r)
    PROVE  SafeInv'
<1>1. /\ job[w][r].phase \in {"exited", "ready", "verify", "ensure", "revert"}
      /\ JobUnchanged /\ agents' = agents /\ EndJob(w, r)
  BY DEF Fail
<1>2. job[w][r].phase \in Working /\ "idle" \in Phase /\ "idle" \in Resting /\ proc[w] # "down"
  BY <1>1, JobLives DEF Working, Phase, Resting
<1>3. PhaseMoves(w, r, "idle") /\ AgentMoves(w, r, "idle")
  BY <1>1, <1>2, JobPhases, NoAgent
<1>4. ChainMoves(w)
  <2>1. CASE job[w][r].phase \in {"ensure", "revert"}
    <3>1. Head1(w, job[w][r].phase, r) /\ Pop(w)
      BY <2>1 DEF Fail
    <3> QED
      BY <1>3, <2>1, <3>1, ChainPopped
  <2>2. CASE job[w][r].phase \notin {"ensure", "revert"}
    <3>1. chain' = chain
      BY <2>2 DEF Fail
    <3> QED
      BY <1>2, <1>3, <2>2, <3>1, ChainKept
  <2> QED
    BY <2>1, <2>2
<1>5. \/ run' = [run EXCEPT ![r] = RequeueRow(run[r], w)]
      \/ run' = [run EXCEPT ![r] = FailRow(run[r])]
  BY DEF Fail, Requeue
<1>6. /\ Filed(run, r, FailRow(run[r])) /\ RowFollows(w, r, "idle", FailRow(run[r]))
      /\ Filed(run, r, RequeueRow(run[r], w)) /\ RowFollows(w, r, "idle", RequeueRow(run[r], w))
  BY <1>2, RowLeft
<1> QED
  BY <1>1, <1>2, <1>3, <1>4, <1>5, <1>6, OwnJob

LEMMA StoreVerdictSafe ==
    ASSUME IInv, SafeInv, Sound, NEW w \in Workers, NEW r \in RunIds, NEW v \in Verdicts,
           StoreVerdict(w, r, v)
    PROVE  SafeInv'
<1> DEFINE rec == [Finish(run[r], RunStatusOf(v)) EXCEPT !.verdict = v]
<1>1. /\ job[w][r].phase = "verify" /\ JobUnchanged /\ agents' = agents /\ chain' = chain
      /\ run' = [run EXCEPT ![r] = rec] /\ SetJob(w, r, "stored")
  BY DEF StoreVerdict
<1>2. "verify" \in Working /\ "stored" \in Phase /\ "stored" \in Resting /\ "stored" \notin Working
      /\ "verify" \notin Resting /\ proc[w] # "down"
  BY <1>1, JobLives DEF Working, Phase, Resting
<1>3. /\ run[r] \in Run /\ run[r].status = "running" /\ run[r].release = "pending"
      /\ run[r].control # "cleanup_running"
  BY <1>1, <1>2, WorkingRow
<1>4. v \in {"completed", "sandbox", "review", "blocked"} /\ v \in Verdict
  BY DEF Verdict
<1>5. /\ RunStatusOf(v) \in {"completed", "needs_review", "blocked"}
      /\ RunStatusOf(v) = "completed" => v = "completed"
  BY <1>4 DEF RunStatusOf
<1>6. KeptRow(run[r], rec)
  BY <1>3, <1>4, <1>5, ClosedRows
<1>7. /\ rec.status = RunStatusOf(v) /\ rec.verdict = v /\ rec.release = "pending"
      /\ rec.control = run[r].control
  BY <1>3 DEF Finish, Run
<1> HIDE DEF rec
<1>8. RowFine(rec) /\ ~Begun(rec)
  BY <1>3, <1>5, <1>7 DEF RowFine, Begun
<1>9. Filed(run, r, rec)
  BY <1>1, <1>2, <1>6, <1>8, WorkingRow
<1>10. RowFollows(w, r, "stored", rec)
  BY <1>2, <1>3, <1>5, <1>7 DEF RowFollows, Active
<1>11. PhaseMoves(w, r, "stored") /\ AgentMoves(w, r, "stored")
  BY <1>1, <1>2, JobPhases, NoAgent
<1>12. ChainMoves(w)
  BY <1>1, <1>2, <1>11, ChainKept
<1> QED
  BY <1>1, <1>2, <1>9, <1>10, <1>11, <1>12, OwnJob

(* The row of a job that has closed it.                                    *)
LEMMA ClosingRow ==
    ASSUME IInv, SafeInv, NEW w \in Workers, NEW r \in RunIds, job[w][r].phase \in Closing
    PROVE  /\ run[r] \in Run /\ RowFine(run[r])
           /\ run[r].status \notin {"absent", "queued", "running"}
           /\ run[r].control # "cleanup_running"
           /\ Filed(run, r, run[r])
           /\ proc[w] # "down" /\ job[w][r].phase \in Resting
           /\ job[w][r].phase \notin {"ensure", "revert", "agent", "late", "idle"}
<1>1. /\ run[r] \in Run /\ RowFine(run[r]) /\ ~Active(run[r]) /\ run \in [RunIds -> Run]
      /\ job[w][r].phase # "idle" /\ run[r].control # "cleanup_running"
  BY DEF IInv, TypeOK, SafeInv, Releases, JobRows, ClosedUnclaimed, Closing
<1>2. run[r].status # "absent"
  BY <1>1, JobRow
<1>3. Filed(run, r, run[r])
  BY <1>1, CalmRows, CalmFiled
<1> QED
  BY <1>1, <1>2, <1>3, JobLives DEF Active, Closing, Resting

LEMMA RestoreSafe ==
    ASSUME IInv, SafeInv, Sound, NEW w \in Workers, NEW r \in RunIds, Restore(w, r)
    PROVE  SafeInv'
<1>1. /\ job[w][r].phase \in Closing /\ JobUnchanged /\ agents' = agents /\ chain' = chain
      /\ run' = run /\ EndJob(w, r)
  BY DEF Restore, Closing
<1>2. "idle" \in Phase /\ "idle" \in Resting /\ "idle" \notin Working
  BY DEF Working, Phase, Resting
<1>3. PhaseMoves(w, r, "idle") /\ AgentMoves(w, r, "idle")
  BY <1>1, <1>2, ClosingRow, JobPhases, NoAgent
<1>4. ChainMoves(w)
  BY <1>1, <1>2, <1>3, ClosingRow, ChainKept
<1>5. RowFollows(w, r, "idle", run[r])
  BY <1>1, <1>2, ClosingRow DEF RowFollows, Closing
<1> QED
  BY <1>1, <1>2, <1>3, <1>4, <1>5, ClosingRow, OwnJob

LEMMA SealReleaseSafe ==
    ASSUME IInv, SafeInv, Sound, NEW w \in Workers, NEW r \in RunIds, SealRelease(w, r)
    PROVE  SafeInv'
<1> DEFINE rec == [run[r] EXCEPT !.release = "blocked"]
<1>1. /\ job[w][r].phase \in Closing /\ JobUnchanged /\ agents' = agents /\ chain' = chain
      /\ SetJob(w, r, "settle")
      /\ run' = run \/ run' = [run EXCEPT ![r] = rec]
  BY DEF SealRelease, Closing
<1>2. "settle" \in Phase /\ "settle" \in Resting /\ "settle" \notin Working
  BY DEF Working, Phase, Resting
<1>3. PhaseMoves(w, r, "settle") /\ AgentMoves(w, r, "settle")
  BY <1>1, <1>2, ClosingRow, JobPhases, NoAgent
<1>4. ChainMoves(w)
  BY <1>1, <1>2, <1>3, ClosingRow, ChainKept
<1>5. /\ run[r] \in Run /\ RowFine(run[r])
      /\ run[r].status \notin {"absent", "queued", "running"}
      /\ run[r].control # "cleanup_running"
  BY <1>1, ClosingRow
<1>6. /\ KeptRow(run[r], rec) /\ rec.status = run[r].status /\ rec.verdict = run[r].verdict
      /\ rec.control = run[r].control /\ rec.release = "blocked"
  BY <1>5, TouchedRows DEF Run, ReleaseStatus
<1> HIDE DEF rec
<1>7. RowFine(rec) /\ rec.release \in Final
  BY <1>5, <1>6 DEF RowFine, Begun, Final
<1>8. Filed(run, r, rec)
  BY <1>6, <1>7 DEF Filed, ReleaseCandidate
<1>9. RowFollows(w, r, "settle", run[r]) /\ RowFollows(w, r, "settle", rec)
  BY <1>2, <1>5, <1>6 DEF RowFollows, Active
<1> QED
  BY <1>1, <1>2, <1>3, <1>4, <1>8, <1>9, ClosingRow, OwnJob

(* A job that ends with its row closed: other rows are left alone or a row *)
(* is inserted.                                                            *)
LEMMA ClosingEnds ==
    ASSUME IInv, SafeInv, Sound, NEW w \in Workers, NEW r \in RunIds,
           job[w][r].phase \in Closing, EndJob(w, r),
           UNCHANGED <<proc, lease, silent, chain, agents, orphans, rel, web>>,
           RowFollows(w, r, "idle", run'[r]),
           \A q \in RunIds \ {r} : QuietRow(q),
           FiledGrowth(run, made, run', made')
    PROVE  SafeInv'
<1>1. "idle" \in Phase /\ "idle" \in Resting
  BY DEF Phase, Resting
<1>2. PhaseMoves(w, r, "idle") /\ AgentMoves(w, r, "idle")
  BY <1>1, ClosingRow, JobPhases, NoAgent
<1>3. ChainMoves(w)
  BY <1>1, <1>2, ClosingRow, ChainKept
<1> QED
  BY <1>1, <1>2, <1>3, ClosingRow, JobSafe

(* The end of a job: nothing, a continuation, which is inserted only when  *)
(* nothing of the task is on its way to DEV and no run of it is active, or *)
(* the failure of a row whose release is given up already.                 *)
LEMMA SettleSafe ==
    ASSUME IInv, SafeInv, Sound, NEW w \in Workers, NEW r \in RunIds, Settle(w, r)
    PROVE  SafeInv'
<1>1. /\ job[w][r].phase \in Closing /\ EndJob(w, r)
      /\ UNCHANGED <<proc, lease, silent, chain, agents, orphans, rel, web>>
  BY DEF Settle, Closing
<1>2. "idle" \notin Working /\ "idle" \notin Closing
  BY DEF Working, Closing
<1>3. run \in [RunIds -> Run] /\ task \in [Tasks -> Task] /\ FineTable(run) /\ RowsOK(run, made)
  BY DEF IInv, TypeOK, SafeInv, Releases, FineTable
<1>4. CASE CalmGrowth(run, made, run', made')
  <2>1. \A q \in RunIds :
            Calm(run[q], run'[q]) \/ (q = made' /\ made' = made + 1 /\ Fresh(run, run', made'))
    BY <1>4 DEF CalmGrowth, CalmTable
  <2>2. made \in Nat /\ r <= made
    BY <1>1, ClosingRow DEF IInv, JobsMade, TypeOK
  <2>3. Calm(run[r], run'[r])
    BY <2>1, <2>2 DEF RunIds
  <2>4. RowFollows(w, r, "idle", run'[r])
    <3>1. run'[r].status # "running"
      BY <1>1, <2>3, ClosingRow DEF Calm, Steady
    <3> QED
      BY <1>1, <1>2, <2>3, <3>1, ClosingRow DEF RowFollows, Calm
  <2>5. ASSUME NEW q \in RunIds
        PROVE  QuietRow(q)
    <3>1. CASE Calm(run[q], run'[q])
      BY <3>1 DEF Calm, QuietRow
    <3>2. CASE q = made' /\ made' = made + 1 /\ Fresh(run, run', made')
      <4>1. q > made
        BY <2>2, <3>2
      <4>2. run'[q].status = "queued" /\ run'[q].control = ""
        BY <3>2 DEF Fresh
      <4> QED
        BY <4>1, <4>2 DEF QuietRow
    <3> QED
      BY <2>1, <3>1, <3>2
  <2>6. FiledGrowth(run, made, run', made')
    BY <1>3, <1>4, CalmGrowthFiled
  <2> QED
    BY <1>1, <2>4, <2>5, <2>6, ClosingEnds
<1>5. CASE UNCHANGED <<run, made>>
  <2>1. CalmTable(run, run)
    BY <1>3, CalmRows DEF CalmTable
  <2> QED
    BY <1>4, <1>5, <2>1 DEF CalmGrowth
<1>6. CASE Enqueue(task, run, run[r].task, TRUE)
  <2>1. run[r].task \in Tasks
    BY <1>1, JobRow, ClosingRow
  <2> QED
    BY <1>3, <1>4, <1>6, <2>1, EnqueueCalm
<1>7. CASE /\ run[r].verdict \in {"review", "blocked"}
           /\ run' = [run EXCEPT ![r] = FailRow(@)] /\ made' = made
  <2> DEFINE rec == FailRow(run[r])
  <2>1. /\ run[r] \in Run /\ RowFine(run[r])
        /\ run[r].status \notin {"absent", "queued", "running"}
        /\ run[r].control # "cleanup_running"
    BY <1>1, ClosingRow
  <2>2. /\ KeptRow(run[r], rec) /\ rec.status = "failed" /\ rec.release = "blocked"
        /\ rec.control = run[r].control
    BY <2>1, ClosedRows DEF FailRow, Finish, Run
  <2>3. run' = [run EXCEPT ![r] = rec]
    BY <1>7
  <2> HIDE DEF rec
  <2>4. run'[r] = rec /\ \A q \in RunIds \ {r} : run'[q] = run[q]
    BY <1>3, <2>3
  <2>5. ~ReleaseCandidate(run[r])
    BY <1>7, <2>1 DEF RowFine, ReleaseCandidate
  <2>6. RowFine(rec)
    BY <2>1, <2>2 DEF RowFine, Begun
  <2>7. Filed(run, r, rec)
    BY <2>2, <2>5, <2>6 DEF Filed, Final
  <2>8. RowFollows(w, r, "idle", rec)
    BY <1>2, <2>1, <2>2 DEF RowFollows
  <2>9. \A q \in RunIds : Calm(run[q], run[q]) /\ Filed(run, q, run[q])
    BY <1>3, CalmRows, CalmFiled DEF FineTable
  <2>10. \A q \in RunIds \ {r} : QuietRow(q)
    BY <2>4, <2>9 DEF QuietRow, Calm
  <2>11. FiledGrowth(run, made, run', made')
    BY <1>7, <2>4, <2>7, <2>9 DEF FiledGrowth
  <2> QED
    BY <1>1, <2>4, <2>8, <2>10, <2>11, ClosingEnds
<1> QED
  BY <1>5, <1>6, <1>7 DEF Settle

LEMMA JobStepSafe ==
    ASSUME IInv, SafeInv, Sound, NEW w \in Workers, NEW r \in RunIds, JobStep(w, r)
    PROVE  SafeInv'
<1>1. CASE Begin(w, r)
  BY <1>1, BeginSafe
<1>2. CASE Restore(w, r)
  BY <1>2, RestoreSafe
<1>3. CASE SealRelease(w, r)
  BY <1>3, SealReleaseSafe
<1>4. CASE Settle(w, r)
  BY <1>4, SettleSafe
<1>5. CASE Spawn(w, r) \/ AgentExit(w, r) \/ Inspect(w, r)
  BY <1>5, MoveOnSafe
<1>6. CASE Poll(w, r)
  BY <1>6, PollSafe
<1>7. CASE GiveBack(w, r)
  BY <1>7, GiveBackSafe
<1>8. CASE Ensured(w, r)
  BY <1>8, EnsuredSafe
<1>9. CASE HonourStop(w, r)
  BY <1>9, HonourStopSafe
<1>10. CASE Reverted(w, r)
  BY <1>10, RevertedSafe
<1>11. CASE Fail(w, r)
  BY <1>11, FailSafe
<1>12. ASSUME NEW v \in Verdicts, StoreVerdict(w, r, v)
       PROVE  SafeInv'
  BY <1>12, StoreVerdictSafe
<1> QED
  BY <1>1, <1>2, <1>3, <1>4, <1>5, <1>6, <1>7, <1>8, <1>9, <1>10, <1>11, <1>12
     DEF JobStep, SameTurn, NextTurn

-----------------------------------------------------------------------------
(* The life and death of a worker.                                         *)

LEMMA RequeuedFiled ==
    ASSUME IInv, SafeInv, NEW w \in Workers, NEW r \in RunIds
    PROVE  /\ Filed(run, r, run[r])
           /\ Filed(run, r, RequeueRow(run[r], w))
           /\ RequeueRow(run[r], w).status = "running" => RequeueRow(run[r], w) = run[r]
           /\ ~(RequeueRow(run[r], w).status = "running" /\ RequeueRow(run[r], w).worker = w)
<1>1. run[r] \in Run /\ RowFine(run[r])
  BY DEF IInv, TypeOK, SafeInv, Releases
<1>2. Filed(run, r, run[r])
  BY <1>1, TouchedRows DEF Filed
<1>3. CASE run[r].status = "running" /\ run[r].worker = w
  <2>1. /\ RequeueRow(run[r], w).status = "queued" /\ RequeueRow(run[r], w).control = ""
        /\ RequeueRow(run[r], w).release = run[r].release
    BY <1>1, <1>3 DEF RequeueRow, QueuedAgain, Run
  <2>2. RowFine(RequeueRow(run[r], w)) /\ ~Begun(RequeueRow(run[r], w))
    BY <1>1, <1>3, <2>1 DEF RowFine, Begun
  <2>3. KeptRow(run[r], RequeueRow(run[r], w))
    BY <1>1, RecoveredRows
  <2>4. Active(run[r])
    BY <1>3 DEF Active
  <2> QED
    BY <1>1, <1>2, <2>1, <2>2, <2>3, <2>4, ActiveFiled
<1>4. CASE ~(run[r].status = "running" /\ run[r].worker = w)
  BY <1>2, <1>4 DEF RequeueRow
<1> QED
  BY <1>3, <1>4

LEMMA OrphanFiled ==
    ASSUME IInv, SafeInv, NEW r \in RunIds
    PROVE  /\ Filed(run, r, OrphanRow(run[r]))
           /\ OrphanRow(run[r]).status # "running"
           /\ OrphanRow(run[r]).control # "cleanup_running"
<1> DEFINE rec == run[r]
           new == OrphanRow(rec)
<1>1. rec \in Run /\ RowFine(rec)
  BY DEF IInv, TypeOK, SafeInv, Releases
<1>2. KeptRow(rec, new)
  BY <1>1, RecoveredRows
<1>3. CASE rec.status = "running"
  <2>1. /\ new.status \in {"queued", "blocked"} /\ new.release = "pending"
        /\ new.control # "cleanup_running"
    BY <1>1, <1>3 DEF OrphanRow, Finish, QueuedAgain, RowFine, Run
  <2> HIDE DEF new, rec
  <2>2. RowFine(new) /\ ~Begun(new)
    BY <2>1 DEF RowFine, Begun
  <2> QED
    BY <1>1, <1>2, <1>3, <2>1, <2>2, ActiveFiled DEF Active, rec, new
<1>4. CASE rec.status = "blocked" /\ rec.control = "cleanup_running"
  <2>1. /\ new.status = rec.status /\ new.release = rec.release /\ new.verdict = rec.verdict
        /\ new.control = "stop_revert"
    BY <1>1, <1>4 DEF OrphanRow, Run
  <2> HIDE DEF new, rec
  <2>2. RowFine(new)
    BY <1>1, <1>4, <2>1 DEF RowFine, Begun, ReleaseCandidate
  <2> QED
    BY <1>2, <1>4, <2>1, <2>2 DEF Filed, Begun, ReleaseCandidate, rec, new
<1>5. CASE rec.status # "running" /\ ~(rec.status = "blocked" /\ rec.control = "cleanup_running")
  <2>1. new = rec
    BY <1>5 DEF OrphanRow
  <2>2. rec.control # "cleanup_running"
    BY <1>1, <1>5 DEF RowFine
  <2> QED
    BY <1>1, <1>2, <1>5, <2>1, <2>2 DEF Filed
<1> QED
  BY <1>3, <1>4, <1>5

(* After the step no process has a job, git work, a Codex child or a row.  *)
Emptied ==
    /\ \A v \in Workers : chain'[v] = <<>>
    /\ \A v \in Workers, r \in RunIds :
        job'[v][r].phase = "idle" /\ <<v, r>> \notin agents' /\ ~HoldsRow(v, r)'
    /\ ~ChildrenOutlive => orphans' = orphans

LEMMA EmptiedSafe ==
    ASSUME IInv, SafeInv, UNCHANGED <<made, rel, web>>, \A r \in RunIds : Filed(run, r, run'[r]),
           silent' = {},
           \A v \in Workers : proc'[v] \in {"down", "up"} /\ (proc'[v] # "down" => lease' = v),
           Emptied, CleanupHasExecutor'
    PROVE  SafeInv'
<1>1. OneWorker'
  BY DEF Emptied, OneWorker
<1>2. ChildrenOfJobs'
  BY DEF Emptied, SafeInv, ChildrenOfJobs
<1>3. JobRows'
  BY DEF Emptied, JobRows, Working, Closing
<1>4. Chains'
  BY DEF Emptied, Chains, ChainGood
<1>5. FiledGrowth(run, made, run', made')
  BY DEF FiledGrowth
<1>6. Releases' /\ ReleaseOfNewest'
  BY <1>5, FiledSafe DEF SafeInv, Asked, ItemMoves
<1>7. ClosedUnclaimed'
  BY DEF Emptied, ClosedUnclaimed, Closing
<1> QED
  BY <1>1, <1>2, <1>3, <1>4, <1>6, <1>7 DEF SafeInv

LEMMA StartSafe ==
    ASSUME IInv, SafeInv, Sound, NEW w \in Workers, Start(w)
    PROVE  SafeInv'
<1>1. /\ proc' = [proc EXCEPT ![w] = "up"] /\ lease' = w
      /\ run' = [r \in RunIds |-> OrphanRow(run[r])]
      /\ UNCHANGED <<made, silent, job, chain, agents, orphans, rel, web>>
  BY DEF Start
<1>2. \A v \in Workers : proc[v] = "down"
  <2>1. lease \notin Workers
    BY DEF Start, LeaseFree, SafeInv, OneWorker, RowsAssumption
  <2> QED
    BY <2>1 DEF SafeInv, OneWorker
<1>3. \A r \in RunIds :
        Filed(run, r, run'[r]) /\ run'[r].status # "running" /\ run'[r].control # "cleanup_running"
  BY <1>1, OrphanFiled
<1>4. Emptied
  <2>1. \A v \in Workers, r \in RunIds : job[v][r].phase = "idle" /\ chain[v] = <<>>
    BY <1>2 DEF SafeInv, OneWorker
  <2>2. \A v \in Workers, r \in RunIds : <<v, r>> \notin agents
    BY <2>1 DEF SafeInv, ChildrenOfJobs
  <2>3. \A v \in Workers : chain[v] = <<>>
    BY <1>2 DEF SafeInv, OneWorker
  <2> QED
    BY <1>1, <1>3, <2>1, <2>2, <2>3 DEF Emptied, HoldsRow
<1>5. CleanupHasExecutor'
  BY <1>3 DEF CleanupHasExecutor
<1>6. \A v \in Workers : proc'[v] \in {"down", "up"} /\ (proc'[v] # "down" => lease' = v)
  BY <1>1, <1>2 DEF IInv, TypeOK
<1>7. silent' = {}
  BY <1>1 DEF SafeInv, OneWorker
<1> QED
  BY <1>1, <1>3, <1>4, <1>5, <1>6, <1>7, EmptiedSafe

(* The death of the process that lived: nothing it had is left.            *)
LEMMA VanishSafe ==
    ASSUME IInv, SafeInv, NEW w \in Workers, proc[w] # "down", Vanish(w),
           UNCHANGED <<made, rel, web>>, \A r \in RunIds : Filed(run, r, run'[r]),
           \A v \in Workers, r \in RunIds : HoldsRow(v, r)' => HoldsRow(v, r) /\ v # w
    PROVE  SafeInv'
<1>1. \A v \in Workers : proc[v] # "down" => v = w
  BY DEF SafeInv, OneWorker
<1>2. /\ proc' = [proc EXCEPT ![w] = "down"] /\ silent' = silent \ {w}
      /\ job' = [job EXCEPT ![w] = [r \in RunIds |-> Idle]] /\ chain' = [chain EXCEPT ![w] = <<>>]
      /\ agents' = agents \ Children(w)
  BY DEF Vanish
<1>3. /\ proc \in [Workers -> ProcState] /\ chain \in [Workers -> Seq(Op)]
      /\ job \in [Workers -> [RunIds -> [phase : Phase, stop : Control]]]
  BY DEF IInv, TypeOK
<1>4. \A v \in Workers : proc'[v] = "down"
  BY <1>1, <1>2, <1>3
<1>5. Emptied
  <2>1. ASSUME NEW v \in Workers
        PROVE  chain'[v] = <<>>
    BY <1>1, <1>2, <1>3 DEF SafeInv, OneWorker
  <2>2. ASSUME NEW v \in Workers, NEW r \in RunIds
        PROVE  job'[v][r].phase = "idle" /\ <<v, r>> \notin agents' /\ ~HoldsRow(v, r)'
    <3>1. CASE v = w
      <4>1. job'[v][r].phase = "idle"
        BY <1>2, <1>3, <3>1 DEF Idle
      <4>2. <<v, r>> \notin agents'
        BY <1>2, <3>1 DEF Children
      <4> QED
        BY <3>1, <4>1, <4>2
    <3>2. CASE v # w
      <4>1. job[v][r].phase = "idle" /\ job'[v] = job[v]
        BY <1>1, <1>2, <1>3, <3>2 DEF SafeInv, OneWorker
      <4>2. <<v, r>> \notin agents
        BY <4>1 DEF SafeInv, ChildrenOfJobs
      <4>3. ~HoldsRow(v, r)
        BY <4>1 DEF SafeInv, JobRows
      <4> QED
        BY <1>2, <4>1, <4>2, <4>3
    <3> QED
      BY <3>1, <3>2
  <2>3. ~ChildrenOutlive => orphans' = orphans
    BY DEF Vanish
  <2> QED
    BY <2>1, <2>2, <2>3 DEF Emptied
<1>6. CleanupHasExecutor'
  BY <1>4 DEF CleanupHasExecutor
<1>7. silent' = {}
  BY <1>2 DEF SafeInv, OneWorker
<1> QED
  BY <1>4, <1>5, <1>6, <1>7, EmptiedSafe

(* stop() gives back every row its jobs still hold.                        *)
LEMMA StopEndSafe ==
    ASSUME IInv, SafeInv, Sound, NEW w \in Workers, StopEnd(w)
    PROVE  SafeInv'
<1>1. proc[w] = "stopping"
  BY DEF StopEnd, SafeInv, OneWorker
<1>2. /\ Vanish(w) /\ UNCHANGED <<made, rel, web>>
      /\ run' = [r \in RunIds |-> IF r \in Busy(w) THEN RequeueRow(run[r], w) ELSE run[r]]
  BY <1>1 DEF StopEnd
<1>3. \A r \in RunIds : Filed(run, r, run'[r])
  BY <1>2, RequeuedFiled
<1>4. ASSUME NEW v \in Workers, NEW r \in RunIds, HoldsRow(v, r)'
      PROVE  HoldsRow(v, r) /\ v # w
  <2>1. run'[r].status = "running" /\ run'[r].worker = v
    BY <1>4 DEF HoldsRow
  <2>2. CASE r \in Busy(w)
    <3>1. run'[r] = RequeueRow(run[r], w)
      BY <1>2, <2>2
    <3> QED
      BY <2>1, <3>1, RequeuedFiled DEF HoldsRow
  <2>3. CASE r \notin Busy(w)
    <3>1. run'[r] = run[r] /\ job[w][r].phase = "idle"
      BY <1>2, <2>3 DEF Busy
    <3> QED
      BY <2>1, <3>1 DEF HoldsRow, SafeInv, JobRows
  <2> QED
    BY <2>2, <2>3
<1> QED
  BY <1>1, <1>2, <1>3, <1>4, VanishSafe

LEMMA CrashSafe ==
    ASSUME IInv, SafeInv, Sound, NEW w \in Workers, Crash(w)
    PROVE  SafeInv'
<1>1. /\ proc[w] # "down" /\ Vanish(w) /\ UNCHANGED <<made, rel, web>>
      /\ run' = [r \in RunIds |-> IF run[r].worker = w THEN [run[r] EXCEPT !.worker = Gone]
                                                       ELSE run[r]]
  BY DEF Crash
<1>2. ASSUME NEW r \in RunIds
      PROVE  Filed(run, r, run'[r])
  <2>1. run[r] \in Run /\ RowFine(run[r]) /\ Filed(run, r, run[r])
    BY RequeuedFiled DEF IInv, TypeOK, SafeInv, Releases
  <2> DEFINE rec == [run[r] EXCEPT !.worker = Gone]
  <2>2. KeptRow(run[r], rec)
    BY <2>1, TouchedRows
  <2>3. /\ rec.status = run[r].status /\ rec.verdict = run[r].verdict
        /\ rec.release = run[r].release /\ rec.control = run[r].control
    BY <2>1 DEF Run
  <2> HIDE DEF rec
  <2>4. RowFine(rec)
    BY <2>1, <2>3 DEF RowFine, Begun, ReleaseCandidate
  <2>5. Filed(run, r, rec)
    BY <2>2, <2>3, <2>4 DEF Filed, Begun, ReleaseCandidate
  <2> QED
    BY <1>1, <2>1, <2>5 DEF rec
<1>3. ASSUME NEW v \in Workers, NEW r \in RunIds, HoldsRow(v, r)'
      PROVE  HoldsRow(v, r) /\ v # w
  <2>1. run[r] \in Run /\ Gone # v
    BY DEF IInv, TypeOK, RowsAssumption
  <2>2. run'[r].status = "running" /\ run'[r].worker = v
    BY <1>3 DEF HoldsRow
  <2>3. run[r].worker # w
    BY <1>1, <2>1, <2>2 DEF Run
  <2> QED
    BY <1>1, <2>2, <2>3 DEF HoldsRow
<1> QED
  BY <1>1, <1>2, <1>3, VanishSafe

LEMMA BeatSafe ==
    ASSUME IInv, SafeInv, NEW w \in Workers, Heartbeat(w) \/ StopBegin(w)
    PROVE  SafeInv'
<1>1. UNCHANGED <<run, made, lease, job, chain, agents, orphans, rel, web>> /\ proc[w] = "up"
  BY DEF Heartbeat, StopBegin, store
<1>2. silent' = {} /\ (proc' = proc \/ proc' = [proc EXCEPT ![w] = "stopping"])
  BY <1>1 DEF Heartbeat, StopBegin, SafeInv, OneWorker
<1>3. proc \in [Workers -> ProcState]
  BY DEF IInv, TypeOK
<1>4. \A v \in Workers :
        /\ proc'[v] \in {"down", "up", "stopping"}
        /\ (proc'[v] = "down") <=> (proc[v] = "down")
        /\ proc'[v] = "up" => proc[v] = "up"
  BY <1>1, <1>2, <1>3 DEF SafeInv, OneWorker
<1>5. OneWorker'
  BY <1>1, <1>2, <1>4 DEF SafeInv, OneWorker
<1>6. ChildrenOfJobs' /\ JobRows' /\ ClosedUnclaimed' /\ Chains'
  BY <1>1 DEF SafeInv, ChildrenOfJobs, JobRows, ClosedUnclaimed, HoldsRow, Chains
<1>7. CleanupHasExecutor'
  BY <1>1, <1>4 DEF SafeInv, CleanupHasExecutor
<1>8. Releases'
  BY <1>1 DEF SafeInv, Releases
<1>9. ReleaseOfNewest'
  BY <1>1 DEF SafeInv, ReleaseOfNewest, InRelease, Latest
<1> QED
  BY <1>5, <1>6, <1>7, <1>8, <1>9 DEF SafeInv

LEMMA OrphanExitSafe ==
    ASSUME IInv, SafeInv, Sound, NEW r \in RunIds, OrphanExit(r)
    PROVE  SafeInv'
<1>1. UNCHANGED <<run, made, proc, lease, silent, job, chain, agents, rel, web>>
  BY DEF OrphanExit, store
<1>2. orphans' \subseteq orphans
  BY DEF OrphanExit
<1>3. OneWorker' /\ ChildrenOfJobs'
  BY <1>1, <1>2 DEF SafeInv, OneWorker, ChildrenOfJobs
<1>4. JobRows' /\ ClosedUnclaimed' /\ Chains'
  BY <1>1 DEF SafeInv, JobRows, ClosedUnclaimed, HoldsRow, Chains
<1>5. CleanupHasExecutor' /\ Releases'
  BY <1>1 DEF SafeInv, CleanupHasExecutor, Releases
<1>6. ReleaseOfNewest'
  BY <1>1 DEF SafeInv, ReleaseOfNewest, InRelease, Latest
<1> QED
  BY <1>3, <1>4, <1>5, <1>6 DEF SafeInv

-----------------------------------------------------------------------------
(* The deferred clean-up.                                                  *)

(* What clean-ups do to the table: a control column is rewritten.          *)
LEMMA ControlSafe ==
    ASSUME IInv, SafeInv, Sound, JobUnchanged, UNCHANGED <<job, agents>>,
           NEW w \in Workers, proc[w] # "down", NEW r \in RunIds, NEW c \in Control,
           run' = run \/ run' = [run EXCEPT ![r].control = c],
           run' # run /\ c = "cleanup_running" =>
                run[r].status = "blocked" /\ \A v \in Workers : job[v][r].phase \notin Closing,
           \A v \in Workers \ {w} : chain'[v] = chain[v],
           ChainGood(chain'[w], job[w], run'),
           CleanupHasExecutor'
    PROVE  SafeInv'
<1>1. /\ UNCHANGED <<made, proc, lease, silent, orphans, rel, web>>
      /\ run \in [RunIds -> Run] /\ \A q \in RunIds : RowFine(run[q])
  BY DEF JobUnchanged, IInv, TypeOK, SafeInv, Releases
<1>2. ASSUME NEW q \in RunIds
      PROVE  /\ run'[q].status = run[q].status /\ run'[q].worker = run[q].worker
             /\ Filed(run, q, run'[q])
  <2>1. Filed(run, q, run[q])
    BY <1>1, CalmRows, CalmFiled
  <2>2. CASE run'[q] = run[q]
    BY <2>1, <2>2
  <2>3. CASE run'[q] # run[q]
    <3>1. q = r /\ run'[r] = [run[r] EXCEPT !.control = c] /\ run' # run
      BY <1>1, <2>3
    <3> DEFINE rec == [run[r] EXCEPT !.control = c]
    <3>2. KeptRow(run[r], rec)
      BY <1>1, TouchedRows
    <3>3. /\ rec.status = run[r].status /\ rec.verdict = run[r].verdict
          /\ rec.release = run[r].release /\ rec.control = c /\ rec.worker = run[r].worker
      <4>1. run[r] \in Run
        BY <1>1
      <4> QED
        BY <4>1 DEF Run
    <3> HIDE DEF rec
    <3>4. RowFine(rec)
      BY <1>1, <3>1, <3>3 DEF RowFine, Begun, ReleaseCandidate
    <3>5. Filed(run, r, rec)
      BY <3>2, <3>3, <3>4 DEF Filed, Begun, ReleaseCandidate
    <3> QED
      BY <3>1, <3>3, <3>5 DEF rec
  <2> QED
    BY <2>2, <2>3
<1>3. OneWorker'
  <2>1. \A v \in Workers \ {w} : proc[v] = "down"
    BY DEF SafeInv, OneWorker
  <2> QED
    BY <1>1, <2>1 DEF SafeInv, OneWorker
<1>4. ChildrenOfJobs'
  BY <1>1 DEF SafeInv, ChildrenOfJobs
<1>5. JobRows'
  <2>1. \A q \in RunIds : Steady(run[q], run'[q])
    BY <1>2 DEF Steady
  <2> QED
    BY <2>1, JobRowsStay DEF SafeInv, OneWorker
<1>6. Chains'
  <2>1. ASSUME NEW v \in Workers, v # w
        PROVE  ChainGood(chain'[v], job[v], run')
    <3>1. SameTasks(run, run', job[v])
      BY TasksStay DEF Sound
    <3>2. chain[v] \in Seq(Op) /\ ChainGood(chain[v], job[v], run) /\ chain'[v] = chain[v]
      BY <2>1 DEF IInv, TypeOK, SafeInv, Chains
    <3> QED
      BY <3>1, <3>2, ChainStays
  <2> QED
    BY <2>1 DEF Chains
<1>7. Releases' /\ ReleaseOfNewest'
  <2>1. FiledGrowth(run, made, run', made')
    BY <1>1, <1>2 DEF FiledGrowth
  <2> QED
    BY <1>1, <2>1, FiledSafe DEF SafeInv, Asked, ItemMoves
<1>8. ClosedUnclaimed'
  <2> SUFFICES ASSUME NEW v \in Workers, NEW q \in RunIds, job[v][q].phase \in Closing
               PROVE  run'[q].control # "cleanup_running"
    BY DEF ClosedUnclaimed
  <2>1. CASE run'[q] = run[q]
    BY <2>1 DEF SafeInv, ClosedUnclaimed
  <2>2. CASE run'[q] # run[q]
    <3>1. q = r /\ run'[r] = [run[r] EXCEPT !.control = c] /\ run' # run /\ run[r] \in Run
      BY <1>1, <2>2
    <3> QED
      BY <3>1 DEF Run
  <2> QED
    BY <2>1, <2>2
<1> QED
  BY <1>3, <1>4, <1>5, <1>6, <1>7, <1>8 DEF SafeInv

(* A clean-up is claimed only while no run of the task is active: no job   *)
(* of it works.                                                            *)
LEMMA ClaimCleanupSafe ==
    ASSUME IInv, SafeInv, Sound, NEW w \in Workers, NEW r \in RunIds,
           Turn(w), ClaimCleanup(w, r)
    PROVE  SafeInv'
<1> DEFINE e == [op |-> "cleanup", run |-> r]
<1>1. /\ proc[w] = "up" /\ JobUnchanged /\ UNCHANGED <<job, agents>>
      /\ run[r].status = "blocked" /\ ~HasActiveRun(run, run[r].task)
      /\ run' = [run EXCEPT ![r].control = "cleanup_running"]
      /\ \A i \in DOMAIN chain[w] : chain[w][i].op # "cleanup"
      /\ chain' = [chain EXCEPT ![w] = Append(@, e)]
  BY DEF ClaimCleanup, CleanupReady, Push
<1>2. /\ chain \in [Workers -> Seq(Op)] /\ chain[w] \in Seq(Op) /\ e \in Op
      /\ ChainGood(chain[w], job[w], run) /\ run \in [RunIds -> Run]
  BY DEF IInv, TypeOK, SafeInv, Chains, Op
<1>3. chain'[w] = Append(chain[w], e) /\ \A v \in Workers \ {w} : chain'[v] = chain[v]
  BY <1>1, <1>2
<1>4. run[r].task # NoTask
  BY <1>1 DEF IInv, RowsOK
<1>5. ASSUME NEW q \in RunIds, run[q].task = run[r].task
      PROVE  job[w][q].phase \in Resting
  <2>1. ~Active(run[q])
    BY <1>1, <1>5 DEF HasActiveRun
  <2>2. job[w][q].phase \notin Working
    BY <2>1 DEF SafeInv, JobRows, HoldsRow, Active
  <2>3. job[w][q].phase \in Phase
    BY DEF IInv, TypeOK
  <2> QED
    BY <2>2, <2>3 DEF Phase, Working, Resting
<1>6. SameTasks(run, run', job[w])
  BY TasksStay DEF Sound
<1>7. ChainGood(Append(chain[w], e), job[w], run')
  BY <1>1, <1>2, <1>4, <1>5, <1>6, ChainPushCleanup
<1>8. CleanupHasExecutor'
  <2> SUFFICES ASSUME NEW v \in Workers, NEW q \in RunIds,
                      run'[q].control = "cleanup_running", proc'[v] = "up"
               PROVE  \E i \in DOMAIN chain'[v] : chain'[v][i] = [op |-> "cleanup", run |-> q]
    BY DEF CleanupHasExecutor
  <2>1. v = w
    BY <1>1 DEF SafeInv, OneWorker, JobUnchanged
  <2>2. /\ DOMAIN chain[w] = 1..Len(chain[w]) /\ Len(chain[w]) \in Nat
        /\ DOMAIN Append(chain[w], e) = 1..(Len(chain[w]) + 1)
        /\ \A i \in DOMAIN chain[w] :
                i \in DOMAIN Append(chain[w], e) /\ Append(chain[w], e)[i] = chain[w][i]
        /\ Append(chain[w], e)[Len(chain[w]) + 1] = e
    BY <1>2, AppendEntries
  <2>3. CASE q = r
    <3>1. Len(chain[w]) + 1 \in DOMAIN Append(chain[w], e)
      BY <2>2
    <3> QED
      BY <1>3, <2>1, <2>2, <2>3, <3>1
  <2>4. CASE q # r
    <3>1. run[q].control = "cleanup_running"
      BY <1>1, <1>2, <2>4
    <3>2. PICK i \in DOMAIN chain[w] : chain[w][i] = [op |-> "cleanup", run |-> q]
      BY <1>1, <3>1 DEF SafeInv, CleanupHasExecutor
    <3> QED
      BY <1>3, <2>1, <2>2, <3>2
  <2> QED
    BY <2>3, <2>4
<1>9. "cleanup_running" \in Control /\ proc[w] # "down"
  BY <1>1 DEF Control
<1>10. ChainGood(chain'[w], job[w], run')
  BY <1>3, <1>7
<1>11. \A v \in Workers : job[v][r].phase \notin Closing
  <2>1. \A v \in Workers \ {w} : job[v][r].phase = "idle"
    BY <1>1 DEF SafeInv, OneWorker
  <2> QED
    BY <2>1 DEF Turn, Closing
<1> HIDE DEF e
<1> QED
  BY <1>1, <1>3, <1>8, <1>9, <1>10, <1>11, ControlSafe

LEMMA CleanedUpSafe ==
    ASSUME IInv, SafeInv, Sound, NEW w \in Workers, NEW r \in RunIds, CleanedUp(w, r)
    PROVE  SafeInv'
<1> DEFINE s == chain[w]
           u == Tail(chain[w])
<1>1. /\ JobUnchanged /\ UNCHANGED <<job, agents>>
      /\ s # <<>> /\ Head(s) = [op |-> "cleanup", run |-> r]
      /\ chain' = [chain EXCEPT ![w] = Tail(@)]
      /\ run' = IF run[r].control = "cleanup_running"
                THEN [run EXCEPT ![r].control = ""] ELSE run
  BY DEF CleanedUp, Head1, Pop
<1>2. /\ chain \in [Workers -> Seq(Op)] /\ s \in Seq(Op)
      /\ ChainGood(s, job[w], run) /\ run \in [RunIds -> Run]
  BY DEF IInv, TypeOK, SafeInv, Chains
<1>3. chain'[w] = u /\ \A v \in Workers \ {w} : chain'[v] = chain[v]
  BY <1>1, <1>2
<1>4. SameTasks(run, run', job[w])
  BY TasksStay DEF Sound
<1>5. ChainGood(u, job[w], run')
  BY <1>1, <1>2, <1>4, ChainPop
<1>6. proc[w] # "down"
  BY <1>1 DEF SafeInv, OneWorker
<1>7. /\ 1 \in DOMAIN s /\ s[1] = [op |-> "cleanup", run |-> r]
      /\ DOMAIN s = 1..Len(s) /\ DOMAIN u = 1..(Len(s) - 1) /\ Len(s) \in Nat
      /\ \A k \in DOMAIN u : k + 1 \in DOMAIN s /\ u[k] = s[k + 1]
  BY <1>1, <1>2, TailEntries
<1>8. CleanupHasExecutor'
  <2> SUFFICES ASSUME NEW v \in Workers, NEW q \in RunIds,
                      run'[q].control = "cleanup_running", proc'[v] = "up"
               PROVE  \E i \in DOMAIN chain'[v] : chain'[v][i] = [op |-> "cleanup", run |-> q]
    BY DEF CleanupHasExecutor
  <2>1. v = w /\ proc[w] = "up"
    BY <1>1, <1>6 DEF SafeInv, OneWorker, JobUnchanged
  <2>2. q # r /\ run[q].control = "cleanup_running"
    <3>1. run[r] \in Run
      BY <1>2
    <3>2. run'[r].control # "cleanup_running"
      BY <1>1, <1>2, <3>1 DEF Run
    <3> QED
      BY <1>1, <1>2, <3>2
  <2>3. PICK i \in DOMAIN s : s[i] = [op |-> "cleanup", run |-> q]
    BY <2>1, <2>2 DEF SafeInv, CleanupHasExecutor
  <2> HIDE DEF s, u
  <2>4. i # 1
    BY <1>7, <2>2, <2>3
  <2>5. i - 1 \in DOMAIN u /\ (i - 1) + 1 = i
    BY <1>7, <2>3, <2>4
  <2>6. u[i - 1] = [op |-> "cleanup", run |-> q]
    BY <1>7, <2>3, <2>5
  <2> QED
    BY <1>3, <2>1, <2>5, <2>6
<1>9. "" \in Control
  BY DEF Control
<1>10. ChainGood(chain'[w], job[w], run')
  BY <1>3, <1>5
<1>11. run' = run \/ run' = [run EXCEPT ![r].control = ""]
  BY <1>1
<1> HIDE DEF s, u
<1> QED
  BY <1>1, <1>3, <1>6, <1>8, <1>9, <1>10, <1>11, ControlSafe

-----------------------------------------------------------------------------
(* The invariant.                                                          *)

LEMMA ProcessSafe ==
    ASSUME MayStall = {}, IInv, SafeInv, Sound, NEW w \in Workers, Process(w)
    PROVE  SafeInv'
<1>1. CASE Start(w)
  BY <1>1, StartSafe
<1>2. CASE Crash(w)
  BY <1>2, CrashSafe
<1>3. CASE Stall(w)
  BY <1>3 DEF Stall
<1>4. CASE Heartbeat(w) \/ StopBegin(w)
  BY <1>4, BeatSafe
<1>5. CASE StopEnd(w)
  BY <1>5, StopEndSafe
<1>6. CASE ZombieExit(w)
  BY <1>6 DEF ZombieExit, SafeInv, OneWorker
<1>7. ASSUME NEW r \in RunIds, Claim(w, r)
      PROVE  SafeInv'
  BY <1>7, ClaimSafe
<1>8. ASSUME NEW r \in RunIds, Turn(w), ClaimCleanup(w, r)
      PROVE  SafeInv'
  BY <1>8, ClaimCleanupSafe
<1>9. ASSUME NEW r \in RunIds, CleanedUp(w, r)
      PROVE  SafeInv'
  BY <1>9, CleanedUpSafe
<1> QED
  BY <1>1, <1>2, <1>3, <1>4, <1>5, <1>6, <1>7, <1>8, <1>9 DEF Process

LEMMA InitSafe == Init => SafeInv
<1> SUFFICES ASSUME Init
             PROVE  SafeInv
  OBVIOUS
<1>1. OneWorker
  BY DEF Init, OneWorker, Idle
<1>2. ChildrenOfJobs
  BY DEF Init, ChildrenOfJobs, Idle
<1>3. JobRows
  BY DEF Init, JobRows, Idle, Working, Closing, NoRun, HoldsRow
<1>4. Chains
  BY DEF Init, Chains, ChainGood
<1>5. CleanupHasExecutor
  BY DEF Init, CleanupHasExecutor
<1>6. Releases
  BY DEF Init, Releases, RowFine, Begun, NoRun, NoRelease
<1>7. ReleaseOfNewest
  <2> SUFFICES ASSUME NEW r \in RunIds
               PROVE  ~InRelease(r)
    BY DEF ReleaseOfNewest
  <2>1. rel.run # r
    BY DEF Init, NoRelease, RunIds
  <2>2. run[r].release = "pending"
    BY DEF Init, NoRun
  <2> QED
    BY <2>1, <2>2 DEF InRelease
<1>8. ClosedUnclaimed
  BY DEF Init, ClosedUnclaimed, NoRun
<1> QED
  BY <1>1, <1>2, <1>3, <1>4, <1>5, <1>6, <1>7, <1>8 DEF SafeInv

LEMMA NextSafe ==
    ASSUME MayStall = {}, IInv, SafeInv, [Next]_vars
    PROVE  SafeInv'
<1>0. Sound
  BY NextSound
<1>1. ASSUME NEW t \in Tasks, Web(t)
      PROVE  SafeInv'
  BY <1>0, <1>1, WebSafe
<1>2. CASE Answer
  BY <1>0, <1>2, AnswerSafe
<1>3. ASSUME NEW w \in Workers, Process(w)
      PROVE  SafeInv'
  BY <1>0, <1>3, ProcessSafe
<1>4. ASSUME NEW w \in Workers, NEW r \in RunIds, JobStep(w, r)
      PROVE  SafeInv'
  BY <1>0, <1>4, JobStepSafe
<1>5. ASSUME NEW r \in RunIds, OrphanExit(r)
      PROVE  SafeInv'
  BY <1>0, <1>5, OrphanExitSafe
<1>6. CASE web = NoRequest /\ Release
  BY <1>0, <1>6, ReleaseSafe
<1>7. CASE UNCHANGED vars
  <2>1. UNCHANGED <<run, made, proc, lease, silent, job, chain, agents, orphans, rel, web>>
    BY <1>7 DEF vars
  <2>2. OneWorker' /\ ChildrenOfJobs'
    BY <2>1 DEF SafeInv, OneWorker, ChildrenOfJobs
  <2>3. JobRows' /\ ClosedUnclaimed' /\ Chains'
    BY <2>1 DEF SafeInv, JobRows, ClosedUnclaimed, HoldsRow, Chains
  <2>4. CleanupHasExecutor' /\ Releases'
    BY <2>1 DEF SafeInv, CleanupHasExecutor, Releases
  <2>5. ReleaseOfNewest'
    BY <2>1 DEF SafeInv, ReleaseOfNewest, InRelease, Latest
  <2> QED
    BY <2>2, <2>3, <2>4, <2>5 DEF SafeInv
<1> QED
  BY <1>1, <1>2, <1>3, <1>4, <1>5, <1>6, <1>7 DEF Next

(* The second invariant, while no worker misses its heartbeats for a whole *)
(* lease TTL.                                                              *)
THEOREM SafeInvariance == MayStall = {} => (Spec => [](IInv /\ SafeInv))
<1> SUFFICES ASSUME MayStall = {}
             PROVE  Spec => [](IInv /\ SafeInv)
  OBVIOUS
<1>1. Init => IInv /\ SafeInv
  BY InitIInv, InitSafe
<1>2. (IInv /\ SafeInv) /\ [Next]_vars => (IInv /\ SafeInv)'
  BY NextSound, SoundStep, NextSafe
<1> QED
  BY <1>1, <1>2, PTL DEF Spec

(* Every running row has a job, also when workers outlive their lease and  *)
(* go on writing: what a job needs for it is that it closes its row, or    *)
(* gives it back, before it ends.                                          *)
Held ==
    \A w \in Workers, r \in RunIds :
        /\ job[w][r].phase \in Closing => ~Active(run[r])
        /\ HoldsRow(w, r) => job[w][r].phase # "idle"

HolderStays(rec, new) ==
    new.status = "running" => rec.status = "running" /\ new.worker \in {rec.worker, Gone}

NoNewHolder == \A r \in RunIds : HolderStays(run[r], run'[r])

LEMMA ClosedStays ==
    ASSUME IInv, Held, Sound, NEW w \in Workers, NEW r \in RunIds, job[w][r].phase \in Closing
    PROVE  ~Active(run'[r])
<1>1. ~Active(run[r])
  BY DEF Held
<1>2. r <= made /\ made \in Nat /\ r \in Nat
  BY DEF IInv, TypeOK, JobsMade, Closing, RunIds
<1>3. r # made + 1
  BY <1>2
<1>4. KeptRow(run[r], run'[r])
  BY <1>3 DEF Sound, Grown, Kept
<1> QED
  BY <1>1, <1>4 DEF KeptRow

(* A step that gives no row to a worker, in which job (w, r) takes phase p.*)
LEMMA HeldJob ==
    ASSUME IInv, Held, Sound, NoNewHolder, NEW w \in Workers, NEW r \in RunIds, NEW p,
           PhaseMoves(w, r, p),
           p = "idle" => ~HoldsRow(w, r)',
           p \in Closing => job[w][r].phase \in Closing \/ ~Active(run'[r])
    PROVE  Held'
<1> SUFFICES ASSUME NEW v \in Workers, NEW q \in RunIds
             PROVE  /\ job'[v][q].phase \in Closing => ~Active(run'[q])
                    /\ HoldsRow(v, q)' => job'[v][q].phase # "idle"
  BY DEF Held
<1>1. CASE v = w /\ q = r
  BY <1>1, ClosedStays DEF PhaseMoves
<1>2. CASE ~(v = w /\ q = r)
  <2>1. job'[v][q].phase = job[v][q].phase
    BY <1>2 DEF PhaseMoves
  <2>2. HoldsRow(v, q)' => HoldsRow(v, q)
    BY DEF NoNewHolder, HolderStays, HoldsRow, RowsAssumption
  <2> QED
    BY <2>1, <2>2, ClosedStays DEF Held
<1> QED
  BY <1>1, <1>2

LEMMA HeldStill ==
    ASSUME IInv, Held, Sound, NoNewHolder, job' = job
    PROVE  Held'
<1> SUFFICES ASSUME NEW v \in Workers, NEW q \in RunIds
             PROVE  /\ job[v][q].phase \in Closing => ~Active(run'[q])
                    /\ HoldsRow(v, q)' => job[v][q].phase # "idle"
  BY DEF Held
<1>1. HoldsRow(v, q)' => HoldsRow(v, q)
  BY DEF NoNewHolder, HolderStays, HoldsRow, RowsAssumption
<1> QED
  BY <1>1, ClosedStays DEF Held

LEMMA SameHolders ==
    ASSUME IInv, NEW r \in RunIds, NEW rec,
           run' = run \/ run' = [run EXCEPT ![r] = rec],
           HolderStays(run[r], rec)
    PROVE  NoNewHolder
<1>1. run \in [RunIds -> Run]
  BY DEF IInv, TypeOK
<1>2. \A q \in RunIds : run'[q] = run[q] \/ (run'[q] = rec /\ q = r)
  BY <1>1
<1> QED
  BY <1>2 DEF NoNewHolder, HolderStays

(* The rows that the job of w for r may write do not run under w any more. *)
LEMMA LeftRows ==
    ASSUME IInv, NEW w \in Workers, NEW r \in RunIds
    PROVE  /\ StoppedRow(run[r]).status = "blocked"
           /\ FailRow(run[r]).status = "failed"
           /\ RequeueRow(run[r], w).status = "running" => RequeueRow(run[r], w) = run[r]
           /\ ~(RequeueRow(run[r], w).status = "running" /\ RequeueRow(run[r], w).worker = w)
           /\ \A s \in RunStatus, v \in Verdict :
                [Finish(run[r], s) EXCEPT !.verdict = v].status = s
<1>1. run[r] \in Run
  BY DEF IInv, TypeOK
<1> QED
  BY <1>1 DEF StoppedRow, FailRow, Finish, RequeueRow, QueuedAgain, Run

(* An enqueue gives no row to a worker, nor does any other request.        *)
LEMMA SupersedeHolders ==
    ASSUME NEW R \in [RunIds -> Run], NEW t, NEW r \in RunIds
    PROVE  HolderStays(R[r], Supersede(R, t)[r])
<1>1. R[r] \in Run
  OBVIOUS
<1>2. Supersede(R, t)[r] = R[r] \/ Supersede(R, t)[r] = [R[r] EXCEPT !.release = "blocked"]
  BY DEF Supersede
<1> QED
  BY <1>1, <1>2 DEF HolderStays, Run

LEMMA EnqueueHolders ==
    ASSUME NEW T, NEW R \in [RunIds -> Run], NEW t, NEW auto, Enqueue(T, R, t, auto),
           NEW r \in RunIds
    PROVE  HolderStays(R[r], run'[r])
<1>1. HolderStays(R[r], R[r]) /\ HolderStays(R[r], Supersede(R, t)[r])
  BY SupersedeHolders DEF HolderStays
<1>2. NewRun(t, T[t].status, auto).status = "queued"
  BY DEF NewRun, NoRun
<1>3. HolderStays(R[r], NewRun(t, T[t].status, auto))
  BY <1>2 DEF HolderStays
<1> DEFINE S == Supersede(R, t)
           new == NewRun(t, T[t].status, auto)
<1>4. DOMAIN S = RunIds
  BY DEF Supersede
<1>5. run' = R \/ run' = S \/ run' = [S EXCEPT ![made + 1] = new]
  BY DEF Enqueue, EnqueueRuns
<1> HIDE DEF S, new
<1>6. run'[r] = R[r] \/ run'[r] = S[r] \/ run'[r] = new
  BY <1>4, <1>5
<1> QED
  BY <1>1, <1>3, <1>6 DEF S, new

LEMMA AskHolders ==
    ASSUME NEW T, NEW R \in [RunIds -> Run], NEW t, Ask(T, R, t), NEW r \in RunIds
    PROVE  HolderStays(R[r], run'[r])
<1>1. run' = R \/ run' = Supersede(R, t)
  BY DEF Ask
<1> QED
  BY <1>1, SupersedeHolders DEF HolderStays

LEMMA WebHolders ==
    ASSUME IInv, NEW t \in Tasks, Web(t), NEW r \in RunIds
    PROVE  HolderStays(run[r], run'[r]) /\ job' = job
<1>0. run \in [RunIds -> Run] /\ run[r] \in Run
  BY DEF IInv, TypeOK
<1>1. job' = job
  <2>1. UNCHANGED worker
    BY DEF Web, StartRun, ReviewAgain, Resume, PatchTask, Stop
  <2> QED
    BY <2>1 DEF worker
<1>2. CASE StartRun(t)
  BY <1>0, <1>1, <1>2, AskHolders DEF StartRun
<1>3. CASE ReviewAgain(t)
  <2>1. Enqueue([task EXCEPT ![t].status = "review_again"], run, t, FALSE)
    BY <1>3 DEF ReviewAgain
  <2> QED
    BY <1>0, <1>1, <2>1, EnqueueHolders
<1>4. CASE Resume(t)
  <2>1. CASE Ask(task, run, t)
    BY <1>0, <1>1, <2>1, AskHolders
  <2>2. ASSUME NEW q \in RunIds, Stale(run[q]), Ask(task, [run EXCEPT ![q] = StaleRow(@)], t)
        PROVE  HolderStays(run[r], run'[r])
    <3> DEFINE R == [run EXCEPT ![q] = StaleRow(@)]
    <3>1. run[q] \in Run /\ StaleRow(run[q]) \in Run /\ StaleRow(run[q]).status = "failed"
      BY <1>0 DEF StaleRow, Finish, Run, RunStatus, Control
    <3>2. R \in [RunIds -> Run] /\ (R[r] = run[r] \/ R[r] = StaleRow(run[q]))
      BY <1>0, <3>1
    <3>3. Ask(task, R, t)
      BY <2>2
    <3> HIDE DEF R
    <3>4. HolderStays(R[r], run'[r])
      BY <3>2, <3>3, AskHolders
    <3> QED
      BY <3>1, <3>2, <3>4 DEF HolderStays
  <2> QED
    BY <1>1, <1>4, <2>1, <2>2 DEF Resume
<1>5. ASSUME NEW s \in PatchStatuses \cup {"unset"}, NEW ai \in PatchAi, PatchTask(t, s, ai)
      PROVE  HolderStays(run[r], run'[r])
  <2> DEFINE T == [task EXCEPT ![t] = [status |-> IF s = "unset" THEN @.status ELSE s, ai |-> ai]]
             R == PatchRuns(run, t, task[t].ai /\ ~ai, s = "done")
  <2>1. Kept(run, R)
    BY <1>0, PatchKeeps
  <2>2. R \in [RunIds -> Run]
    BY <2>1 DEF Kept, KeptRow
  <2>3. R[r].status = "running" => run[r].status = "running" /\ R[r].worker = run[r].worker
    BY <1>0 DEF PatchRuns, DequeuedRow, Run
  <2>4. Ask(T, R, t) \/ run' = R
    BY <1>5 DEF PatchTask
  <2> HIDE DEF T, R
  <2>5. HolderStays(R[r], run'[r])
    BY <2>2, <2>4, AskHolders DEF HolderStays
  <2> QED
    BY <2>3, <2>5 DEF HolderStays
<1>6. ASSUME NEW c \in StopControls, Stop(t, c)
      PROVE  HolderStays(run[r], run'[r])
  <2>1. PICK q \in RunIds :
          \/ run' = [run EXCEPT ![q] = DequeuedRow(run[q], c)]
          \/ run' = [run EXCEPT ![q] = [run[q] EXCEPT !.control = c]]
    BY <1>6 DEF Stop
  <2>2. run[q] \in Run
    BY <1>0
  <2>3. /\ HolderStays(run[q], DequeuedRow(run[q], c))
        /\ HolderStays(run[q], [run[q] EXCEPT !.control = c])
    BY <2>2 DEF DequeuedRow, HolderStays, Run
  <2>4. HolderStays(run[q], run'[q]) /\ \A v \in RunIds \ {q} : run'[v] = run[v]
    BY <1>0, <2>1, <2>3
  <2> QED
    BY <2>4 DEF HolderStays
<1> QED
  BY <1>1, <1>2, <1>3, <1>4, <1>5, <1>6 DEF Web

LEMMA ReleaseHolders ==
    ASSUME IInv, Release
    PROVE  NoNewHolder /\ job' = job
<1>1. run \in [RunIds -> Run]
  BY DEF IInv, TypeOK
<1>2. job' = job
  BY DEF Release, RelDrop, RelTake, RelFinish, RelProcess, RelPutBack, RelReopen, RelBlock,
         RelUnchanged, worker
<1>3. UNCHANGED run \/ \E r \in RunIds, s \in ReleaseStatus : RelWrite(r, s)
  <2>1. "released" \in ReleaseStatus /\ "blocked" \in ReleaseStatus
    BY DEF ReleaseStatus
  <2> QED
    BY <2>1 DEF Release, RelDrop, RelTake, RelFinish, RelProcess, RelPutBack, RelReopen, RelBlock
<1>4. ASSUME NEW r \in RunIds, NEW s \in ReleaseStatus, RelWrite(r, s)
      PROVE  NoNewHolder
  <2>1. run[r] \in Run
    BY <1>1
  <2>2. HolderStays(run[r], [run[r] EXCEPT !.release = s])
    BY <2>1 DEF HolderStays, Run
  <2>3. run' = [run EXCEPT ![r] = [run[r] EXCEPT !.release = s]]
    BY <1>4 DEF RelWrite
  <2> QED
    BY <2>2, <2>3, SameHolders
<1> QED
  BY <1>2, <1>3, <1>4 DEF NoNewHolder, HolderStays

LEMMA ProcessHeld ==
    ASSUME IInv, Held, Sound, NEW w \in Workers, Process(w)
    PROVE  Held'
<1>1. /\ run \in [RunIds -> Run]
      /\ job \in [Workers -> [RunIds -> [phase : Phase, stop : Control]]]
  BY DEF IInv, TypeOK
<1>2. \A r \in RunIds : run[r] \in Run
  BY <1>1
<1>3. CASE Start(w)
  <2>1. \A r \in RunIds : OrphanRow(run[r]).status # "running"
    BY <1>2 DEF OrphanRow, Finish, QueuedAgain, Run
  <2>2. NoNewHolder /\ job' = job
    BY <1>3, <2>1 DEF Start, NoNewHolder, HolderStays
  <2> QED
    BY <2>2, HeldStill
<1>4. ASSUME Vanish(w), NoNewHolder, \A r \in RunIds : ~HoldsRow(w, r)'
      PROVE  Held'
  <2> SUFFICES ASSUME NEW v \in Workers, NEW q \in RunIds
               PROVE  /\ job'[v][q].phase \in Closing => ~Active(run'[q])
                      /\ HoldsRow(v, q)' => job'[v][q].phase # "idle"
    BY DEF Held
  <2>1. CASE v = w
    <3>1. job'[v][q].phase = "idle"
      BY <1>1, <1>4, <2>1 DEF Vanish, Idle
    <3> QED
      BY <1>4, <2>1, <3>1 DEF Closing
  <2>2. CASE v # w
    <3>1. job'[v] = job[v]
      BY <1>1, <1>4, <2>2 DEF Vanish
    <3>2. HoldsRow(v, q)' => HoldsRow(v, q)
      BY <1>4 DEF NoNewHolder, HolderStays, HoldsRow, RowsAssumption
    <3> QED
      BY <3>1, <3>2, ClosedStays DEF Held
  <2> QED
    BY <2>1, <2>2
<1>5. CASE StopEnd(w)
  <2>1. run' = [r \in RunIds |-> IF r \in Busy(w) THEN RequeueRow(run[r], w) ELSE run[r]]
    BY <1>5 DEF StopEnd
  <2>2. NoNewHolder
    BY <2>1, LeftRows DEF NoNewHolder, HolderStays
  <2>3. \A r \in RunIds : ~HoldsRow(w, r)'
    BY <2>1, LeftRows DEF Busy, Held, HoldsRow
  <2>4. Vanish(w) \/ job' = job
    BY <1>5 DEF StopEnd
  <2> QED
    BY <1>4, <2>2, <2>3, <2>4, HeldStill
<1>6. CASE ZombieExit(w)
  <2>1. run' = run /\ Vanish(w)
    BY <1>6 DEF ZombieExit, store
  <2>2. \A r \in RunIds : ~HoldsRow(w, r)
    BY <1>6 DEF ZombieExit, Busy, Held
  <2> QED
    BY <1>4, <2>1, <2>2 DEF NoNewHolder, HolderStays, HoldsRow
<1>7. CASE Crash(w)
  <2>1. Vanish(w) /\ run' = [r \in RunIds |-> IF run[r].worker = w
                                              THEN [run[r] EXCEPT !.worker = Gone] ELSE run[r]]
    BY <1>7 DEF Crash
  <2>2. ASSUME NEW r \in RunIds
        PROVE  HolderStays(run[r], run'[r]) /\ run'[r].worker # w
    <3>1. run[r] \in Run /\ w # Gone
      BY <1>1 DEF RowsAssumption
    <3> QED
      BY <2>1, <3>1 DEF HolderStays, Run
  <2> QED
    BY <1>4, <2>1, <2>2 DEF NoNewHolder, HoldsRow
<1>8. CASE Stall(w) \/ Heartbeat(w) \/ StopBegin(w)
  <2>1. run' = run /\ job' = job
    BY <1>8 DEF Stall, Heartbeat, StopBegin, store
  <2> QED
    BY <2>1, HeldStill DEF NoNewHolder, HolderStays
<1>9. ASSUME NEW r \in RunIds, ClaimCleanup(w, r) \/ CleanedUp(w, r)
      PROVE  Held'
  <2>1. PICK c \in Control : run' = run \/ run' = [run EXCEPT ![r] = [run[r] EXCEPT !.control = c]]
    BY <1>9 DEF ClaimCleanup, CleanedUp, Control
  <2>2. HolderStays(run[r], [run[r] EXCEPT !.control = c])
    BY <1>2 DEF HolderStays, Run
  <2>3. NoNewHolder
    BY <2>1, <2>2, SameHolders
  <2>4. job' = job
    BY <1>9 DEF ClaimCleanup, CleanedUp
  <2> QED
    BY <2>3, <2>4, HeldStill
<1>10. ASSUME NEW r \in RunIds, Claim(w, r)
       PROVE  Held'
  <2>1. /\ run' = [run EXCEPT ![r] = [run[r] EXCEPT !.status = "running", !.worker = w]]
        /\ SetJob(w, r, "claimed")
    BY <1>10 DEF Claim
  <2>2. PhaseMoves(w, r, "claimed")
    BY <2>1, JobPhases DEF Phase
  <2>3. run'[r].worker = w /\ \A q \in RunIds \ {r} : run'[q] = run[q]
    BY <1>1, <1>2, <2>1 DEF Run
  <2> SUFFICES ASSUME NEW v \in Workers, NEW q \in RunIds
               PROVE  /\ job'[v][q].phase \in Closing => ~Active(run'[q])
                      /\ HoldsRow(v, q)' => job'[v][q].phase # "idle"
    BY DEF Held
  <2>4. CASE q = r /\ v = w
    BY <2>2, <2>4 DEF PhaseMoves, Closing
  <2>5. CASE q = r /\ v # w
    <3>1. job'[v][q].phase = job[v][q].phase /\ ~HoldsRow(v, q)'
      BY <2>2, <2>3, <2>5 DEF PhaseMoves, HoldsRow
    <3> QED
      BY <3>1, ClosedStays
  <2>6. CASE q # r
    <3>1. job'[v][q].phase = job[v][q].phase /\ run'[q] = run[q]
      BY <2>2, <2>3, <2>6 DEF PhaseMoves
    <3> QED
      BY <3>1 DEF Held, HoldsRow
  <2> QED
    BY <2>4, <2>5, <2>6
<1> QED
  BY <1>3, <1>5, <1>6, <1>7, <1>8, <1>9, <1>10 DEF Process

LEMMA JobHeld ==
    ASSUME IInv, Held, Sound, NEW w \in Workers, NEW r \in RunIds, JobStep(w, r)
    PROVE  Held'
<1>1. run \in [RunIds -> Run] /\ run[r] \in Run
  BY DEF IInv, TypeOK
<1>2. {"idle", "ensure", "restore", "ready", "agent", "late", "exited", "verify", "revert",
       "stored", "settle"} \subseteq Phase
  BY DEF Phase
<1>3. /\ {"ensure", "ready", "agent", "late", "exited", "verify", "revert"} \cap Closing = {}
      /\ "idle" \notin Closing
  BY DEF Closing
<1>4. CASE UNCHANGED run /\ \E p \in Phase \ (Closing \cup {"idle"}) : SetJob(w, r, p)
  <2>1. PICK p \in Phase \ (Closing \cup {"idle"}) : SetJob(w, r, p)
    BY <1>4
  <2>2. PhaseMoves(w, r, p)
    BY <2>1, JobPhases
  <2>3. NoNewHolder
    BY <1>4 DEF NoNewHolder, HolderStays
  <2> QED
    BY <2>1, <2>2, <2>3, HeldJob
<1>5. ASSUME NEW rec, run' = [run EXCEPT ![r] = rec], EndJob(w, r),
             rec.status = "running" => run[r].status = "running" /\ rec.worker = run[r].worker,
             ~(rec.status = "running" /\ rec.worker = w)
      PROVE  Held'
  <2>1. PhaseMoves(w, r, "idle")
    BY <1>2, <1>5, JobPhases
  <2>2. NoNewHolder
    BY <1>5, SameHolders DEF HolderStays
  <2>3. run'[r] = rec
    BY <1>1, <1>5
  <2>4. ~HoldsRow(w, r)'
    BY <1>5, <2>3 DEF HoldsRow
  <2> QED
    BY <1>3, <2>1, <2>2, <2>4, HeldJob
<1>6. ASSUME NEW rec, run' = [run EXCEPT ![r] = rec], rec.status \notin {"queued", "running"},
             NEW p \in Phase \ {"idle"}, SetJob(w, r, p)
      PROVE  Held'
  <2>1. PhaseMoves(w, r, p)
    BY <1>6, JobPhases
  <2>2. NoNewHolder
    BY <1>6, SameHolders DEF HolderStays
  <2>3. run'[r] = rec
    BY <1>1, <1>6
  <2> QED
    BY <1>6, <2>1, <2>2, <2>3, HeldJob DEF Active
<1>7. CASE Begin(w, r)
  <2>1. CASE UNCHANGED run /\ SetJob(w, r, "ensure")
    BY <1>2, <1>3, <1>4, <2>1
  <2>2. CASE run' = [run EXCEPT ![r] = StoppedRow(@)] /\ EndJob(w, r)
    <3>1. run' = [run EXCEPT ![r] = StoppedRow(run[r])]
      BY <2>2
    <3> QED
      BY <1>5, <2>2, <3>1, LeftRows
  <2> QED
    BY <1>7, <2>1, <2>2 DEF Begin
<1>8. CASE Requeue(w, r) /\ EndJob(w, r)
  <2>1. run' = [run EXCEPT ![r] = RequeueRow(run[r], w)]
    BY <1>8 DEF Requeue
  <2> DEFINE rec == RequeueRow(run[r], w)
  <2>2. /\ rec.status = "running" => run[r].status = "running" /\ rec.worker = run[r].worker
        /\ ~(rec.status = "running" /\ rec.worker = w)
    BY LeftRows
  <2> HIDE DEF rec
  <2>3. run' = [run EXCEPT ![r] = rec] /\ EndJob(w, r)
    BY <1>8, <2>1 DEF rec
  <2> QED
    BY <1>5, <2>2, <2>3
<1>9. CASE Ensured(w, r) \/ GiveBack(w, r)
  <2>1. \/ Requeue(w, r) /\ EndJob(w, r)
        \/ UNCHANGED run /\ SetJob(w, r, "ready")
    BY <1>9 DEF Ensured, GiveBack
  <2> QED
    BY <1>2, <1>3, <1>4, <1>8, <2>1
<1>10. CASE Spawn(w, r) \/ AgentExit(w, r) \/ Inspect(w, r)
  <2>1. UNCHANGED run
    BY <1>10 DEF Spawn, AgentExit, Inspect
  <2>2. \E p \in {"late", "agent", "exited", "verify"} : SetJob(w, r, p)
    BY <1>10 DEF Spawn, AgentExit, Inspect
  <2> QED
    BY <1>2, <1>3, <1>4, <2>1, <2>2
<1>11. CASE Poll(w, r)
  <2>1. UNCHANGED run /\ job' = [job EXCEPT ![w][r].stop = run[r].control]
    BY <1>11 DEF Poll
  <2>2. job \in [Workers -> [RunIds -> [phase : Phase, stop : Control]]]
    BY DEF IInv, TypeOK
  <2>3. PhaseMoves(w, r, job[w][r].phase)
    BY <2>1, <2>2 DEF PhaseMoves
  <2>4. NoNewHolder
    BY <2>1 DEF NoNewHolder, HolderStays
  <2>5. job[w][r].phase # "idle"
    BY <1>11 DEF Poll
  <2> QED
    BY <2>3, <2>4, <2>5, HeldJob
<1>12. CASE HonourStop(w, r) \/ Reverted(w, r)
  <2>1. \/ UNCHANGED run /\ SetJob(w, r, "revert")
        \/ run' = [run EXCEPT ![r] = StoppedRow(run[r])] /\ SetJob(w, r, "restore")
    BY <1>12 DEF HonourStop, Reverted
  <2>2. CASE UNCHANGED run /\ SetJob(w, r, "revert")
    BY <1>2, <1>3, <1>4, <2>2
  <2>3. CASE run' = [run EXCEPT ![r] = StoppedRow(run[r])] /\ SetJob(w, r, "restore")
    BY <1>2, <1>6, <2>3, LeftRows
  <2> QED
    BY <2>1, <2>2, <2>3
<1>13. CASE Fail(w, r)
  <2>1. \/ Requeue(w, r) /\ EndJob(w, r)
        \/ run' = [run EXCEPT ![r] = FailRow(run[r])] /\ EndJob(w, r)
    BY <1>13 DEF Fail
  <2>2. CASE run' = [run EXCEPT ![r] = FailRow(run[r])] /\ EndJob(w, r)
    BY <1>5, <2>2, LeftRows
  <2> QED
    BY <1>8, <2>1, <2>2
<1>14. ASSUME NEW v \in Verdicts, StoreVerdict(w, r, v)
       PROVE  Held'
  <2> DEFINE rec == [Finish(run[r], RunStatusOf(v)) EXCEPT !.verdict = v]
  <2>1. run' = [run EXCEPT ![r] = rec] /\ SetJob(w, r, "stored")
    BY <1>14 DEF StoreVerdict
  <2>2. RunStatusOf(v) \in RunStatus \ {"queued", "running"} /\ v \in Verdict
    BY DEF RunStatusOf, Verdict, RunStatus
  <2>3. rec.status = RunStatusOf(v)
    BY <2>2, LeftRows
  <2> HIDE DEF rec
  <2> QED
    BY <1>2, <1>6, <2>1, <2>2, <2>3
<1>15. ASSUME job[w][r].phase \in Closing, SetJob(w, r, "settle") \/ EndJob(w, r),
              NoNewHolder
       PROVE  Held'
  <2>1. PICK p \in {"settle", "idle"} : PhaseMoves(w, r, p)
    BY <1>2, <1>15, JobPhases
  <2>2. ~HoldsRow(w, r)'
    BY <1>15, ClosedStays DEF HoldsRow, Active
  <2> QED
    BY <1>3, <1>15, <2>1, <2>2, HeldJob
<1>16. CASE Restore(w, r)
  <2>1. NoNewHolder /\ job[w][r].phase \in Closing /\ EndJob(w, r)
    BY <1>16 DEF Restore, NoNewHolder, HolderStays, Closing
  <2> QED
    BY <1>15, <2>1
<1>17. CASE SealRelease(w, r)
  <2>1. run' = run \/ run' = [run EXCEPT ![r].release = "blocked"]
    BY <1>17 DEF SealRelease
  <2>2. /\ [run[r] EXCEPT !.release = "blocked"].status = run[r].status
        /\ [run[r] EXCEPT !.release = "blocked"].worker = run[r].worker
    BY <1>1 DEF Run
  <2>3. NoNewHolder
    BY <2>1, <2>2, SameHolders DEF HolderStays
  <2>4. job[w][r].phase \in Closing /\ SetJob(w, r, "settle")
    BY <1>17 DEF SealRelease, Closing
  <2> QED
    BY <1>15, <2>3, <2>4
<1>18. CASE Settle(w, r)
  <2>1. job[w][r].phase \in Closing /\ EndJob(w, r)
    BY <1>18 DEF Settle, Closing
  <2>2. CASE UNCHANGED run
    BY <1>15, <2>1, <2>2 DEF NoNewHolder, HolderStays
  <2>3. CASE Enqueue(task, run, run[r].task, TRUE)
    <3>1. NoNewHolder
      BY <1>1, <2>3, EnqueueHolders DEF NoNewHolder
    <3> QED
      BY <1>15, <2>1, <3>1
  <2>4. CASE run' = [run EXCEPT ![r] = FailRow(run[r])]
    <3>1. FailRow(run[r]).status = "failed"
      BY LeftRows
    <3>2. NoNewHolder
      BY <1>1, <2>4, <3>1 DEF NoNewHolder, HolderStays
    <3> QED
      BY <1>15, <2>1, <3>2
  <2> QED
    BY <1>18, <2>2, <2>3, <2>4 DEF Settle
<1> QED
  BY <1>7, <1>9, <1>10, <1>11, <1>12, <1>13, <1>14, <1>16, <1>17, <1>18
     DEF JobStep, SameTurn, NextTurn

LEMMA NextHeld ==
    ASSUME IInv, Held, [Next]_vars
    PROVE  Held'
<1>0. Sound
  BY NextSound
<1>1. ASSUME NEW t \in Tasks, Web(t)
      PROVE  Held'
  <2>1. NoNewHolder /\ job' = job
    <3>1. \A r \in RunIds : HolderStays(run[r], run'[r])
      BY <1>1, WebHolders
    <3>2. job' = job
      BY <1>1 DEF Web, StartRun, ReviewAgain, Resume, PatchTask, Stop, worker
    <3> QED
      BY <3>1, <3>2 DEF NoNewHolder
  <2> QED
    BY <1>0, <2>1, HeldStill
<1>2. CASE Answer
  <2>1. run \in [RunIds -> Run]
    BY DEF IInv, TypeOK
  <2>2. NewRun(web.task, web.seen, FALSE).status = "queued"
    BY DEF NewRun, NoRun
  <2>3. run' = run \/ run' = [run EXCEPT ![made + 1] = NewRun(web.task, web.seen, FALSE)]
    BY <1>2 DEF Answer
  <2>4. \A r \in RunIds : run'[r] = run[r] \/ run'[r] = NewRun(web.task, web.seen, FALSE)
    BY <2>1, <2>3
  <2>5. NoNewHolder /\ job' = job
    BY <1>2, <2>2, <2>4 DEF NoNewHolder, HolderStays, Answer, worker
  <2> QED
    BY <1>0, <2>5, HeldStill
<1>3. ASSUME NEW w \in Workers, Process(w)
      PROVE  Held'
  BY <1>0, <1>3, ProcessHeld
<1>4. ASSUME NEW w \in Workers, NEW r \in RunIds, JobStep(w, r)
      PROVE  Held'
  BY <1>0, <1>4, JobHeld
<1>5. CASE (\E r \in RunIds : OrphanExit(r)) \/ UNCHANGED vars
  <2>1. run' = run /\ job' = job
    BY <1>5 DEF OrphanExit, store, vars
  <2> QED
    BY <1>0, <2>1, HeldStill DEF NoNewHolder, HolderStays
<1>6. CASE Release
  BY <1>0, <1>6, ReleaseHolders, HeldStill
<1> QED
  BY <1>1, <1>2, <1>3, <1>4, <1>5, <1>6 DEF Next

(* No running row is forgotten: a row in the name of a live worker is      *)
(* being executed by it, whatever crashed, stalled, outlived its lease or  *)
(* was requeued before.                                                    *)
THEOREM RunningRowsHaveJobs == Spec => []RunningHasJob
<1>1. Init => IInv /\ Held
  <2>1. ASSUME Init, NEW w \in Workers, NEW r \in RunIds
        PROVE  job[w][r].phase = "idle" /\ run[r].status = "absent"
    BY <2>1 DEF Init, Idle, NoRun
  <2>2. Init => Held
    BY <2>1 DEF Held, Closing, HoldsRow
  <2> QED
    BY <2>2, InitIInv
<1>2. (IInv /\ Held) /\ [Next]_vars => (IInv /\ Held)'
  BY NextSound, SoundStep, NextHeld
<1>3. Held => RunningHasJob
  BY DEF Held, RunningHasJob
<1> QED
  BY <1>1, <1>2, <1>3, PTL DEF Spec

(* A job that has not stored its verdict, or given up, holds its row:      *)
(* 'running', in the name of its worker.  The unconditional UPDATEs of     *)
(* failAgentRun, markStopped and updateAgentRun rest on it; it needs       *)
(* workers whose heartbeats are never a lease TTL late.                    *)
THEOREM JobsOwnRows == MayStall = {} => (Spec => []JobOwnsRow)
<1> SUFFICES ASSUME MayStall = {}
             PROVE  Spec => []JobOwnsRow
  OBVIOUS
<1>1. IInv /\ SafeInv => JobOwnsRow
  <2> SUFFICES ASSUME IInv, SafeInv, NEW w \in Workers, NEW r \in RunIds,
                      job[w][r].phase \notin {"idle", "restore", "stored", "settle"}
               PROVE  HoldsRow(w, r)
    BY DEF JobOwnsRow
  <2>1. job[w][r].phase \in Phase
    BY DEF IInv, TypeOK
  <2>2. job[w][r].phase \in Working
    BY <2>1 DEF Phase, Working
  <2> QED
    BY <2>2 DEF SafeInv, JobRows
<1> QED
  BY <1>1, SafeInvariance, PTL

(* A row in 'cleanup_running' is in the queue of the worker that serves,   *)
(* also after any sequence of crashes and restarts.                        *)
THEOREM CleanupsAreQueued == MayStall = {} => (Spec => []CleanupHasExecutor)
<1> SUFFICES ASSUME MayStall = {}
             PROVE  Spec => []CleanupHasExecutor
  OBVIOUS
<1>1. SafeInv => CleanupHasExecutor
  BY DEF SafeInv
<1> QED
  BY <1>1, SafeInvariance, PTL

(* The row of a job with a Codex child, or with git work to do, is held by *)
(* its worker and the newest of its task.                                  *)
LEMMA HeldRow ==
    ASSUME IInv, SafeInv, NEW w \in Workers, NEW r \in RunIds, job[w][r].phase \in Working
    PROVE  Latest(run, r) /\ run[r].worker = w /\ run[r].task # NoTask /\ proc[w] # "down"
<1>1. run[r].status = "running" /\ run[r].worker = w
  BY WorkingRow
<1>2. Latest(run, r)
  BY <1>1 DEF IInv, RowsOK, Active
<1>3. proc[w] # "down"
  BY JobLives DEF Working
<1> QED
  BY <1>1, <1>2, <1>3 DEF Latest

LEMMA AgentRow ==
    ASSUME IInv, SafeInv, ~ChildrenOutlive, NEW q \in CodexRuns
    PROVE  /\ orphans = {} /\ q \in RunIds
           /\ \E w \in Workers : <<w, q>> \in agents /\ job[w][q].phase \in {"agent", "late"}
<1>1. orphans = {} /\ agents \subseteq Workers \X RunIds
  BY DEF SafeInv, ChildrenOfJobs, IInv, TypeOK
<1>2. PICK a \in agents : q = a[2]
  BY <1>1 DEF CodexRuns
<1>3. a[1] \in Workers /\ q \in RunIds /\ <<a[1], q>> \in agents
  BY <1>1, <1>2
<1> QED
  BY <1>1, <1>3 DEF SafeInv, ChildrenOfJobs

(* At most one Codex process works in the worktree of a task, whatever is  *)
(* stopped, requeued or restarted, when a worker's children die with it.   *)
THEOREM AgentsDoNotMeet ==
    MayStall = {} /\ ~ChildrenOutlive => (Spec => []OneAgentPerTask)
<1> SUFFICES ASSUME MayStall = {}, ~ChildrenOutlive
             PROVE  Spec => []OneAgentPerTask
  OBVIOUS
<1>1. ASSUME IInv, SafeInv
      PROVE  OneAgentPerTask
  <2>1. orphans = {} /\ agents \subseteq Workers \X RunIds
    BY <1>1 DEF SafeInv, ChildrenOfJobs, IInv, TypeOK
  <2>2. ASSUME NEW a \in agents
        PROVE  /\ a[1] \in Workers /\ a[2] \in RunIds /\ a = <<a[1], a[2]>>
               /\ Latest(run, a[2]) /\ run[a[2]].worker = a[1]
    <3>1. a[1] \in Workers /\ a[2] \in RunIds /\ a = <<a[1], a[2]>>
      BY <2>1
    <3>2. job[a[1]][a[2]].phase \in Working
      BY <1>1, <3>1 DEF SafeInv, ChildrenOfJobs, Working
    <3> QED
      BY <1>1, <3>1, <3>2, HeldRow
  <2>3. ASSUME NEW a \in agents, NEW b \in agents, run[a[2]].task = run[b[2]].task
        PROVE  a = b
    <3>1. a[2] <= b[2] /\ b[2] <= a[2] /\ a[2] \in Nat /\ b[2] \in Nat
      BY <2>2, <2>3 DEF Latest, RunIds
    <3>2. a[2] = b[2]
      BY <3>1
    <3> QED
      BY <2>2, <3>2
  <2> QED
    BY <2>1, <2>3 DEF OneAgentPerTask
<1>2. IInv /\ SafeInv => OneAgentPerTask
  BY <1>1
<1> QED
  BY <1>2, SafeInvariance, PTL

(* Git never removes the worktree of a task while Codex works in it:       *)
(* neither a stop with revert, nor a clean-up that was deferred and        *)
(* survived a restart, comes to the head of the queue beside an agent.     *)
THEOREM NoRevertMeetsAgent ==
    MayStall = {} /\ ~ChildrenOutlive => (Spec => []NoRevertUnderAgent)
<1> SUFFICES ASSUME MayStall = {}, ~ChildrenOutlive
             PROVE  Spec => []NoRevertUnderAgent
  OBVIOUS
<1>1. ASSUME IInv, SafeInv, NEW w \in Workers, chain[w] # <<>>,
             Head(chain[w]).op \in {"revert", "cleanup"}, NEW q \in CodexRuns,
             run[q].task = run[Head(chain[w]).run].task
      PROVE  FALSE
  <2> DEFINE s == chain[w]
             h == Head(chain[w]).run
  <2>1. s \in Seq(Op) /\ ChainGood(s, job[w], run)
    BY <1>1 DEF IInv, TypeOK, SafeInv, Chains
  <2>2. 1 \in DOMAIN s /\ Head(s) = s[1]
    BY <1>1, <2>1, TailEntries
  <2>3. s[1] \in Op /\ h \in RunIds
    <3>1. s[1] \in Op
      BY <2>1, <2>2, ElementOfSeq, LenProperties
    <3> QED
      BY <2>2, <3>1 DEF Op
  <2>4. PICK v \in Workers : job[v][q].phase \in {"agent", "late"}
    BY <1>1, AgentRow
  <2>5. q \in RunIds /\ job[v][q].phase \in Working
    BY <1>1, <2>4, AgentRow DEF Working
  <2>6. Latest(run, q) /\ run[q].worker = v /\ run[q].task # NoTask /\ proc[v] # "down"
    BY <1>1, <2>5, HeldRow
  <2>7. CASE Head(s).op = "revert"
    <3>1. job[w][h].phase = "revert"
      BY <2>1, <2>2, <2>7 DEF ChainGood
    <3>2. job[w][h].phase \in Working
      BY <3>1 DEF Working
    <3>3. Latest(run, h) /\ run[h].worker = w
      BY <1>1, <2>3, <3>2, HeldRow
    <3>4. q <= h /\ h <= q /\ q \in Nat /\ h \in Nat
      BY <1>1, <2>3, <2>5, <2>6, <3>3 DEF Latest, RunIds
    <3>5. q = h
      BY <3>4
    <3> QED
      BY <2>4, <2>6, <3>1, <3>3, <3>5
  <2>8. CASE Head(s).op = "cleanup"
    <3>1. w = v
      BY <1>1, <2>6 DEF SafeInv, OneWorker
    <3>2. job[w][q].phase \in Resting \/ job[w][q].phase = "ensure"
      <4>1. s[1].op = "cleanup" /\ run[q].task = run[s[1].run].task
        BY <1>1, <2>2, <2>8
      <4> HIDE DEF s
      <4> QED
        BY <2>1, <2>2, <2>5, <4>1 DEF ChainGood
    <3> QED
      BY <2>4, <3>1, <3>2 DEF Resting
  <2> QED
    BY <1>1, <2>7, <2>8
<1>2. IInv /\ SafeInv => NoRevertUnderAgent
  BY <1>1 DEF NoRevertUnderAgent
<1> QED
  BY <1>2, SafeInvariance, PTL

(* While a result is taken by the release worker, or its release has begun *)
(* and is not final, no run of its task is queued or coding - although the *)
(* worker may store a verdict in the middle of an enqueue.                 *)
THEOREM BegunReleasesExcludeRuns == MayStall = {} => (Spec => []BegunReleaseExcludesRun)
<1> SUFFICES ASSUME MayStall = {}
             PROVE  Spec => []BegunReleaseExcludesRun
  OBVIOUS
<1>1. ASSUME IInv, SafeInv, NEW r \in RunIds, InRelease(r),
             NEW q \in RunIds, run[q].task = run[r].task, Active(run[q])
      PROVE  FALSE
  <2>1. ReleaseCandidate(run[r])
    <3>1. CASE rel.run = r
      BY <1>1, <3>1 DEF SafeInv, Releases, RunIds
    <3>2. CASE Begun(run[r])
      BY <1>1, <3>2 DEF SafeInv, Releases, RowFine
    <3> QED
      BY <1>1, <3>1, <3>2 DEF InRelease, Begun
  <2>2. Latest(run, r)
    BY <1>1 DEF SafeInv, ReleaseOfNewest
  <2>3. Latest(run, q)
    BY <1>1 DEF IInv, RowsOK
  <2>4. q <= r /\ r <= q /\ q \in Nat /\ r \in Nat
    BY <1>1, <2>2, <2>3 DEF Latest, RunIds
  <2> QED
    BY <1>1, <2>1, <2>4 DEF ReleaseCandidate, Active
<1>2. IInv /\ SafeInv => BegunReleaseExcludesRun
  BY <1>1 DEF BegunReleaseExcludesRun, HasActiveRun
<1> QED
  BY <1>2, SafeInvariance, PTL

-----------------------------------------------------------------------------
(* Final releases.                                                         *)

(* A release that is final stays.                                          *)
Settled(rec, new) == rec.release \in Final => new.release = rec.release

LEMMA PendingSettled ==
    ASSUME NEW rec, NEW new, RowFine(rec), rec.status \in {"absent", "queued", "running"}
    PROVE  Settled(rec, new)
BY DEF RowFine, Settled, Final

LEMMA CalmSettled ==
    ASSUME IInv, SafeInv, CalmGrowth(run, made, run', made'), NEW r \in RunIds
    PROVE  Settled(run[r], run'[r])
<1>1. RowFine(run[r]) /\ made \in Nat
  BY DEF SafeInv, Releases, IInv, TypeOK
<1>2. CASE Calm(run[r], run'[r])
  <2>1. run[r].release = "pending" \/ ~Active(run[r])
    BY <1>1 DEF RowFine, Active
  <2> QED
    BY <1>2, <2>1 DEF Calm, Settled, Final
<1>3. CASE r = made + 1
  <2>1. r > made
    BY <1>1, <1>3
  <2>2. run[r].status = "absent"
    BY <2>1 DEF IInv, RowsOK
  <2> QED
    BY <1>1, <2>2, PendingSettled
<1> QED
  BY <1>2, <1>3 DEF CalmGrowth, CalmTable

LEMMA RecoverySettled ==
    ASSUME IInv, SafeInv, NEW w \in Workers, Process(w), NEW r \in RunIds
    PROVE  Settled(run[r], run'[r])
<1>1. run \in [RunIds -> Run] /\ run[r] \in Run
  BY DEF IInv, TypeOK
<1>2. OrphanRow(run[r]).release = run[r].release /\ RequeueRow(run[r], w).release = run[r].release
  BY <1>1 DEF OrphanRow, RequeueRow, QueuedAgain, Finish, Run
<1>3. CASE Start(w)
  BY <1>2, <1>3 DEF Start, Settled
<1>4. CASE StopEnd(w)
  BY <1>2, <1>4 DEF StopEnd, Settled
<1>5. CASE Crash(w)
  <2>1. [run[r] EXCEPT !.worker = Gone].release = run[r].release
    BY <1>1 DEF Run
  <2>2. run'[r] = run[r] \/ run'[r] = [run[r] EXCEPT !.worker = Gone]
    BY <1>5 DEF Crash
  <2> QED
    BY <2>1, <2>2 DEF Settled
<1>6. CASE Stall(w) \/ Heartbeat(w) \/ StopBegin(w) \/ ZombieExit(w)
  BY <1>6 DEF Stall, Heartbeat, StopBegin, ZombieExit, store, Settled
<1>7. ASSUME NEW q \in RunIds, Claim(w, q) \/ ClaimCleanup(w, q) \/ CleanedUp(w, q)
      PROVE  Settled(run[r], run'[r])
  <2>1. \A q2 \in RunIds \ {q} : run'[q2] = run[q2]
    BY <1>1, <1>7 DEF Claim, ClaimCleanup, CleanedUp
  <2>2. run[q] \in Run
    BY <1>1
  <2>3. run'[q].release = run[q].release
    <3>1. CASE Claim(w, q)
      <4>1. run'[q] = [run[q] EXCEPT !.status = "running", !.worker = w]
        BY <1>1, <3>1 DEF Claim
      <4> QED
        BY <2>2, <4>1 DEF Run
    <3>2. CASE ClaimCleanup(w, q) \/ CleanedUp(w, q)
      <4>1. PICK c \in Control : run'[q] = run[q] \/ run'[q] = [run[q] EXCEPT !.control = c]
        BY <1>1, <3>2 DEF ClaimCleanup, CleanedUp, Control
      <4> QED
        BY <2>2, <4>1 DEF Run
    <3> QED
      BY <1>7, <3>1, <3>2
  <2> QED
    BY <2>1, <2>3 DEF Settled
<1> QED
  BY <1>3, <1>4, <1>5, <1>6, <1>7 DEF Process

LEMMA JobSettled ==
    ASSUME IInv, SafeInv, NEW w \in Workers, NEW q \in RunIds, JobStep(w, q), NEW r \in RunIds
    PROVE  Settled(run[r], run'[r])
<1>1. run \in [RunIds -> Run] /\ run[q] \in Run /\ RowFine(run[q])
  BY DEF IInv, TypeOK, SafeInv, Releases
<1>2. CASE job[w][q].phase \in Working
  <2>1. run[q].status = "running"
    BY <1>2, WorkingRow
  <2>2. Settled(run[q], run'[q])
    BY <1>1, <2>1, PendingSettled
  <2>3. \A v \in RunIds \ {q} : run'[v] = run[v]
    <3>1. ~Restore(w, q) /\ ~SealRelease(w, q) /\ ~Settle(w, q)
      BY <1>2 DEF Restore, SealRelease, Settle, Working
    <3>2. CASE Begin(w, q) \/ Ensured(w, q) \/ Spawn(w, q) \/ Poll(w, q) \/ AgentExit(w, q)
      BY <1>1, <3>2 DEF Begin, Ensured, Requeue, Spawn, Poll, AgentExit
    <3>3. CASE GiveBack(w, q) \/ HonourStop(w, q) \/ Reverted(w, q) \/ Inspect(w, q)
      BY <1>1, <3>3 DEF GiveBack, Requeue, HonourStop, Reverted, Inspect
    <3>4. CASE Fail(w, q) \/ \E v \in Verdicts : StoreVerdict(w, q, v)
      BY <1>1, <3>4 DEF Fail, Requeue, StoreVerdict
    <3> QED
      BY <3>1, <3>2, <3>3, <3>4 DEF JobStep, SameTurn, NextTurn
  <2> QED
    BY <2>2, <2>3 DEF Settled
<1>3. CASE job[w][q].phase \notin Working
  <2>1. Restore(w, q) \/ SealRelease(w, q) \/ Settle(w, q)
    BY <1>3 DEF JobStep, SameTurn, NextTurn, Begin, Ensured, Spawn, Poll, AgentExit, GiveBack,
                HonourStop, Reverted, Inspect, Fail, StoreVerdict, Working
  <2>2. CASE Restore(w, q)
    BY <2>2 DEF Restore, Settled
  <2>3. CASE SealRelease(w, q)
    <3>1. run' = run \/ (/\ run[q].verdict \in {"review", "blocked"}
                         /\ run' = [run EXCEPT ![q].release = "blocked"])
      BY <2>3 DEF SealRelease
    <3>2. run[q].verdict \in {"review", "blocked"} => run[q].release # "released"
      BY <1>1 DEF RowFine, Begun, ReleaseCandidate
    <3>3. CASE run' = run
      BY <3>3 DEF Settled
    <3>4. CASE run' # run
      <4>1. run'[q].release = "blocked" /\ \A v \in RunIds \ {q} : run'[v] = run[v]
        BY <1>1, <3>1, <3>4 DEF Run
      <4> QED
        BY <3>1, <3>2, <3>4, <4>1 DEF Settled, Final
    <3> QED
      BY <3>3, <3>4
  <2>4. CASE Settle(w, q)
    <3>1. CASE UNCHANGED <<run, made>>
      BY <3>1 DEF Settled
    <3>2. CASE Enqueue(task, run, run[q].task, TRUE)
      <4>1. run[q].task \in Tasks
        BY <2>4, JobRow DEF Settle
      <4>2. task \in [Tasks -> Task] /\ FineTable(run) /\ RowsOK(run, made)
        BY DEF IInv, TypeOK, SafeInv, Releases, FineTable
      <4>3. CalmGrowth(run, made, run', made')
        BY <3>2, <4>1, <4>2, EnqueueCalm
      <4> QED
        BY <4>3, CalmSettled
    <3>3. CASE /\ run[q].verdict \in {"review", "blocked"}
               /\ run' = [run EXCEPT ![q] = FailRow(@)]
      <4>1. run[q].release # "released"
        BY <1>1, <3>3 DEF RowFine, Begun, ReleaseCandidate
      <4>2. FailRow(run[q]).release = "blocked"
        BY <1>1 DEF FailRow, Finish, Run
      <4>3. run'[q].release = "blocked" /\ \A v \in RunIds \ {q} : run'[v] = run[v]
        BY <1>1, <3>3, <4>2
      <4> QED
        BY <4>1, <4>3 DEF Settled, Final
    <3> QED
      BY <2>4, <3>1, <3>2, <3>3 DEF Settle
  <2> QED
    BY <2>1, <2>2, <2>3, <2>4
<1> QED
  BY <1>2, <1>3

(* What FinalReleaseStays says of one row.                                 *)
Reopened(r) ==
    run[r].release \in Final /\ run'[r].release # run[r].release =>
        /\ run[r].release = "blocked"
        /\ run'[r].release \in {"retrying", "waiting_mainline"}
        /\ Latest(run, r)

LEMMA ReleaseReopened ==
    ASSUME IInv, Release, NEW r \in RunIds
    PROVE  Reopened(r)
<1>1. run \in [RunIds -> Run] /\ run[r] \in Run
  BY DEF IInv, TypeOK
<1>2. CASE UNCHANGED run
  BY <1>2 DEF Reopened
<1>3. ASSUME NEW q \in RunIds, NEW s \in ReleaseStatus, RelWrite(q, s), Open(q)
      PROVE  Reopened(r)
  <2>1. run[q].release \notin Final /\ \A v \in RunIds \ {q} : run'[v] = run[v]
    BY <1>1, <1>3 DEF RelWrite, Open
  <2> QED
    BY <2>1 DEF Reopened
<1>4. ASSUME NEW q \in RunIds, NEW s \in ReleaseStatus, RelReopen(q, s)
      PROVE  Reopened(r)
  <2>1. /\ s \in {"retrying", "waiting_mainline"} /\ run[q].release = "blocked" /\ Latest(run, q)
        /\ run' = [run EXCEPT ![q].release = s]
    BY <1>4 DEF RelReopen, RelWrite
  <2>2. run[q] \in Run
    BY <1>1
  <2>3. run'[q].release = s /\ \A v \in RunIds \ {q} : run'[v] = run[v]
    BY <1>1, <2>1, <2>2 DEF Run
  <2> QED
    BY <2>1, <2>3 DEF Reopened
<1>5. CASE RelDrop \/ \E q \in RunIds : RelTake(q)
  BY <1>2, <1>5 DEF RelDrop, RelTake
<1>6. ASSUME NEW q \in RunIds, NEW s \in ReleaseStatus, RelProcess(q, s) \/ RelPutBack(q, s)
      PROVE  Reopened(r)
  BY <1>3, <1>6 DEF RelProcess, RelPutBack
<1>7. ASSUME NEW q \in RunIds, RelFinish(q) \/ \E s \in TaskStatus : RelBlock(q, s)
      PROVE  Reopened(r)
  <2>1. "released" \in ReleaseStatus /\ "blocked" \in ReleaseStatus
    BY DEF ReleaseStatus
  <2> QED
    BY <1>3, <1>7, <2>1 DEF RelFinish, RelBlock
<1> QED
  BY <1>4, <1>5, <1>6, <1>7 DEF Release

(* A final release_status stays: nothing but the reopening of the newest   *)
(* run's blocked release changes it - no late verdict, no new run, no      *)
(* recovery, no release worker that lost its item.                         *)
THEOREM FinalReleasesStay == MayStall = {} => (Spec => FinalReleaseStays)
<1> SUFFICES ASSUME MayStall = {}
             PROVE  Spec => FinalReleaseStays
  OBVIOUS
<1> DEFINE Inv == IInv /\ SafeInv
           Step == \A r \in RunIds : Reopened(r)
<1>1. ASSUME IInv, SafeInv, [Next]_vars, NEW r \in RunIds
      PROVE  Reopened(r)
  <2>1. CASE Settled(run[r], run'[r])
    BY <2>1 DEF Settled, Reopened
  <2>2. ASSUME NEW t \in Tasks, Web(t)
        PROVE  Settled(run[r], run'[r])
    <3>1. FineTable(run)
      BY <1>1 DEF SafeInv, Releases, FineTable
    <3> QED
      BY <1>1, <2>2, <3>1, WebCalm, CalmSettled
  <2>3. CASE Answer
    BY <1>1, <2>1, <2>3, AnswerCalm, CalmSettled
  <2>4. ASSUME NEW w \in Workers, Process(w)
        PROVE  Settled(run[r], run'[r])
    BY <1>1, <2>4, RecoverySettled
  <2>5. ASSUME NEW w \in Workers, NEW q \in RunIds, JobStep(w, q)
        PROVE  Settled(run[r], run'[r])
    BY <1>1, <2>5, JobSettled
  <2>6. CASE (\E q \in RunIds : OrphanExit(q)) \/ UNCHANGED vars
    BY <2>6 DEF OrphanExit, store, vars, Reopened
  <2>7. CASE Release
    BY <1>1, <2>7, ReleaseReopened
  <2> QED
    BY <1>1, <2>1, <2>2, <2>3, <2>4, <2>5, <2>6, <2>7 DEF Next
<1>2. Inv /\ [Next]_vars => [Step]_vars
  BY <1>1
<1>3. Step <=> \A r \in RunIds :
        run[r].release \in Final /\ run'[r].release # run[r].release =>
            /\ run[r].release = "blocked"
            /\ run'[r].release \in {"retrying", "waiting_mainline"}
            /\ Latest(run, r)
  BY DEF Reopened
<1>4. Spec => []Inv
  BY SafeInvariance
<1> QED
  BY <1>2, <1>3, <1>4, PTL DEF Spec, FinalReleaseStays
=============================================================================
