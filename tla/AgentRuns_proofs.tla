--------------------------- MODULE AgentRuns_proofs ---------------------------
(***************************************************************************)
(* Proofs about AgentRuns, for any tasks, slots and number of runs, with   *)
(* workers that crash, stall and outlive their lease, and with commits of  *)
(* the worker inside an enqueue of the web process: the tables are         *)
(* well-typed, an active run is the newest run of its task, and every step *)
(* of the system is a step of RunLedger.                                   *)
(*                                                                         *)
(* The argument.  Every statement of the code does one of two things to    *)
(* the agent_runs table: it rewrites rows without making an active one of  *)
(* a row that was not (Kept), or it also inserts one queued run, of a task *)
(* that has no active run (Grown).  Both preserve RowsOK, the inductive    *)
(* strengthening of ActiveIsLatest, and both are steps of RunLedger.       *)
(***************************************************************************)
EXTENDS AgentRuns, SequenceTheorems, TLAPS

USE RowsAssumption, AgentRunsAssumption

(* Runs are numbered in the order of their insertion, and the active ones  *)
(* are the newest of their tasks.                                          *)
RowsOK(R, n) ==
    /\ R \in [RunIds -> Run]
    /\ n \in 0..MaxRuns
    /\ \A r \in RunIds : R[r].task = NoTask <=> r > n
    /\ \A r \in RunIds : R[r].status = "absent" <=> r > n
    /\ \A r \in RunIds : Active(R[r]) => Latest(R, r)

(* A row is rewritten, without becoming active. *)
KeptRow(rec, new) ==
    /\ new \in Run
    /\ new.task = rec.task
    /\ new.status = "absent" <=> rec.status = "absent"
    /\ Active(new) => Active(rec)

Kept(R, S) ==
    /\ S = [r \in RunIds |-> S[r]]
    /\ \A r \in RunIds : KeptRow(R[r], S[r])

(* At most one row is inserted, the next one, for a task without an active *)
(* run.                                                                    *)
Grown(R, n, S, m) ==
    \/ Kept(R, S) /\ m = n
    \/ /\ m = n + 1 /\ m \in RunIds
       /\ S = [r \in RunIds |-> S[r]]
       /\ \A r \in RunIds \ {m} : KeptRow(R[r], S[r])
       /\ S[m] \in Run /\ S[m].task \in Tasks /\ S[m].status = "queued"
       /\ \A r \in RunIds \ {m} : S[r].task = S[m].task => ~Active(S[r])

(* A job exists only for an inserted row. *)
JobsMade == \A w \in Workers, r \in RunIds : job[w][r].phase # "idle" => r <= made

IInv == TypeOK /\ RowsOK(run, made) /\ JobsMade

-----------------------------------------------------------------------------
(* The two kinds of change to the table.                                   *)

(* What either kind of change leads to is again a well-formed table, in    *)
(* which the active runs are the newest ones.                              *)
LEMMA GrownOK ==
    ASSUME NEW R, NEW n, NEW S, NEW m, RowsOK(R, n), Grown(R, n, S, m)
    PROVE  RowsOK(S, m)
<1>1. CASE Kept(R, S) /\ m = n
  <2>1. S \in [RunIds -> Run]
    BY <1>1 DEF Kept, KeptRow
  <2>2. \A r \in RunIds : Active(S[r]) => Latest(S, r)
    BY <1>1 DEF Kept, KeptRow, RowsOK, Latest
  <2> QED
    BY <1>1, <2>1, <2>2 DEF Kept, KeptRow, RowsOK
<1>2. CASE ~(Kept(R, S) /\ m = n)
  <2>0. /\ m = n + 1 /\ m \in RunIds
        /\ S = [r \in RunIds |-> S[r]]
        /\ \A r \in RunIds \ {m} : KeptRow(R[r], S[r])
        /\ S[m] \in Run /\ S[m].task \in Tasks /\ S[m].status = "queued"
        /\ \A r \in RunIds \ {m} : S[r].task = S[m].task => ~Active(S[r])
    BY <1>2 DEF Grown
  <2>1. S \in [RunIds -> Run]
    BY <2>0 DEF KeptRow
  <2>2. /\ n \in 0..MaxRuns /\ m \in 0..MaxRuns
        /\ \A r \in RunIds : r > m <=> (r > n /\ r # m)
    BY <2>0 DEF RowsOK, RunIds
  <2>3. \A r \in RunIds : S[r].task = NoTask <=> r > m
    BY <2>0, <2>2 DEF KeptRow, RowsOK
  <2>4. \A r \in RunIds : S[r].status = "absent" <=> r > m
    BY <2>0, <2>2 DEF KeptRow, RowsOK
  <2>5. ASSUME NEW r \in RunIds, Active(S[r])
        PROVE  Latest(S, r)
    <3>1. CASE r = m
      BY <3>1, <2>0, <2>3 DEF Latest, RunIds
    <3>2. CASE r # m
      BY <3>2, <2>0, <2>5 DEF Latest, KeptRow, RowsOK
    <3> QED
      BY <3>1, <3>2
  <2> QED
    BY <2>1, <2>2, <2>3, <2>4, <2>5 DEF RowsOK
<1> QED
  BY <1>1, <1>2

(* A rewritten table may be rewritten again. *)
LEMMA KeptTwice ==
    ASSUME NEW R, NEW S, NEW T, Kept(R, S), Kept(S, T)
    PROVE  Kept(R, T)
BY DEF Kept, KeptRow

(* A table may be rewritten before a run is inserted (PATCH and resume do  *)
(* both in one request).                                                   *)
LEMMA KeptThenGrown ==
    ASSUME NEW R, NEW n, NEW S, NEW T, NEW m, Kept(R, S), Grown(S, n, T, m)
    PROVE  Grown(R, n, T, m)
<1>1. CASE Kept(S, T) /\ m = n
  BY <1>1, KeptTwice DEF Grown
<1>2. CASE ~(Kept(S, T) /\ m = n)
  BY <1>2 DEF Grown, Kept, KeptRow
<1> QED
  BY <1>1, <1>2

(* Rewriting one row rewrites the table. *)
LEMMA OneRow ==
    ASSUME NEW R \in [RunIds -> Run], NEW r, NEW rec, r \in RunIds => KeptRow(R[r], rec)
    PROVE  Kept(R, [R EXCEPT ![r] = rec])
BY DEF Kept, KeptRow

(* Not touching the table is a way of rewriting it. *)
LEMMA SameRows ==
    ASSUME NEW R \in [RunIds -> Run]
    PROVE  Kept(R, R)
BY DEF Kept, KeptRow

-----------------------------------------------------------------------------
(* The statements of TaskStore.                                            *)

(* Statements that close a row. *)
LEMMA ClosedRows ==
    ASSUME NEW rec \in Run, rec.status # "absent"
    PROVE  /\ \A s \in {"completed", "needs_review", "blocked", "failed"} :
                /\ KeptRow(rec, Finish(rec, s))
                /\ \A v \in Verdict : KeptRow(rec, [Finish(rec, s) EXCEPT !.verdict = v])
           /\ KeptRow(rec, FailRow(rec))
           /\ KeptRow(rec, StoppedRow(rec))
           /\ KeptRow(rec, StaleRow(rec))
           /\ \A c \in Control : KeptRow(rec, DequeuedRow(rec, c))
<1>1. ASSUME NEW s \in {"completed", "needs_review", "blocked", "failed"}
      PROVE  /\ Finish(rec, s) \in Run
             /\ Finish(rec, s).task = rec.task
             /\ Finish(rec, s).status = s
             /\ KeptRow(rec, Finish(rec, s))
  BY <1>1 DEF Finish, Run, RunStatus, KeptRow, Active
<1>2. ASSUME NEW s \in {"completed", "needs_review", "blocked", "failed"}, NEW v \in Verdict
      PROVE  KeptRow(rec, [Finish(rec, s) EXCEPT !.verdict = v])
  BY <1>1 DEF Run, KeptRow, Active
<1>3. KeptRow(rec, FailRow(rec))
  BY <1>1 DEF FailRow, Run, ReleaseStatus, KeptRow, Active
<1>4. KeptRow(rec, StoppedRow(rec))
  BY <1>1 DEF StoppedRow, Run, Control, ReleaseStatus, KeptRow, Active
<1>5. KeptRow(rec, StaleRow(rec))
  BY <1>1 DEF StaleRow, Run, Control, KeptRow, Active
<1>6. ASSUME NEW c \in Control
      PROVE  KeptRow(rec, DequeuedRow(rec, c))
  BY DEF DequeuedRow, Run, RunStatus, ReleaseStatus, KeptRow, Active
<1> QED
  BY <1>1, <1>2, <1>3, <1>4, <1>5, <1>6

(* Statements that change neither the status nor the task of a row. *)
LEMMA TouchedRows ==
    ASSUME NEW rec \in Run
    PROVE  /\ KeptRow(rec, rec)
           /\ \A c \in Control : KeptRow(rec, [rec EXCEPT !.control = c])
           /\ \A s \in ReleaseStatus : KeptRow(rec, [rec EXCEPT !.release = s])
           /\ KeptRow(rec, [rec EXCEPT !.worker = Gone])
<1>1. KeptRow(rec, rec)
  BY DEF KeptRow
<1>2. ASSUME NEW c \in Control
      PROVE  KeptRow(rec, [rec EXCEPT !.control = c])
  BY DEF KeptRow, Run, Active
<1>3. ASSUME NEW s \in ReleaseStatus
      PROVE  KeptRow(rec, [rec EXCEPT !.release = s])
  BY DEF KeptRow, Run, Active
<1>4. KeptRow(rec, [rec EXCEPT !.worker = Gone])
  BY DEF KeptRow, Run, Active
<1> QED
  BY <1>1, <1>2, <1>3, <1>4

(* Statements that recover a running row: it is active already. *)
LEMMA RecoveredRows ==
    ASSUME NEW rec \in Run
    PROVE  /\ rec.status = "running" => KeptRow(rec, QueuedAgain(rec))
           /\ \A w \in Workers : KeptRow(rec, RequeueRow(rec, w))
           /\ KeptRow(rec, OrphanRow(rec))
           /\ \A w \in Workers : rec.status = "queued" =>
                KeptRow(rec, [rec EXCEPT !.status = "running", !.worker = w])
<1>1. rec.status = "running" => KeptRow(rec, QueuedAgain(rec))
  BY DEF KeptRow, Run, RunStatus, Control, QueuedAgain, Active
<1>2. \A w \in Workers : KeptRow(rec, RequeueRow(rec, w))
  BY <1>1, TouchedRows DEF RequeueRow
<1>3. KeptRow(rec, OrphanRow(rec))
  <2>1. KeptRow(rec, rec) /\ KeptRow(rec, [rec EXCEPT !.control = "stop_revert"])
    BY TouchedRows DEF Control
  <2>2. rec.status = "running" =>
          /\ KeptRow(rec, Finish(rec, "blocked"))
          /\ KeptRow(rec, [Finish(rec, "blocked") EXCEPT !.control = ""])
    <3>1. rec.status = "running" => KeptRow(rec, Finish(rec, "blocked"))
      BY ClosedRows
    <3>2. ASSUME rec.status = "running"
          PROVE  KeptRow(rec, [Finish(rec, "blocked") EXCEPT !.control = ""])
      BY <3>1, <3>2 DEF KeptRow, Run, Control, Active
    <3> QED
      BY <3>1, <3>2
  <2> QED
    BY <1>1, <2>1, <2>2 DEF OrphanRow
<1>4. \A w \in Workers : rec.status = "queued" =>
        KeptRow(rec, [rec EXCEPT !.status = "running", !.worker = w])
  BY DEF KeptRow, Run, RunStatus, Active
<1> QED
  BY <1>1, <1>2, <1>3, <1>4

(* patch() rewrites rows. *)
LEMMA PatchKeeps ==
    ASSUME NEW R \in [RunIds -> Run], NEW t \in Tasks, NEW aiOff, NEW closes
    PROVE  Kept(R, PatchRuns(R, t, aiOff, closes))
<1> SUFFICES ASSUME NEW r \in RunIds
             PROVE  KeptRow(R[r], PatchRuns(R, t, aiOff, closes)[r])
  BY DEF Kept, PatchRuns
<1>1. R[r] \in Run
  OBVIOUS
<1>2. {"stop"} \subseteq Control
  BY DEF Control
<1> QED
  BY <1>1, <1>2, TouchedRows, ClosedRows DEF PatchRuns

(* Superseding a release marker rewrites rows. *)
LEMMA SupersedeKeeps ==
    ASSUME NEW R \in [RunIds -> Run], NEW t \in Tasks
    PROVE  Kept(R, Supersede(R, t))
BY TouchedRows DEF Kept, Supersede, ReleaseStatus

(* The row a task without an active run may get. *)
LEMMA InsertGrows ==
    ASSUME NEW R, NEW n, RowsOK(R, n), n < MaxRuns,
           NEW t \in Tasks, NEW s \in TaskStatus, NEW auto \in BOOLEAN,
           ~HasActiveRun(R, t)
    PROVE  Grown(R, n, [R EXCEPT ![n + 1] = NewRun(t, s, auto)], n + 1)
<1> DEFINE S == [R EXCEPT ![n + 1] = NewRun(t, s, auto)]
<1>1. n + 1 \in RunIds
  BY DEF RowsOK, RunIds
<1>2. /\ NewRun(t, s, auto) \in Run
      /\ NewRun(t, s, auto).task = t
      /\ NewRun(t, s, auto).status = "queued"
  BY DEF NewRun, NoRun, Run, RunStatus, Control, ReleaseStatus, Verdict, TaskStatus
<1>3. \A r \in RunIds \ {n + 1} : KeptRow(R[r], S[r])
  BY TouchedRows DEF RowsOK
<1>4. \A r \in RunIds \ {n + 1} : S[r].task = S[n + 1].task => ~Active(S[r])
  BY <1>1, <1>2 DEF RowsOK, HasActiveRun
<1> QED
  BY <1>1, <1>2, <1>3, <1>4 DEF Grown, RowsOK

(* enqueueAgentRun in one piece ... *)
LEMMA EnqueueGrows ==
    ASSUME NEW T \in [Tasks -> Task], NEW R, RowsOK(R, made),
           NEW t \in Tasks, NEW auto \in BOOLEAN, Enqueue(T, R, t, auto)
    PROVE  Grown(R, made, run', made')
<1>1. Kept(R, R) /\ Kept(R, Supersede(R, t))
  BY SameRows, SupersedeKeeps DEF RowsOK
<1>2. CASE ~Inserts(T, R, t)
  <2>1. made' = made /\ (run' = R \/ run' = Supersede(R, t))
    BY <1>2 DEF Enqueue, EnqueueRuns
  <2> QED
    BY <1>1, <2>1 DEF Grown
<1>3. CASE Inserts(T, R, t)
  <2>1. /\ made < MaxRuns /\ made' = made + 1
        /\ run' = [Supersede(R, t) EXCEPT ![made + 1] = NewRun(t, T[t].status, auto)]
    BY <1>3 DEF Enqueue, EnqueueRuns, Inserts
  <2>2. RowsOK(Supersede(R, t), made)
    BY <1>1, GrownOK DEF Grown
  <2>3. ~HasActiveRun(Supersede(R, t), t) /\ T[t].status \in TaskStatus
    BY <1>3 DEF Inserts, Task
  <2>4. Grown(Supersede(R, t), made, run', made')
    BY <2>1, <2>2, <2>3, InsertGrows
  <2> QED
    BY <1>1, <2>4, KeptThenGrown
<1> QED
  BY <1>2, <1>3

(* ... and as far as a web request gets before the worker may commit.      *)
LEMMA AskGrows ==
    ASSUME NEW T \in [Tasks -> Task], NEW R, RowsOK(R, made), NEW t \in Tasks,
           web \in [task : Tasks \cup {NoTask}, seen : TaskStatus], Ask(T, R, t)
    PROVE  /\ Grown(R, made, run', made')
           /\ web' \in [task : Tasks \cup {NoTask}, seen : TaskStatus]
<1>1. Kept(R, run') /\ made' = made
  BY SameRows, SupersedeKeeps DEF Ask, RowsOK
<1>2. web' \in [task : Tasks \cup {NoTask}, seen : TaskStatus]
  BY DEF Ask, NoRequest, Task, TaskStatus
<1> QED
  BY <1>1, <1>2 DEF Grown

-----------------------------------------------------------------------------
(* What an action has to show: the types of everything but agent_runs, and *)
(* one of the two kinds of change to agent_runs.                           *)

OtherTypes ==
    /\ task \in [Tasks -> Task]
    /\ proc \in [Workers -> ProcState]
    /\ lease \in Workers \cup {NoWorker, Gone}
    /\ silent \subseteq Workers
    /\ job \in [Workers -> [RunIds -> [phase : Phase, stop : Control]]]
    /\ chain \in [Workers -> Seq(Op)]
    /\ agents \subseteq Workers \X RunIds
    /\ orphans \subseteq RunIds
    /\ rel \in [run : 0..MaxRuns, seen : TaskStatus]
    /\ web \in [task : Tasks \cup {NoTask}, seen : TaskStatus]

Sound == OtherTypes' /\ JobsMade' /\ Grown(run, made, run', made')

LEMMA SoundStep ==
    ASSUME IInv, Sound
    PROVE  IInv'
<1>1. RowsOK(run, made)' /\ RowsOK(run', made')
  BY GrownOK DEF IInv, Sound, RowsOK
<1> QED
  BY <1>1 DEF IInv, Sound, OtherTypes, TypeOK, RowsOK

LEMMA InitIInv == Init => IInv
<1> SUFFICES ASSUME Init
             PROVE  IInv
  OBVIOUS
<1>1. NoRun \in Run /\ NoRun.task = NoTask /\ NoRun.status = "absent"
  BY DEF NoRun, Run, RunStatus, Control, ReleaseStatus, Verdict, TaskStatus
<1>2. run \in [RunIds -> Run] /\ made \in 0..MaxRuns
  BY <1>1 DEF Init
<1>3. RowsOK(run, made)
  BY <1>1, <1>2 DEF Init, RowsOK, RunIds, Active
<1>4. task \in [Tasks -> Task]
  <2>1. [status |-> "new", ai |-> TRUE] \in Task
    BY DEF Task, TaskStatus
  <2> QED
    BY <2>1 DEF Init
<1>5. job \in [Workers -> [RunIds -> [phase : Phase, stop : Control]]]
  BY DEF Init, Idle, Phase, Control
<1>6. chain \in [Workers -> Seq(Op)]
  BY DEF Init
<1>7. /\ rel \in [run : 0..MaxRuns, seen : TaskStatus]
      /\ web \in [task : Tasks \cup {NoTask}, seen : TaskStatus]
  BY DEF Init, NoRelease, NoRequest, TaskStatus
<1>8. TypeOK
  BY <1>2, <1>4, <1>5, <1>6, <1>7 DEF Init, TypeOK, ProcState
<1>9. JobsMade
  BY DEF Init, JobsMade, Idle
<1> QED
  BY <1>3, <1>8, <1>9 DEF IInv

(* When no job begins or ends a phase, growth is all there is to show.     *)
LEMMA GrowsSound ==
    ASSUME IInv, OtherTypes', Grown(run, made, run', made'), job' = job
    PROVE  Sound
<1>1. made \in Nat /\ (made' = made \/ made' = made + 1)
  BY DEF IInv, RowsOK, Grown
<1>2. \A r \in RunIds : r <= made => r <= made'
  BY <1>1 DEF RunIds
<1> QED
  BY <1>2 DEF Sound, IInv, JobsMade

-----------------------------------------------------------------------------
(* The web process: it writes the two tables and its own request.          *)

LEMMA WebSound ==
    ASSUME IInv, UNCHANGED <<worker, rel>>,
           task' \in [Tasks -> Task],
           web' \in [task : Tasks \cup {NoTask}, seen : TaskStatus],
           Grown(run, made, run', made')
    PROVE  Sound
<1>1. OtherTypes' /\ job' = job
  BY DEF IInv, TypeOK, OtherTypes, worker
<1> QED
  BY <1>1, GrowsSound

(* The status and the AI mode of a task are set.                           *)
LEMMA TaskTypes ==
    ASSUME NEW T \in [Tasks -> Task], NEW t, NEW s \in TaskStatus
    PROVE  /\ [T EXCEPT ![t].status = s] \in [Tasks -> Task]
           /\ \A ai \in BOOLEAN : [T EXCEPT ![t] = [status |-> s, ai |-> ai]] \in [Tasks -> Task]
           /\ t \in Tasks => T[t].status \in TaskStatus /\ T[t].ai \in BOOLEAN
BY DEF Task

LEMMA StartRunSound ==
    ASSUME IInv, NEW t \in Tasks, StartRun(t)
    PROVE  Sound
<1>1. /\ Grown(run, made, run', made')
      /\ web' \in [task : Tasks \cup {NoTask}, seen : TaskStatus]
  BY AskGrows DEF StartRun, IInv, TypeOK
<1> QED
  BY <1>1, WebSound DEF StartRun, IInv, TypeOK

LEMMA AnswerSound ==
    ASSUME IInv, Answer
    PROVE  Sound
<1>1. web.task \in Tasks /\ web.seen \in TaskStatus
  BY DEF Answer, IInv, TypeOK
<1>2. web' \in [task : Tasks \cup {NoTask}, seen : TaskStatus]
  BY DEF Answer, NoRequest, TaskStatus
<1>3. Grown(run, made, run', made')
  <2>1. CASE ~HasActiveRun(run, web.task) /\ made < MaxRuns
    <3>1. /\ run' = [run EXCEPT ![made + 1] = NewRun(web.task, web.seen, FALSE)]
          /\ made' = made + 1
      BY <2>1 DEF Answer
    <3> QED
      BY <1>1, <2>1, <3>1, InsertGrows DEF IInv
  <2>2. CASE ~(~HasActiveRun(run, web.task) /\ made < MaxRuns)
    BY <2>2, SameRows DEF Answer, Grown, IInv, TypeOK
  <2> QED
    BY <2>1, <2>2
<1> QED
  BY <1>2, <1>3, WebSound DEF Answer, IInv, TypeOK

LEMMA PatchTaskSound ==
    ASSUME IInv, NEW t \in Tasks, NEW s \in PatchStatuses \cup {"unset"}, NEW ai \in PatchAi,
           PatchTask(t, s, ai)
    PROVE  Sound
<1> DEFINE T == [task EXCEPT ![t] = [status |-> IF s = "unset" THEN @.status ELSE s, ai |-> ai]]
           R == PatchRuns(run, t, task[t].ai /\ ~ai, s = "done")
<1>1. T \in [Tasks -> Task]
  BY TaskTypes DEF IInv, TypeOK
<1>2. Kept(run, R) /\ RowsOK(R, made)
  BY PatchKeeps, GrownOK DEF IInv, TypeOK, Grown
<1>3. task' = T /\ UNCHANGED <<worker, rel>>
  BY DEF PatchTask
<1>4. \/ Ask(T, R, t)
      \/ run' = R /\ UNCHANGED <<made, web>>
  BY DEF PatchTask
<1>5. /\ Grown(run, made, run', made')
      /\ web' \in [task : Tasks \cup {NoTask}, seen : TaskStatus]
  <2> HIDE DEF T, R
  <2>1. CASE Ask(T, R, t)
    BY <1>1, <1>2, <2>1, AskGrows, KeptThenGrown DEF IInv, TypeOK
  <2>2. CASE run' = R /\ UNCHANGED <<made, web>>
    BY <1>2, <2>2 DEF Grown, IInv, TypeOK
  <2> QED
    BY <1>4, <2>1, <2>2
<1> QED
  BY <1>1, <1>3, <1>5, WebSound

LEMMA ReviewAgainSound ==
    ASSUME IInv, NEW t \in Tasks, ReviewAgain(t)
    PROVE  Sound
<1> DEFINE T == [task EXCEPT ![t].status = "review_again"]
<1>1. T \in [Tasks -> Task]
  BY TaskTypes DEF IInv, TypeOK, TaskStatus
<1>2. task' = T /\ Enqueue(T, run, t, FALSE) /\ UNCHANGED <<worker, rel, web>>
  BY DEF ReviewAgain
<1>3. Grown(run, made, run', made')
  BY <1>1, <1>2, EnqueueGrows DEF IInv
<1> QED
  BY <1>1, <1>2, <1>3, WebSound DEF IInv, TypeOK

LEMMA StopSound ==
    ASSUME IInv, NEW t \in Tasks, NEW c \in StopControls, Stop(t, c)
    PROVE  Sound
<1>1. PICK r \in RunIds :
        /\ run[r].task = t /\ Active(run[r])
        /\ IF run[r].status = "queued"
           THEN /\ run' = [run EXCEPT ![r] = DequeuedRow(@, c)]
                /\ task' = [task EXCEPT ![t].status = "new"]
           ELSE /\ run' = [run EXCEPT ![r].control = c]
                /\ UNCHANGED task
        /\ UNCHANGED <<made, worker, rel, web>>
  BY DEF Stop
<1>2. run \in [RunIds -> Run] /\ task \in [Tasks -> Task] /\ c \in Control
  BY DEF IInv, TypeOK, Control
<1>3. task' \in [Tasks -> Task]
  <2>1. [task EXCEPT ![t].status = "new"] \in [Tasks -> Task]
    BY <1>2, TaskTypes DEF TaskStatus
  <2>2. task' = task \/ task' = [task EXCEPT ![t].status = "new"]
    BY <1>1
  <2> QED
    BY <1>2, <2>1, <2>2
<1>4. /\ KeptRow(run[r], DequeuedRow(run[r], c))
      /\ KeptRow(run[r], [run[r] EXCEPT !.control = c])
  BY <1>1, <1>2, ClosedRows, TouchedRows DEF Active
<1>5. Kept(run, run')
  <2>1. run' \in {[run EXCEPT ![r] = DequeuedRow(run[r], c)],
                 [run EXCEPT ![r] = [run[r] EXCEPT !.control = c]]}
    BY <1>1, <1>2
  <2> QED
    BY <1>2, <1>4, <2>1, OneRow
<1>6. Grown(run, made, run', made')
  BY <1>1, <1>5 DEF Grown
<1> QED
  BY <1>1, <1>3, <1>6, WebSound DEF IInv, TypeOK

LEMMA ResumeSound ==
    ASSUME IInv, NEW t \in Tasks, Resume(t)
    PROVE  Sound
<1>1. task \in [Tasks -> Task] /\ run \in [RunIds -> Run] /\ UNCHANGED <<task, worker, rel>>
  BY DEF Resume, IInv, TypeOK
<1>2. CASE Ask(task, run, t)
  BY <1>1, <1>2, AskGrows, WebSound DEF IInv, TypeOK
<1>3. ASSUME NEW r \in RunIds, Stale(run[r]), Ask(task, [run EXCEPT ![r] = StaleRow(@)], t)
      PROVE  Sound
  <2> DEFINE R == [run EXCEPT ![r] = StaleRow(@)]
  <2>1. KeptRow(run[r], StaleRow(run[r]))
    BY <1>1, <1>3, ClosedRows DEF Stale
  <2>2. Kept(run, R)
    BY <1>1, <2>1, OneRow
  <2>3. RowsOK(R, made)
    BY <2>2, GrownOK DEF Grown, IInv
  <2>4. /\ Grown(R, made, run', made')
        /\ web' \in [task : Tasks \cup {NoTask}, seen : TaskStatus]
    BY <1>1, <1>3, <2>3, AskGrows DEF IInv, TypeOK
  <2>5. Grown(run, made, run', made')
    BY <2>2, <2>4, KeptThenGrown
  <2> QED
    BY <1>1, <2>4, <2>5, WebSound
<1> QED
  BY <1>2, <1>3 DEF Resume

-----------------------------------------------------------------------------
(* The worker as a process.                                                *)

(* Steps that leave jobs alone and only rewrite rows.                      *)
LEMMA ProcessSound ==
    ASSUME IInv, Kept(run, run'), OtherTypes', UNCHANGED <<made, job>>
    PROVE  Sound
BY GrowsSound DEF Grown

LEMMA StartSound ==
    ASSUME IInv, NEW w \in Workers, Start(w)
    PROVE  Sound
<1>1. run \in [RunIds -> Run] /\ task \in [Tasks -> Task]
  BY DEF IInv, TypeOK
<1>2. \A r \in RunIds : KeptRow(run[r], OrphanRow(run[r]))
  BY <1>1, RecoveredRows
<1>3. Kept(run, run')
  BY <1>2 DEF Start, Kept
<1>4. task' \in [Tasks -> Task]
  BY <1>1 DEF Start, RequeueOrphanTasks, Task, TaskStatus
<1>5. OtherTypes'
  BY <1>4 DEF Start, IInv, TypeOK, OtherTypes, ProcState
<1> QED
  BY <1>3, <1>5, ProcessSound DEF Start

LEMMA StallSound ==
    ASSUME IInv, NEW w \in Workers, Stall(w) \/ Heartbeat(w) \/ StopBegin(w)
    PROVE  Sound
<1>1. UNCHANGED <<task, run, made, lease, job, chain, agents, orphans, rel, web>>
  BY DEF Stall, Heartbeat, StopBegin, store
<1>2. proc' \in [Workers -> ProcState] /\ silent' \subseteq Workers
  BY DEF Stall, Heartbeat, StopBegin, store, IInv, TypeOK, ProcState
<1>3. Kept(run, run') /\ OtherTypes'
  BY <1>1, <1>2, SameRows DEF IInv, TypeOK, OtherTypes
<1> QED
  BY <1>1, <1>3, ProcessSound

(* The death of a process.                                                 *)
LEMMA VanishTypes ==
    ASSUME IInv, NEW w \in Workers, Vanish(w)
    PROVE  /\ proc' \in [Workers -> ProcState]
           /\ silent' \subseteq Workers
           /\ job' \in [Workers -> [RunIds -> [phase : Phase, stop : Control]]]
           /\ chain' \in [Workers -> Seq(Op)]
           /\ agents' \subseteq Workers \X RunIds
           /\ orphans' \subseteq RunIds
           /\ UNCHANGED made => JobsMade'
<1>1. proc' \in [Workers -> ProcState] /\ silent' \subseteq Workers
  BY DEF Vanish, IInv, TypeOK, ProcState
<1>2. Idle \in [phase : Phase, stop : Control] /\ Idle.phase = "idle"
  BY DEF Idle, Phase, Control
<1>3. job' = [job EXCEPT ![w] = [r \in RunIds |-> Idle]]
  BY DEF Vanish
<1>4. job' \in [Workers -> [RunIds -> [phase : Phase, stop : Control]]]
  BY <1>2, <1>3 DEF IInv, TypeOK
<1>5. chain' \in [Workers -> Seq(Op)]
  BY DEF Vanish, IInv, TypeOK
<1>6. agents' \subseteq Workers \X RunIds
  BY DEF Vanish, IInv, TypeOK
<1>7. {a[2] : a \in Children(w)} \subseteq RunIds
  BY DEF Children, IInv, TypeOK
<1>8. orphans' \subseteq RunIds
  BY <1>7 DEF Vanish, IInv, TypeOK
<1>9. UNCHANGED made => JobsMade'
  BY <1>2, <1>3 DEF IInv, TypeOK, JobsMade
<1> QED
  BY <1>1, <1>4, <1>5, <1>6, <1>8, <1>9

LEMMA StopEndSound ==
    ASSUME IInv, NEW w \in Workers, StopEnd(w)
    PROVE  Sound
<1>1. run \in [RunIds -> Run]
  BY DEF IInv, TypeOK
<1>2. \A r \in RunIds : KeptRow(run[r], run[r]) /\ KeptRow(run[r], RequeueRow(run[r], w))
  BY <1>1, RecoveredRows, TouchedRows
<1>3. Kept(run, run')
  BY <1>2 DEF StopEnd, Kept
<1>4. CASE proc[w] = "stopping"
  <2>1. Vanish(w) /\ UNCHANGED <<task, made, rel, web>>
    BY <1>4 DEF StopEnd
  <2>2. lease' \in Workers \cup {NoWorker, Gone}
    BY DEF StopEnd, IInv, TypeOK
  <2>3. OtherTypes' /\ JobsMade'
    BY <2>1, <2>2, VanishTypes DEF OtherTypes, IInv, TypeOK
  <2> QED
    BY <1>3, <2>1, <2>3 DEF Sound, Grown
<1>5. CASE proc[w] # "stopping"
  <2>1. /\ proc' = [proc EXCEPT ![w] = "zombie"]
        /\ UNCHANGED <<task, made, rel, web, silent, job, chain, agents, orphans>>
    BY <1>5 DEF StopEnd
  <2>2. OtherTypes'
    BY <2>1 DEF StopEnd, OtherTypes, IInv, TypeOK, ProcState
  <2> QED
    BY <1>3, <2>1, <2>2, ProcessSound
<1> QED
  BY <1>4, <1>5

LEMMA CrashSound ==
    ASSUME IInv, NEW w \in Workers, Crash(w) \/ ZombieExit(w)
    PROVE  Sound
<1>1. Vanish(w) /\ UNCHANGED <<task, made, rel, web>>
  BY DEF Crash, ZombieExit, store
<1>2. run \in [RunIds -> Run]
  BY DEF IInv, TypeOK
<1>3. \A r \in RunIds : KeptRow(run[r], run[r]) /\ KeptRow(run[r], [run[r] EXCEPT !.worker = Gone])
  BY <1>2, TouchedRows
<1>4. Kept(run, run')
  <2>1. CASE Crash(w)
    BY <1>3, <2>1 DEF Crash, Kept
  <2>2. CASE ZombieExit(w)
    BY <1>2, <2>2, SameRows DEF ZombieExit, store
  <2> QED
    BY <2>1, <2>2
<1>5. lease' \in Workers \cup {NoWorker, Gone}
  BY DEF Crash, ZombieExit, IInv, TypeOK
<1>6. OtherTypes' /\ JobsMade'
  BY <1>1, <1>5, VanishTypes DEF OtherTypes, IInv, TypeOK
<1> QED
  BY <1>1, <1>4, <1>6 DEF Sound, Grown

LEMMA OrphanExitSound ==
    ASSUME IInv, NEW r \in RunIds, OrphanExit(r)
    PROVE  Sound
<1>1. Kept(run, run') /\ OtherTypes' /\ UNCHANGED <<made, job>>
  BY SameRows DEF OrphanExit, store, IInv, TypeOK, OtherTypes
<1> QED
  BY <1>1, ProcessSound

-----------------------------------------------------------------------------
(* The worker's jobs.                                                      *)

(* Git work is queued and taken from the front.                            *)
LEMMA ChainTypes ==
    ASSUME IInv, NEW w \in Workers
    PROVE  /\ \A op \in {"ensure", "revert", "cleanup"}, r \in RunIds :
                Push(w, op, r) => chain' \in [Workers -> Seq(Op)]
           /\ \A op, r : Head1(w, op, r) /\ Pop(w) => chain' \in [Workers -> Seq(Op)]
<1>1. chain \in [Workers -> Seq(Op)]
  BY DEF IInv, TypeOK
<1>2. ASSUME NEW op \in {"ensure", "revert", "cleanup"}, NEW r \in RunIds, Push(w, op, r)
      PROVE  chain' \in [Workers -> Seq(Op)]
  <2>1. [op |-> op, run |-> r] \in Op
    BY DEF Op
  <2>2. Append(chain[w], [op |-> op, run |-> r]) \in Seq(Op)
    BY <1>1, <2>1
  <2> QED
    BY <1>1, <1>2, <2>2 DEF Push
<1>3. ASSUME NEW op, NEW r, Head1(w, op, r), Pop(w)
      PROVE  chain' \in [Workers -> Seq(Op)]
  <2>1. chain[w] \in Seq(Op) /\ chain[w] # <<>>
    BY <1>1, <1>3 DEF Head1
  <2>2. Tail(chain[w]) \in Seq(Op)
    BY <2>1
  <2> QED
    BY <1>1, <1>3, <2>2 DEF Pop
<1> QED
  BY <1>2, <1>3

(* A job takes a phase, or ends.                                           *)
LEMMA JobTypes ==
    ASSUME IInv, NEW w \in Workers, NEW r \in RunIds, r <= made, made' = made,
           NEW p \in Phase, SetJob(w, r, p) \/ EndJob(w, r)
    PROVE  /\ job' \in [Workers -> [RunIds -> [phase : Phase, stop : Control]]]
           /\ JobsMade'
<1>1. job \in [Workers -> [RunIds -> [phase : Phase, stop : Control]]]
  BY DEF IInv, TypeOK
<1>2. Idle \in [phase : Phase, stop : Control] /\ Idle.phase = "idle"
  BY DEF Idle, Phase, Control
<1>3. PICK rec \in [phase : Phase, stop : Control] : job' = [job EXCEPT ![w][r] = rec]
  <2>1. [job[w][r] EXCEPT !.phase = p] \in [phase : Phase, stop : Control]
    BY <1>1
  <2>2. SetJob(w, r, p) => job' = [job EXCEPT ![w][r] = [job[w][r] EXCEPT !.phase = p]]
    BY DEF SetJob
  <2> QED
    BY <1>2, <2>1, <2>2 DEF EndJob
<1>4. job' \in [Workers -> [RunIds -> [phase : Phase, stop : Control]]]
  BY <1>1, <1>3
<1>5. ASSUME NEW v \in Workers, NEW q \in RunIds, job'[v][q].phase # "idle"
      PROVE  q <= made'
  <2>1. (v = w /\ q = r) \/ job'[v][q] = job[v][q]
    BY <1>1, <1>3
  <2> QED
    BY <1>5, <2>1 DEF IInv, JobsMade
<1> QED
  BY <1>4, <1>5 DEF JobsMade

(* A step of a job changes at most its row, its task, its phase, the git   *)
(* work and the children of its worker.                                    *)
LEMMA JobSound ==
    ASSUME IInv, NEW w \in Workers, NEW r \in RunIds,
           job[w][r].phase # "idle" \/ r <= made,
           NEW p \in Phase, SetJob(w, r, p) \/ EndJob(w, r),
           JobUnchanged,
           NEW rec, KeptRow(run[r], rec), run' = run \/ run' = [run EXCEPT ![r] = rec],
           task' \in [Tasks -> Task],
           chain' \in [Workers -> Seq(Op)],
           agents' \subseteq Workers \X RunIds
    PROVE  Sound
<1>1. r <= made /\ made' = made
  BY DEF IInv, JobsMade, JobUnchanged
<1>2. Kept(run, run')
  <2>1. run \in [RunIds -> Run]
    BY DEF IInv, TypeOK
  <2>2. Kept(run, run) /\ Kept(run, [run EXCEPT ![r] = rec])
    BY <2>1, SameRows, OneRow
  <2> QED
    BY <2>2
<1>3. /\ job' \in [Workers -> [RunIds -> [phase : Phase, stop : Control]]]
      /\ JobsMade'
  BY <1>1, JobTypes
<1>4. OtherTypes'
  BY <1>3 DEF OtherTypes, JobUnchanged, IInv, TypeOK
<1> QED
  BY <1>1, <1>2, <1>3, <1>4 DEF Sound, Grown

(* The row of a job was inserted: a verdict may be stored on it.           *)
LEMMA JobRow ==
    ASSUME IInv, NEW w \in Workers, NEW r \in RunIds, job[w][r].phase # "idle"
    PROVE  /\ run[r] \in Run /\ run[r].status # "absent" /\ run[r].task \in Tasks
           /\ KeptRow(run[r], run[r])
           /\ task \in [Tasks -> Task]
           /\ chain \in [Workers -> Seq(Op)]
           /\ agents \subseteq Workers \X RunIds
<1>1. run[r] \in Run /\ KeptRow(run[r], run[r])
  BY TouchedRows DEF IInv, TypeOK
<1>2. ~(r > made)
  BY DEF IInv, JobsMade, TypeOK, RunIds
<1>3. run[r].status # "absent" /\ run[r].task # NoTask
  BY <1>2 DEF IInv, RowsOK
<1> QED
  BY <1>1, <1>3 DEF IInv, TypeOK, Run

LEMMA ClaimSound ==
    ASSUME IInv, NEW w \in Workers, NEW r \in RunIds, Claim(w, r)
    PROVE  Sound
<1> DEFINE rec == [run[r] EXCEPT !.status = "running", !.worker = w]
<1>1. run[r] \in Run /\ run[r].status = "queued"
  BY DEF Claim, Claimable, IInv, TypeOK
<1>2. KeptRow(run[r], rec)
  BY <1>1, RecoveredRows
<1>3. r <= made
  BY <1>1 DEF IInv, RowsOK, RunIds
<1>4. run' = [run EXCEPT ![r] = rec]
  BY DEF Claim, IInv, TypeOK
<1>5. /\ task' \in [Tasks -> Task] /\ chain' \in [Workers -> Seq(Op)]
      /\ agents' \subseteq Workers \X RunIds
  BY DEF Claim, IInv, TypeOK
<1>6. "claimed" \in Phase /\ SetJob(w, r, "claimed") /\ JobUnchanged
  BY DEF Phase, Claim
<1> HIDE DEF rec
<1> QED
  BY <1>2, <1>3, <1>4, <1>5, <1>6, JobSound

LEMMA BeginSound ==
    ASSUME IInv, NEW w \in Workers, NEW r \in RunIds, Begin(w, r)
    PROVE  Sound
<1>1. job[w][r].phase # "idle" /\ JobUnchanged /\ UNCHANGED agents
  BY DEF Begin
<1>2. CASE task[run[r].task].ai
  <2>1. /\ task' = [task EXCEPT ![run[r].task].status = "in_progress"]
        /\ Push(w, "ensure", r) /\ SetJob(w, r, "ensure") /\ run' = run
    BY <1>2 DEF Begin
  <2>2. "in_progress" \in TaskStatus /\ "ensure" \in Phase
    BY DEF TaskStatus, Phase
  <2>3. task' \in [Tasks -> Task] /\ chain' \in [Workers -> Seq(Op)]
    BY <1>1, <2>1, <2>2, JobRow, TaskTypes, ChainTypes
  <2> QED
    BY <1>1, <2>1, <2>2, <2>3, JobRow, JobSound
<1>3. CASE ~task[run[r].task].ai
  <2>1. /\ run' = [run EXCEPT ![r] = StoppedRow(run[r])]
        /\ EndJob(w, r) /\ UNCHANGED <<task, chain>>
    BY <1>3 DEF Begin
  <2>2. KeptRow(run[r], StoppedRow(run[r])) /\ "idle" \in Phase
    BY <1>1, JobRow, ClosedRows DEF Phase
  <2> QED
    BY <1>1, <2>1, <2>2, JobRow, JobSound
<1> QED
  BY <1>2, <1>3

(* Steps that only move the job on.                                        *)
LEMMA MoveOnSound ==
    ASSUME IInv, NEW w \in Workers, NEW r \in RunIds, Spawn(w, r) \/ AgentExit(w, r) \/ Inspect(w, r)
    PROVE  Sound
<1>1. /\ job[w][r].phase # "idle" /\ JobUnchanged /\ UNCHANGED <<task, run, chain>>
      /\ agents' \in {agents, agents \cup {<<w, r>>}, agents \ {<<w, r>>}}
  BY DEF Spawn, AgentExit, Inspect
<1>2. PICK p \in {"late", "agent", "exited", "verify"} : SetJob(w, r, p)
  BY DEF Spawn, AgentExit, Inspect
<1>3. p \in Phase
  BY DEF Phase
<1>4. agents' \subseteq Workers \X RunIds
  BY <1>1, JobRow
<1> QED
  BY <1>1, <1>2, <1>3, <1>4, JobRow, JobSound

LEMMA PollSound ==
    ASSUME IInv, NEW w \in Workers, NEW r \in RunIds, Poll(w, r)
    PROVE  Sound
<1>1. /\ UNCHANGED <<made, proc, lease, silent, orphans, rel, web, task, run, chain, agents>>
      /\ job' = [job EXCEPT ![w][r].stop = run[r].control]
  BY DEF Poll, JobUnchanged
<1>2. run[r].control \in Control
  BY DEF IInv, TypeOK, Run
<1>3. OtherTypes'
  <2>1. job \in [Workers -> [RunIds -> [phase : Phase, stop : Control]]]
    BY DEF IInv, TypeOK
  <2>2. [job[w][r] EXCEPT !.stop = run[r].control] \in [phase : Phase, stop : Control]
    BY <1>2, <2>1
  <2>3. job' \in [Workers -> [RunIds -> [phase : Phase, stop : Control]]]
    BY <1>1, <2>1, <2>2
  <2> QED
    BY <1>1, <2>3 DEF OtherTypes, IInv, TypeOK
<1>4. JobsMade'
  <2>1. \A v \in Workers, q \in RunIds : job'[v][q].phase = job[v][q].phase
    BY <1>1 DEF IInv, TypeOK
  <2> QED
    BY <1>1, <2>1 DEF IInv, JobsMade
<1>5. Grown(run, made, run', made')
  BY <1>1, SameRows DEF Grown, IInv, TypeOK
<1> QED
  BY <1>3, <1>4, <1>5 DEF Sound

LEMMA GiveBackSound ==
    ASSUME IInv, NEW w \in Workers, NEW r \in RunIds, GiveBack(w, r) \/ Ensured(w, r)
    PROVE  Sound
<1>1. job[w][r].phase # "idle" /\ JobUnchanged /\ UNCHANGED <<task, agents>>
  BY DEF GiveBack, Ensured
<1>2. KeptRow(run[r], RequeueRow(run[r], w))
  BY <1>1, JobRow, RecoveredRows
<1>3. run' = run \/ run' = [run EXCEPT ![r] = RequeueRow(run[r], w)]
  BY DEF GiveBack, Ensured, Requeue
<1>4. chain' \in [Workers -> Seq(Op)]
  BY <1>1, JobRow, ChainTypes DEF GiveBack, Ensured
<1>5. "ready" \in Phase /\ (SetJob(w, r, "ready") \/ EndJob(w, r))
  BY DEF Phase, GiveBack, Ensured
<1> QED
  BY <1>1, <1>2, <1>3, <1>4, <1>5, JobRow, JobSound

LEMMA HonourStopSound ==
    ASSUME IInv, NEW w \in Workers, NEW r \in RunIds, HonourStop(w, r) \/ Reverted(w, r)
    PROVE  Sound
<1>1. job[w][r].phase # "idle" /\ JobUnchanged /\ UNCHANGED <<task, agents>>
  BY DEF HonourStop, Reverted
<1>2. KeptRow(run[r], StoppedRow(run[r]))
  BY <1>1, JobRow, ClosedRows
<1>3. run' = run \/ run' = [run EXCEPT ![r] = StoppedRow(run[r])]
  BY DEF HonourStop, Reverted
<1>4. chain' \in [Workers -> Seq(Op)]
  BY <1>1, JobRow, ChainTypes DEF HonourStop, Reverted
<1>5. PICK p \in {"restore", "revert"} : SetJob(w, r, p)
  BY DEF HonourStop, Reverted
<1>6. p \in Phase
  BY DEF Phase
<1> QED
  BY <1>1, <1>2, <1>3, <1>4, <1>5, <1>6, JobRow, JobSound

LEMMA RestoreSound ==
    ASSUME IInv, NEW w \in Workers, NEW r \in RunIds, Restore(w, r)
    PROVE  Sound
<1>1. job[w][r].phase # "idle" /\ JobUnchanged /\ EndJob(w, r) /\ UNCHANGED <<run, chain, agents>>
  BY DEF Restore
<1>2. Restorable(run[r].snapshot) \in TaskStatus /\ "idle" \in Phase
  BY DEF Restorable, TaskStatus, Phase
<1>3. task' \in [Tasks -> Task]
  <2>1. task' = task \/ task' = [task EXCEPT ![run[r].task].status = Restorable(run[r].snapshot)]
    BY DEF Restore
  <2> QED
    BY <1>1, <1>2, <2>1, JobRow, TaskTypes
<1> QED
  BY <1>1, <1>2, <1>3, JobRow, JobSound

LEMMA FailSound ==
    ASSUME IInv, NEW w \in Workers, NEW r \in RunIds, Fail(w, r)
    PROVE  Sound
<1>1. job[w][r].phase # "idle" /\ JobUnchanged /\ EndJob(w, r) /\ UNCHANGED agents
  BY DEF Fail
<1>2. chain' \in [Workers -> Seq(Op)]
  <2>1. UNCHANGED chain \/ (Head1(w, job[w][r].phase, r) /\ Pop(w))
    BY DEF Fail
  <2> QED
    BY <1>1, <2>1, JobRow, ChainTypes
<1>3. "idle" \in Phase /\ "new" \in TaskStatus
  BY DEF Phase, TaskStatus
<1>4. CASE Stopping(w)
  <2>1. KeptRow(run[r], RequeueRow(run[r], w))
    BY <1>1, JobRow, RecoveredRows
  <2>2. run' = [run EXCEPT ![r] = RequeueRow(run[r], w)] /\ task' = task
    BY <1>4 DEF Fail, Requeue
  <2> QED
    BY <1>1, <1>2, <1>3, <2>1, <2>2, JobRow, JobSound
<1>5. CASE ~Stopping(w)
  <2>1. KeptRow(run[r], FailRow(run[r]))
    BY <1>1, JobRow, ClosedRows
  <2>2. /\ run' = [run EXCEPT ![r] = FailRow(run[r])]
        /\ task' = FailTasks(task, run, r)
    BY <1>5 DEF Fail
  <2>3. task' \in [Tasks -> Task]
    <3>1. task' = task \/ task' = [task EXCEPT ![run[r].task].status = "new"]
      BY <2>2 DEF FailTasks
    <3> QED
      <4>1. task \in [Tasks -> Task]
        BY <1>1, JobRow
      <4>2. [task EXCEPT ![run[r].task].status = "new"] \in [Tasks -> Task]
        BY <1>3, <4>1, TaskTypes
      <4> QED
        BY <3>1, <4>1, <4>2
  <2> QED
    BY <1>1, <1>2, <1>3, <2>1, <2>2, <2>3, JobRow, JobSound
<1> QED
  BY <1>4, <1>5

LEMMA StoreVerdictSound ==
    ASSUME IInv, NEW w \in Workers, NEW r \in RunIds, NEW v \in Verdicts, StoreVerdict(w, r, v)
    PROVE  Sound
<1> DEFINE rec == [Finish(run[r], RunStatusOf(v)) EXCEPT !.verdict = v]
<1>1. job[w][r].phase # "idle" /\ JobUnchanged /\ UNCHANGED <<task, chain, agents>>
  BY DEF StoreVerdict
<1>2. RunStatusOf(v) \in {"completed", "needs_review", "blocked", "failed"} /\ v \in Verdict
  BY DEF RunStatusOf, Verdict
<1>3. KeptRow(run[r], rec)
  BY <1>1, <1>2, JobRow, ClosedRows
<1>4. run' = [run EXCEPT ![r] = rec] /\ SetJob(w, r, "stored") /\ "stored" \in Phase
  BY DEF StoreVerdict, Phase
<1> HIDE DEF rec
<1> QED
  BY <1>1, <1>3, <1>4, JobRow, JobSound

LEMMA SealReleaseSound ==
    ASSUME IInv, NEW w \in Workers, NEW r \in RunIds, SealRelease(w, r)
    PROVE  Sound
<1>1. job[w][r].phase # "idle" /\ JobUnchanged /\ UNCHANGED <<task, chain, agents>>
  BY DEF SealRelease
<1>2. KeptRow(run[r], [run[r] EXCEPT !.release = "blocked"])
  BY <1>1, JobRow, TouchedRows DEF ReleaseStatus
<1>3. run' = run \/ run' = [run EXCEPT ![r] = [run[r] EXCEPT !.release = "blocked"]]
  BY DEF SealRelease
<1>4. SetJob(w, r, "settle") /\ "settle" \in Phase
  BY DEF SealRelease, Phase
<1> QED
  BY <1>1, <1>2, <1>3, <1>4, JobRow, JobSound

(* The one step of a job that may insert a row: the continuation.          *)
LEMMA SettleSound ==
    ASSUME IInv, NEW w \in Workers, NEW r \in RunIds, Settle(w, r)
    PROVE  Sound
<1>1. /\ job[w][r].phase # "idle" /\ EndJob(w, r)
      /\ UNCHANGED <<proc, lease, silent, chain, agents, orphans, rel, web>>
  BY DEF Settle
<1>2. run[r].task \in Tasks /\ task \in [Tasks -> Task]
  BY <1>1, JobRow
<1>3. Grown(run, made, run', made')
  <2>1. CASE UNCHANGED <<run, made>>
    BY <2>1, SameRows DEF Grown, IInv, TypeOK
  <2>2. CASE Enqueue(task, run, run[r].task, TRUE)
    BY <1>2, <2>2, EnqueueGrows DEF IInv
  <2>3. CASE made' = made /\ run' = [run EXCEPT ![r] = FailRow(run[r])]
    <3>1. KeptRow(run[r], FailRow(run[r])) /\ run \in [RunIds -> Run]
      BY <1>1, JobRow, ClosedRows DEF IInv, TypeOK
    <3> QED
      BY <2>3, <3>1, OneRow DEF Grown
  <2> QED
    BY <2>1, <2>2, <2>3 DEF Settle
<1>4. task' \in [Tasks -> Task]
  <2>1. task' = task \/ \E s \in {"in_progress", "blocked", "new"} :
                            task' = [task EXCEPT ![run[r].task].status = s]
    BY DEF Settle, FailTasks
  <2>2. \A s \in {"in_progress", "blocked", "new"} :
            [task EXCEPT ![run[r].task].status = s] \in [Tasks -> Task]
    BY <1>2, TaskTypes DEF TaskStatus
  <2> QED
    BY <1>2, <2>1, <2>2
<1>5. job' = [job EXCEPT ![w][r] = Idle] /\ Idle \in [phase : Phase, stop : Control]
      /\ Idle.phase = "idle"
  BY <1>1 DEF EndJob, Idle, Phase, Control
<1>6. OtherTypes'
  BY <1>1, <1>4, <1>5 DEF OtherTypes, IInv, TypeOK
<1>7. JobsMade'
  <2>1. made \in Nat /\ (made' = made \/ made' = made + 1)
    BY <1>3 DEF Grown, IInv, RowsOK
  <2>2. \A v \in Workers, q \in RunIds :
            job'[v][q].phase # "idle" => job[v][q].phase # "idle"
    BY <1>5 DEF IInv, TypeOK
  <2>3. \A q \in RunIds : q <= made => q <= made'
    BY <2>1 DEF RunIds
  <2> QED
    BY <2>2, <2>3 DEF IInv, JobsMade
<1> QED
  BY <1>3, <1>6, <1>7 DEF Sound

(* The deferred clean-up of a stopped run.                                 *)
LEMMA CleanupSound ==
    ASSUME IInv, NEW w \in Workers, NEW r \in RunIds, ClaimCleanup(w, r) \/ CleanedUp(w, r)
    PROVE  Sound
<1>1. JobUnchanged /\ UNCHANGED <<task, job, agents>>
  BY DEF ClaimCleanup, CleanedUp
<1>2. run \in [RunIds -> Run] /\ run[r] \in Run
  BY DEF IInv, TypeOK
<1>3. PICK c \in {"cleanup_running", ""} : run' \in {run, [run EXCEPT ![r] = [run[r] EXCEPT !.control = c]]}
  BY DEF ClaimCleanup, CleanedUp
<1>4. KeptRow(run[r], [run[r] EXCEPT !.control = c])
  BY <1>2, TouchedRows DEF Control
<1>5. Kept(run, run')
  <2>1. Kept(run, run) /\ Kept(run, [run EXCEPT ![r] = [run[r] EXCEPT !.control = c]])
    BY <1>2, <1>4, SameRows, OneRow
  <2> QED
    BY <1>3, <2>1
<1>6. chain' \in [Workers -> Seq(Op)]
  BY ChainTypes DEF ClaimCleanup, CleanedUp
<1>7. OtherTypes' /\ UNCHANGED made
  BY <1>1, <1>6 DEF JobUnchanged, OtherTypes, IInv, TypeOK
<1> QED
  BY <1>1, <1>5, <1>7, ProcessSound

-----------------------------------------------------------------------------
(* The release worker: it writes release_status, the status of a task, and *)
(* its own item.                                                           *)

LEMMA ReleaseSound ==
    ASSUME IInv, NEW r \in RunIds, NEW s \in ReleaseStatus,
           run' = run \/ RelWrite(r, s),
           NEW t, NEW ts \in TaskStatus, task' = task \/ task' = [task EXCEPT ![t].status = ts],
           rel' \in [run : 0..MaxRuns, seen : TaskStatus],
           UNCHANGED <<made, worker, web>>
    PROVE  Sound
<1>1. run \in [RunIds -> Run] /\ task \in [Tasks -> Task]
  BY DEF IInv, TypeOK
<1>2. Kept(run, run')
  <2>1. KeptRow(run[r], [run[r] EXCEPT !.release = s])
    BY <1>1, TouchedRows
  <2>2. Kept(run, run) /\ Kept(run, [run EXCEPT ![r] = [run[r] EXCEPT !.release = s]])
    BY <1>1, <2>1, SameRows, OneRow
  <2> QED
    BY <2>2 DEF RelWrite
<1>3. task' \in [Tasks -> Task]
  <2>1. [task EXCEPT ![t].status = ts] \in [Tasks -> Task]
    BY <1>1, TaskTypes
  <2> QED
    BY <1>1, <2>1
<1>4. OtherTypes' /\ UNCHANGED job
  BY <1>3 DEF OtherTypes, IInv, TypeOK, worker
<1> QED
  BY <1>2, <1>4, ProcessSound

LEMMA RelDropSound ==
    ASSUME IInv, RelDrop
    PROVE  Sound
<1>1. UNCHANGED <<task, run, made, worker, web>> /\ rel' \in [run : 0..MaxRuns, seen : TaskStatus]
  BY DEF RelDrop, RelUnchanged, NoRelease, TaskStatus
<1>2. Kept(run, run') /\ OtherTypes' /\ UNCHANGED job
  BY <1>1, SameRows DEF OtherTypes, IInv, TypeOK, worker
<1> QED
  BY <1>1, <1>2, ProcessSound

LEMMA RelTakeSound ==
    ASSUME IInv, NEW r \in RunIds, RelTake(r)
    PROVE  Sound
<1>1. run[r].task \in Tasks /\ task \in [Tasks -> Task]
  BY DEF RelTake, Latest, IInv, TypeOK, Run
<1>2. task[run[r].task].status \in TaskStatus
  BY <1>1 DEF Task
<1>3. r \in 0..MaxRuns
  BY DEF RunIds
<1>4. rel' \in [run : 0..MaxRuns, seen : TaskStatus] /\ UNCHANGED <<task, run, made, worker, web>>
  BY <1>2, <1>3 DEF RelTake, RelUnchanged
<1>5. "new" \in TaskStatus /\ "pending" \in ReleaseStatus
  BY DEF TaskStatus, ReleaseStatus
<1> QED
  BY <1>4, <1>5, ReleaseSound

LEMMA RelWriteSound ==
    ASSUME IInv, NEW r \in RunIds, NEW s \in ReleaseStatus,
           RelProcess(r, s) \/ RelPutBack(r, s) \/ RelReopen(r, s)
    PROVE  Sound
<1>1. /\ RelWrite(r, s) /\ UNCHANGED <<made, worker, web>>
      /\ rel' = rel \/ rel' = NoRelease
      /\ task' = task \/ task' = [task EXCEPT ![run[r].task].status = "in_progress"]
  BY DEF RelProcess, RelPutBack, RelReopen, RelUnchanged
<1>2. rel' \in [run : 0..MaxRuns, seen : TaskStatus] /\ "in_progress" \in TaskStatus
  BY <1>1 DEF NoRelease, TaskStatus, IInv, TypeOK
<1> QED
  BY <1>1, <1>2, ReleaseSound

LEMMA RelBlockSound ==
    ASSUME IInv, NEW r \in RunIds, NEW s \in TaskStatus, RelBlock(r, s)
    PROVE  Sound
<1>1. /\ RelWrite(r, "blocked") /\ UNCHANGED <<made, worker, web>> /\ rel' = NoRelease
      /\ task' = [task EXCEPT ![run[r].task].status = s]
  BY DEF RelBlock, RelUnchanged
<1>2. rel' \in [run : 0..MaxRuns, seen : TaskStatus] /\ "blocked" \in ReleaseStatus
  BY <1>1 DEF NoRelease, TaskStatus, ReleaseStatus
<1> QED
  BY <1>1, <1>2, ReleaseSound

LEMMA RelFinishSound ==
    ASSUME IInv, NEW r \in RunIds, RelFinish(r)
    PROVE  Sound
<1>1. /\ RelWrite(r, "released") /\ UNCHANGED <<made, worker, web>> /\ rel' = NoRelease
      /\ task' = [task EXCEPT ![run[r].task].status = AfterRelease(run[r].task)]
  BY DEF RelFinish, RelUnchanged
<1>2. AfterRelease(run[r].task) \in TaskStatus
  BY DEF AfterRelease, TaskStatus
<1>3. rel' \in [run : 0..MaxRuns, seen : TaskStatus] /\ "released" \in ReleaseStatus
  BY <1>1 DEF NoRelease, TaskStatus, ReleaseStatus
<1> QED
  BY <1>1, <1>2, <1>3, ReleaseSound

-----------------------------------------------------------------------------
(* Every step of the system.                                               *)

LEMMA WebStep ==
    ASSUME IInv, NEW t \in Tasks, Web(t)
    PROVE  Sound
<1>1. CASE StartRun(t)
  BY <1>1, StartRunSound
<1>2. CASE ReviewAgain(t)
  BY <1>2, ReviewAgainSound
<1>3. CASE Resume(t)
  BY <1>3, ResumeSound
<1>4. CASE \E s \in PatchStatuses \cup {"unset"}, ai \in PatchAi : PatchTask(t, s, ai)
  BY <1>4, PatchTaskSound
<1>5. CASE \E c \in StopControls : Stop(t, c)
  BY <1>5, StopSound
<1> QED
  BY <1>1, <1>2, <1>3, <1>4, <1>5 DEF Web

LEMMA ProcessStep ==
    ASSUME IInv, NEW w \in Workers, Process(w)
    PROVE  Sound
<1>1. CASE Start(w)
  BY <1>1, StartSound
<1>2. CASE Crash(w) \/ ZombieExit(w)
  BY <1>2, CrashSound
<1>3. CASE Stall(w) \/ Heartbeat(w) \/ StopBegin(w)
  BY <1>3, StallSound
<1>4. CASE StopEnd(w)
  BY <1>4, StopEndSound
<1>5. CASE \E r \in RunIds : Claim(w, r)
  BY <1>5, ClaimSound
<1>6. CASE \E r \in RunIds : ClaimCleanup(w, r) \/ CleanedUp(w, r)
  BY <1>6, CleanupSound
<1> QED
  BY <1>1, <1>2, <1>3, <1>4, <1>5, <1>6 DEF Process

LEMMA JobStepSound ==
    ASSUME IInv, NEW w \in Workers, NEW r \in RunIds, JobStep(w, r)
    PROVE  Sound
<1>1. CASE Begin(w, r)
  BY <1>1, BeginSound
<1>2. CASE Restore(w, r)
  BY <1>2, RestoreSound
<1>3. CASE SealRelease(w, r)
  BY <1>3, SealReleaseSound
<1>4. CASE Settle(w, r)
  BY <1>4, SettleSound
<1>5. CASE Spawn(w, r) \/ AgentExit(w, r) \/ Inspect(w, r)
  BY <1>5, MoveOnSound
<1>6. CASE Poll(w, r)
  BY <1>6, PollSound
<1>7. CASE GiveBack(w, r) \/ Ensured(w, r)
  BY <1>7, GiveBackSound
<1>8. CASE HonourStop(w, r) \/ Reverted(w, r)
  BY <1>8, HonourStopSound
<1>9. CASE Fail(w, r)
  BY <1>9, FailSound
<1>10. CASE \E v \in Verdicts : StoreVerdict(w, r, v)
  BY <1>10, StoreVerdictSound
<1> QED
  BY <1>1, <1>2, <1>3, <1>4, <1>5, <1>6, <1>7, <1>8, <1>9, <1>10
     DEF JobStep, SameTurn, NextTurn

LEMMA ReleaseStep ==
    ASSUME IInv, Release
    PROVE  Sound
<1>1. CASE RelDrop
  BY <1>1, RelDropSound
<1>2. CASE \E r \in RunIds : RelTake(r)
  BY <1>2, RelTakeSound
<1>3. CASE \E r \in RunIds : RelFinish(r)
  BY <1>3, RelFinishSound
<1>4. CASE \E r \in RunIds, s \in ReleaseStatus :
            RelProcess(r, s) \/ RelPutBack(r, s) \/ RelReopen(r, s)
  BY <1>4, RelWriteSound
<1>5. CASE \E r \in RunIds, s \in TaskStatus : RelBlock(r, s)
  BY <1>5, RelBlockSound
<1> QED
  BY <1>1, <1>2, <1>3, <1>4, <1>5 DEF Release

LEMMA NextSound ==
    ASSUME IInv, [Next]_vars
    PROVE  Sound
<1>1. CASE \E t \in Tasks : Web(t)
  BY <1>1, WebStep
<1>2. CASE Answer
  BY <1>2, AnswerSound
<1>3. CASE \E w \in Workers : Process(w)
  BY <1>3, ProcessStep
<1>4. CASE \E w \in Workers, r \in RunIds : JobStep(w, r)
  BY <1>4, JobStepSound
<1>5. CASE \E r \in RunIds : OrphanExit(r)
  BY <1>5, OrphanExitSound
<1>6. CASE Release
  BY <1>6, ReleaseStep
<1>7. CASE UNCHANGED vars
  <2>1. Kept(run, run') /\ OtherTypes' /\ UNCHANGED <<made, job>>
    BY <1>7, SameRows DEF vars, OtherTypes, IInv, TypeOK
  <2> QED
    BY <2>1, ProcessSound
<1> QED
  BY <1>1, <1>2, <1>3, <1>4, <1>5, <1>6, <1>7 DEF Next

(* The inductive invariant. *)
THEOREM Invariance == Spec => []IInv
<1>1. Init => IInv
  BY InitIInv
<1>2. IInv /\ [Next]_vars => IInv'
  BY NextSound, SoundStep
<1> QED
  BY <1>1, <1>2, PTL DEF Spec

(* Whatever the workers and the web process do, the tables and the state   *)
(* of the processes keep their types: no run outside the bound, no queue   *)
(* of git work with a foreign entry, no job that stopped for a reason the  *)
(* control column does not know.                                           *)
THEOREM TypeCorrect == Spec => []TypeOK
<1>1. IInv => TypeOK
  BY DEF IInv
<1> QED
  BY <1>1, Invariance, PTL

(* A queued or running run is always the newest run of its task: neither   *)
(* the recovery of a crashed worker, nor a graceful stop, nor a worker     *)
(* that outlived its lease brings an older run back beside a newer one.    *)
THEOREM NewestIsActive == Spec => []ActiveIsLatest
<1>1. IInv => ActiveIsLatest
  BY DEF IInv, RowsOK, ActiveIsLatest
<1> QED
  BY <1>1, Invariance, PTL

-----------------------------------------------------------------------------
(* The refinement: every step of the system is a step of the ledger.       *)

LEMMA InitLedger == Init => Ledger!Init
<1> SUFFICES ASSUME Init
             PROVE  Ledger!Init
  OBVIOUS
<1>1. \A r \in RunIds : run[r].task = NoTask /\ Life(run[r]) = "absent"
  BY DEF Init, NoRun, Life
<1>2. Ledger!RunIds = RunIds
  BY DEF Ledger!RunIds, RunIds
<1> QED
  BY <1>1, <1>2 DEF Ledger!Init

(* The rewriting of a row is a move of the ledger. *)
LEMMA RowMoves ==
    ASSUME NEW rec \in Run, NEW new, KeptRow(rec, new)
    PROVE  \/ Life(new) = Life(rec)
           \/ Life(rec) \in {"queued", "running"} /\ Life(new) \in {"queued", "running", "closed"}
BY DEF KeptRow, Life, Active, Run, RunStatus

LEMMA StepLedger ==
    ASSUME IInv, [Next]_vars
    PROVE  [Ledger!Next]_<<[r \in RunIds |-> run[r].task], [r \in RunIds |-> Life(run[r])]>>
<1> DEFINE owner == [r \in RunIds |-> run[r].task]
           life == [r \in RunIds |-> Life(run[r])]
<1>1. Sound /\ IInv'
  BY NextSound, SoundStep
<1>2. Ledger!RunIds = RunIds /\ RunIds' = RunIds
  BY DEF Ledger!RunIds, RunIds
<1>3. run \in [RunIds -> Run] /\ run' \in [RunIds -> Run]
  BY <1>1, <1>2 DEF IInv, TypeOK
<1>4. owner' \in [RunIds -> Tasks \cup {NoTask}]
  BY <1>3 DEF Run
<1>5. life' \in [RunIds -> Ledger!Life]
  BY <1>3 DEF Run, RunStatus, Life, Ledger!Life
<1>6. ASSUME NEW r \in RunIds, KeptRow(run[r], run'[r])
      PROVE  Ledger!Moved(r)
  <2>1. \/ life'[r] = life[r]
        \/ life[r] \in {"queued", "running"} /\ life'[r] \in {"queued", "running", "closed"}
    BY <1>3, <1>6, RowMoves
  <2>2. owner'[r] = owner[r]
    BY <1>6 DEF KeptRow
  <2> QED
    BY <2>1, <2>2 DEF Ledger!Moved, Ledger!Opened
<1>7. ASSUME NEW r \in RunIds
      PROVE  Ledger!Inserted(r) \/ Ledger!Moved(r)
  <2>1. CASE KeptRow(run[r], run'[r])
    BY <1>6, <2>1
  <2>2. CASE ~KeptRow(run[r], run'[r])
    <3>1. r = made + 1 /\ run'[r].task \in Tasks /\ run'[r].status = "queued"
      BY <1>1, <2>2 DEF Sound, Grown, Kept
    <3>2. r > made
      BY <3>1 DEF IInv, RowsOK
    <3>3. run[r].task = NoTask /\ run[r].status = "absent"
      BY <3>2 DEF IInv, RowsOK
    <3> QED
      BY <3>1, <3>3 DEF Ledger!Inserted, Life
  <2> QED
    BY <2>1, <2>2
<1>8. Ledger!NewestOnly(owner', life')
  <2>1. \A q \in RunIds : Active(run'[q]) => Latest(run', q)
    BY <1>1, <1>2 DEF IInv, RowsOK, Active, Latest
  <2>2. \A q \in RunIds : Ledger!Opened(life'[q]) => Active(run'[q])
    BY <1>3 DEF Ledger!Opened, Life, Active
  <2> QED
    BY <1>2, <2>1, <2>2 DEF Ledger!NewestOnly, Latest
<1> QED
  BY <1>2, <1>4, <1>5, <1>7, <1>8 DEF Ledger!Next

(* AgentRuns implements RunLedger: the runs of a task never overlap, one   *)
(* is inserted only when the one before is closed, and a closed one never  *)
(* comes back - also when a worker that lost its lease goes on writing,    *)
(* and when the worker commits in the middle of an enqueue.                *)
THEOREM Refinement == Spec => ImplementsLedger
<1>1. Init => Ledger!Init
  BY InitLedger
<1>2. IInv /\ [Next]_vars =>
        [Ledger!Next]_<<[r \in RunIds |-> run[r].task], [r \in RunIds |-> Life(run[r])]>>
  BY StepLedger
<1> QED
  BY <1>1, <1>2, Invariance, PTL DEF Spec, ImplementsLedger, Ledger!Spec
=============================================================================
