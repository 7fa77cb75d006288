--------------------------- MODULE ReleasePipeline ---------------------------
(***************************************************************************)
(* The release worker (server/release-worker.js): how the finished runs of *)
(* tasks get from their worktrees to the mainlines of several repositories *)
(* and from there to DEV, alone or in a batch, through failures, foreign   *)
(* pushes, people closing tasks, and crashes at any await.                 *)
(*                                                                         *)
(* Abstractions.  A commit is what it contains: the tasks whose work is in *)
(* it and how many foreign pushes.  The checks of a repository are one     *)
(* gate, a function of the commit (Green); what a machine adds to it is a  *)
(* fault, and faults are counted.  Repositories are numbered in the order  *)
(* of the plan.  A task has one run, the latest: `row` is its release_*    *)
(* columns with the part of release_evidence that the worker reads again.  *)
(* The phases of the row follow the program counter of the worker and are  *)
(* left out.  settleMs is not longer than the poll interval, as in its     *)
(* default: a task seen by one tick is ready in the next.  A lost lease, a *)
(* desk that does not answer and a 409 end the tick by an exception.       *)
(***************************************************************************)
EXTENDS Naturals, FiniteSets, Sequences, SequencesExt

CONSTANTS
    Tasks,
    NumRepos,
    Work,        \* Work[t]: the repositories the run of t changed and declared
    Migrates,    \* <<t, r>>: the change of t in r has a migration
    Codes,       \* what the changes may be like, see Code
    MaxOutside,  \* bound: MaxOutside[r], foreign pushes to r
    MaxFaults,   \* bound: faults and crashes
    MayClose,    \* the tasks people may close
    Batching     \* RELEASE_BATCHING

Repos == 1..NumRepos
None == 0
MaxAttempts == 3

\* breaks: <<S, r>>, the gate of r is red when all of S is in; conflicts: <<S, r>>,
\* git cannot merge the two of S in r; red: <<r, k>>, the k-th foreign version of r is red.
Code == [breaks : SUBSET ((SUBSET Tasks) \X Repos), conflicts : SUBSET ((SUBSET Tasks) \X Repos),
         red : SUBSET (Repos \X Nat)]

ASSUME PipelineAssumption ==
    /\ NumRepos \in Nat \ {0} /\ MaxOutside \in [Repos -> Nat] /\ MaxFaults \in Nat
    /\ IsFiniteSet(Tasks) /\ MayClose \subseteq Tasks /\ Batching \in BOOLEAN
    /\ Work \in [Tasks -> SUBSET Repos] /\ \A t \in Tasks : Work[t] # {}
    /\ Migrates \subseteq Tasks \X Repos /\ Codes \subseteq Code

VARIABLES
    code,      \* the member of Codes this behaviour is about
    main,      \* the mainline of each repository at origin
    dev,       \* the commit DEV runs of each repository
    tree,      \* <<t, r>>: the worktree of task t in r exists
    row,       \* the release of the latest run of each task
    closed,    \* the tasks people closed
    pc,        \* where the worker is
    picked,    \* the tasks this tick took: one, or a batch
    item,      \* those of them it is still releasing
    todo,      \* those it still has to prepare or to finalise
    left,      \* the repositories still to come in the current loop
    base,      \* baselineCommit of each repository
    cand,      \* the commit to publish: validated, on top of base
    ending,    \* the task being cleaned up and the status it will get
    seen,      \* firstSeenAt
    excluded,  \* batchExcluded
    faults     \* the number of faults so far

memory == <<picked, item, todo, left, base, cand, ending>>
vars == <<code, main, dev, tree, row, closed, pc, memory, seen, excluded, faults>>

Commit == [work : SUBSET Tasks, ext : Nat]
Status == {"pending", "processing", "retrying", "waiting_mainline", "released", "blocked"}
Final == {"released", "blocked"}
Row == [st : Status, n : 0..MaxAttempts, repos : SUBSET Repos, files : SUBSET Repos,
        gate : Repos \cup {None}, proof : BOOLEAN, hold : Repos \cup {None},
        reopened : BOOLEAN]
Place == {"idle", "prepare", "integrate", "validate", "publish", "push", "record",
          "deploy", "finalize", "cleanup"}

Untouched == [r \in Repos |-> [work |-> {}, ext |-> 0]]
NoEnding == [task |-> {}, st |-> "pending"]
NewRow == [st |-> "pending", n |-> 0, repos |-> {}, files |-> {}, gate |-> None,
           proof |-> FALSE, hold |-> None, reopened |-> FALSE]

Init ==
    /\ code \in Codes
    /\ main = Untouched /\ dev = Untouched /\ base = Untouched /\ cand = Untouched
    /\ tree = {x \in Tasks \X Repos : x[2] \in Work[x[1]]}
    /\ row = [t \in Tasks |-> NewRow]
    /\ closed = {} /\ picked = {} /\ item = {} /\ todo = {} /\ left = {}
    /\ seen = {} /\ excluded = {} /\ pc = "idle" /\ ending = NoEnding /\ faults = 0

-----------------------------------------------------------------------------
(* Gates, merges and bisection. *)

(* What the gate of r says of commit c on a healthy host. *)
Green(r, c) == /\ \A b \in code.breaks : b[2] = r => ~(b[1] \subseteq c.work)
               /\ <<r, c.ext>> \notin code.red

Clash(t, S, r) == \E u \in S \ {t} : <<{t, u}, r>> \in code.conflicts
Mergeable(S, B) ==
    \A t \in S, r \in Repos : r \in Work[t] => ~Clash(t, S \cup B[r].work, r)

(* integrateGroup: what is left of a batch once every task that conflicts  *)
(* with those merged before it is out.                                     *)
Integrable(S) == {K \in SUBSET S : /\ Mergeable(K, base)
                                   /\ \A t \in S \ K : ~Mergeable(K \cup {t}, base)}

Batch == Cardinality(picked) >= 2

(* bisectCulprit: the task of the batch whose work alone turns the gate    *)
(* red, or none when neither half of the candidates does.                  *)
Bisect(r) ==
    LET red(s) == ~Green(r, [base[r] EXCEPT !.work = @ \cup Range(s)])
        blame[s \in UNION {[1..k -> Tasks] : k \in 1..Cardinality(Tasks)}] ==
            LET mid == (Len(s) + 1) \div 2
                half == SubSeq(s, 1, mid)
                rest == SubSeq(s, mid + 1, Len(s))
            IN  IF Len(s) = 1 THEN {s[1]}
                ELSE IF red(half) THEN blame[half]
                ELSE IF red(rest) THEN blame[rest]
                ELSE {}
    IN  blame[SetToSeq(item)]

-----------------------------------------------------------------------------
(* What git and the row say of the work of a task. *)

Candidate(t, r) == <<t, r>> \in tree /\ t \notin main[r].work
Already(t, r) == t \in main[r].work /\ r \in row[t].repos
Touched(t) == {r \in Repos : Candidate(t, r) \/ Already(t, r)}

(* The row names r, but its worktree is gone and its work not in main. *)
Lost(t) == \E r \in row[t].repos : <<t, r>> \notin tree /\ t \notin main[r].work

(* validateReleaseHandoff: the files of a repository that is already in    *)
(* the mainline are those the evidence recorded, if it recorded any.       *)
HandoffOK(t) ==
    /\ Touched(t) = Work[t]
    /\ \A r \in Touched(t) : <<t, r>> \in Migrates => Candidate(t, r) \/ r \in row[t].files

Refusal(t) == IF Lost(t) \/ Touched(t) = {} THEN "repository"
              ELSE IF ~HandoffOK(t) THEN "validation" ELSE "none"

(* The repositories of the tasks being released. *)
Shipped == UNION {row[t].repos : t \in item}

-----------------------------------------------------------------------------
(* Failures: what handleReleaseFailure makes of a row, and how a tick ends. *)

(* Mutant of Deterministic: a red gate is tried again without end. *)
DeterministicButGates == {"conflict", "repository"}

Deterministic == {"conflict", "validation", "repository"}

Charged(rec, kind, gate, proof) ==
    [rec EXCEPT !.n = IF @ < MaxAttempts THEN @ + 1 ELSE @,
                !.gate = gate, !.proof = IF gate = None THEN @ ELSE proof,
                !.st = IF kind \in Deterministic /\ rec.n + 1 >= MaxAttempts
                       THEN "blocked" ELSE "retrying"]
Deferred(rec) == [rec EXCEPT !.st = "retrying", !.gate = None]
Held(rec, r) == [rec EXCEPT !.st = "waiting_mainline", !.hold = r, !.gate = None]

(* Mutant of Forget: a part of the tick's own state survives it. *)
ForgetAllButItem ==
    /\ pc' = "idle" /\ picked' = {} /\ todo' = {} /\ left' = {} /\ UNCHANGED item
    /\ base' = Untouched /\ cand' = Untouched /\ ending' = NoEnding

(* The local variables of a tick end with it. *)
Forget ==
    /\ pc' = "idle" /\ picked' = {} /\ item' = {} /\ todo' = {} /\ left' = {}
    /\ base' = Untouched /\ cand' = Untouched /\ ending' = NoEnding

EndTick == Forget /\ seen' = seen \ picked

Fault == faults < MaxFaults /\ faults' = faults + 1

(* Every task of S gets the row F gives it.  A final status comes with a   *)
(* status of the task, computed from what the tick read: a task that was   *)
(* closed in the meantime is open again.                                   *)
Update(S, F(_)) ==
    /\ row' = [t \in Tasks |-> IF t \in S THEN F(row[t]) ELSE row[t]]
    /\ closed' = closed \ {t \in S : F(row[t]).st \in Final}

(* The same failure for every task still being released. *)
FailAll(kind) == /\ Update(item, LAMBDA rec : Charged(rec, kind, None, FALSE))
                 /\ EndTick

-----------------------------------------------------------------------------
(* tick: the choice of what to release. *)

Releasable(t) == t \notin closed /\ row[t].st \notin Final
Active == {t \in Tasks : Releasable(t) /\ row[t].st # "waiting_mainline"}
Waiting == {t \in Tasks : Releasable(t) /\ row[t].st = "waiting_mainline"}

Priority(t) == CASE row[t].st = "processing" -> 0
                 [] row[t].st = "retrying" -> 1
                 [] row[t].st = "pending" -> 2
                 [] OTHER -> 5

(* batchCandidates: the tasks without an attempt, grouped by repositories. *)
Batchable(S) == {t \in S : /\ Batching /\ t \notin excluded /\ row[t].n = 0
                           /\ row[t].st \in {"pending", "waiting_mainline"}}
Groups(S) == {{u \in Batchable(S) : Work[u] = Work[t]} : t \in Batchable(S)}
Largest(S) == {G \in Groups(S) : /\ Cardinality(G) >= 2
                                 /\ \A H \in Groups(S) : Cardinality(H) <= Cardinality(G)}
NextRelease(S) ==
    IF Largest(S) # {} THEN Largest(S)
              ELSE {{t} : t \in {u \in S : \A v \in S : Priority(u) <= Priority(v)}}

(* mainlineHoldReady *)
HoldReady == {t \in Waiting : row[t].hold = None \/ Green(row[t].hold, main[row[t].hold])}

(* mainlineRecoveryCandidate: blocked by a gate of which nobody showed     *)
(* that the mainline passes it, once.                                      *)
Recoverable(t) == /\ t \notin closed /\ row[t].st = "blocked"
                  /\ row[t].gate # None /\ ~row[t].proof /\ ~row[t].reopened
Reopened(rec) == LET green == Green(rec.gate, main[rec.gate])
                 IN  [rec EXCEPT !.n = 0, !.reopened = TRUE, !.gate = None,
                                 !.st = IF green THEN "retrying" ELSE "waiting_mainline",
                                 !.hold = IF green THEN @ ELSE rec.gate]

(* Mutant of Swept: the worktrees of every final release are removed. *)
SweptFinal == {x \in tree : row[x[1]].st \notin Final}

(* recoverReleasedWorktreeCleanup *)
Swept == {x \in tree : row[x[1]].st # "released"}

(* tick: the sweep, the fetch, and one release, or the recovery of blocked *)
(* ones when there is nothing to release and recoveryIntervalMs is over.   *)
Tick ==
    LET ready == Active \cap seen
        options == IF ready # {} THEN NextRelease(ready)
                   ELSE IF Active # {} THEN {} ELSE NextRelease(HoldReady)
    IN  /\ pc = "idle"
        /\ tree' = Swept /\ seen' = Active
        /\ \/ \E S \in options :
                /\ pc' = "prepare" /\ picked' = S /\ todo' = S
                /\ UNCHANGED <<row, closed>>
           \/ /\ options = {}
              /\ \/ UNCHANGED <<row, closed>>
                 \/ Active = {} /\ Update({t \in Tasks : Recoverable(t)}, Reopened)
              /\ UNCHANGED <<pc, picked, todo>>
        /\ UNCHANGED <<code, main, dev, item, left, base, cand, ending, excluded, faults>>

-----------------------------------------------------------------------------
(* releaseTask and releaseGroup up to the gates. *)

(* prepareRelease failed: a batch goes on without the task. *)
Unprepared(t, kind) ==
    /\ Update({t}, LAMBDA rec : Charged(rec, kind, None, FALSE))
    /\ IF Batch THEN /\ todo' = todo \ {t}
                     /\ UNCHANGED <<pc, picked, item, left, base, cand, ending, seen>>
                ELSE EndTick
    /\ UNCHANGED excluded

(* prepareRelease, and the place of the task in its batch: one that is not *)
(* new in every repository goes on alone later.                            *)
Prepare(t) ==
    /\ pc = "prepare" /\ t \in todo
    /\ \/ Fault /\ Unprepared(t, "transient")
       \/ /\ Refusal(t) # "none"
          /\ Unprepared(t, Refusal(t)) /\ UNCHANGED faults
       \/ LET new == \A r \in Touched(t) : Candidate(t, r)
          IN  /\ Refusal(t) = "none"
              /\ Update({t}, LAMBDA rec : [rec EXCEPT !.st = "processing", !.gate = None,
                                                      !.repos = Touched(t)])
              /\ base' = main /\ todo' = todo \ {t}
              /\ IF Batch /\ ~new
                 THEN excluded' = excluded \cup {t} /\ UNCHANGED item
                 ELSE item' = item \cup {t} /\ UNCHANGED excluded
              /\ UNCHANGED <<pc, picked, left, cand, ending, seen, faults>>
    /\ UNCHANGED <<code, main, dev, tree>>

(* The worktrees, dependencies and merges: of the tasks of a batch one     *)
(* after the other, of a single task repository by repository, each before *)
(* its gate.                                                               *)
Integrate ==
    /\ pc = "prepare" /\ todo = {} /\ picked # {}
    /\ LET group == Batch /\ Cardinality(item) >= 2
       IN  \/ \E K \in IF group THEN Integrable(item) ELSE {item} :
                /\ UNCHANGED <<row, closed, faults>>
                /\ IF Batch /\ Cardinality(K) < 2
                   THEN EndTick /\ excluded' = excluded \cup item
                   ELSE /\ excluded' = excluded \cup (item \ K)
                        /\ item' = K /\ pc' = "validate"
                        /\ left' = UNION {row[t].repos : t \in K}
                        /\ cand' = [r \in Repos |-> [base[r] EXCEPT
                                       !.work = @ \cup {t \in K : r \in row[t].repos}]]
                        /\ UNCHANGED <<picked, todo, base, ending, seen>>
           \/ /\ Batch => group
              /\ Fault /\ FailAll(IF group THEN "transient" ELSE "repository")
              /\ UNCHANGED excluded
    /\ UNCHANGED <<code, main, dev, tree>>

(* Mutant of GateRed: an earlier green gate of the repository is reused    *)
(* whatever commit it was about.                                           *)
GateRedUnlessPassed(r) == ~Green(r, cand[r]) /\ \E t \in item : r \notin row[t].files

GateRed(r) == ~Green(r, cand[r])

(* Mutant of SingleFails: the clean mainline is not probed. *)
SingleFailsUnprobed(t, r) == Update({t}, LAMBDA rec : Charged(rec, "validation", r, TRUE))
                             /\ UNCHANGED <<excluded, faults>>

(* handleReleaseFailure of a gate: the clean mainline is probed first. *)
SingleFails(t, r) ==
    /\ \/ ~Green(r, base[r]) /\ Update({t}, LAMBDA rec : Held(rec, r)) /\ UNCHANGED faults
       \/ /\ Green(r, base[r])
          /\ Update({t}, LAMBDA rec : Charged(rec, "validation", r, TRUE)) /\ UNCHANGED faults
       \/ Fault /\ Update({t}, Deferred)
       \/ Fault /\ Update({t}, LAMBDA rec : Charged(rec, "validation", r, FALSE))
    /\ UNCHANGED excluded

(* The culprit is charged and goes alone, the others are queued again. *)
Convict(c, r) ==
    /\ row' = [t \in Tasks |->
                  IF t = c THEN Charged(row[t], "validation", r, TRUE)
                  ELSE IF t \in item THEN [row[t] EXCEPT !.st = "pending"] ELSE row[t]]
    /\ excluded' = excluded \cup {c}
    /\ UNCHANGED closed

(* No culprit: the tasks go one by one. *)
Unsolved == excluded' = excluded \cup item /\ UNCHANGED <<row, closed>>

(* releaseGroup after a red gate.  A run of the bisection that falls to    *)
(* the host counts as red, so that it can name anyone.                     *)
BatchFails(r) ==
    \/ ~Green(r, base[r]) /\ Update(item, LAMBDA rec : Held(rec, r)) /\ UNCHANGED <<excluded, faults>>
    \/ /\ Green(r, base[r]) /\ UNCHANGED faults
       /\ IF Bisect(r) = {} THEN Unsolved
          ELSE \E c \in item : Bisect(r) = {c} /\ Convict(c, r)
    \/ Fault /\ Unsolved
    \/ Green(r, base[r]) /\ Fault /\ \E c \in item : Convict(c, r)

Validate ==
    /\ pc = "validate" /\ left # {}
    /\ LET r == Min(left)
           conflict == ~Batch /\ \E t \in item : Candidate(t, r) /\ Clash(t, base[r].work, r)
       IN  \/ /\ conflict
              /\ FailAll("conflict") /\ UNCHANGED <<excluded, faults>>
           \/ /\ ~conflict /\ ~GateRed(r)
              /\ left' = left \ {r}
              /\ IF Batch THEN UNCHANGED <<row, closed>>
                 ELSE Update(item, LAMBDA rec : [rec EXCEPT !.files = @ \cup {r}])
              /\ UNCHANGED <<pc, picked, item, todo, base, cand, ending, seen, excluded, faults>>
           \/ /\ ~conflict /\ GateRed(r) /\ EndTick
              /\ IF Batch THEN BatchFails(r) ELSE \A t \in item : SingleFails(t, r)
           \/ /\ ~conflict /\ Fault /\ EndTick
              /\ Update(item, Deferred) /\ UNCHANGED excluded
    /\ UNCHANGED <<code, main, dev, tree>>

-----------------------------------------------------------------------------
(* Publishing and rolling out. *)

(* The last look at the mainlines before the first push. *)
Publish ==
    /\ pc = "validate" /\ left = {}
    /\ \/ Fault /\ FailAll("transient")
       \/ /\ \E r \in Shipped : main[r] # base[r]
          /\ FailAll("transient") /\ UNCHANGED faults
       \/ /\ \A r \in Shipped : main[r] = base[r]
          /\ pc' = "push" /\ left' = Shipped
          /\ UNCHANGED <<row, closed, picked, item, todo, base, cand, ending, seen, faults>>
    /\ UNCHANGED <<code, main, dev, tree, excluded>>

(* Mutant of FastForward: the push is forced. *)
AnyPush(r) == r \in Repos

FastForward(r) == main[r] = base[r]

(* git push of one repository, which takes only a fast-forward; a push     *)
(* that fails on the network may have landed.                              *)
Push ==
    /\ pc = "push"
    /\ LET r == Min(left)
           landed == [main EXCEPT ![r] = cand[r]]
       IN  \/ /\ FastForward(r)
              /\ main' = landed /\ left' = left \ {r}
              /\ pc' = IF left # {r} THEN "push" ELSE IF Batch THEN "record" ELSE "deploy"
              /\ UNCHANGED <<row, closed, picked, item, todo, base, cand, ending, seen, faults>>
           \/ /\ ~FastForward(r)
              /\ FailAll("repository") /\ UNCHANGED <<main, faults>>
           \/ /\ Fault /\ FailAll("transient")
              /\ main' \in {main} \cup {m \in {landed} : FastForward(r)}
    /\ UNCHANGED <<code, dev, tree, excluded>>

(* A batch writes down what it published only after the last push. *)
Record ==
    /\ pc = "record"
    /\ Update(item, LAMBDA rec : [rec EXCEPT !.files = rec.repos])
    /\ pc' = "deploy"
    /\ UNCHANGED <<code, main, dev, tree, memory, seen, excluded, faults>>

(* Mutant of Rolled: what this tick did not push is not deployed again. *)
RolledIfPushed(S) == [r \in Repos |-> IF r \in S /\ cand[r] # base[r] THEN cand[r] ELSE dev[r]]

Rolled(S) == [r \in Repos |-> IF r \in S THEN cand[r] ELSE dev[r]]

(* Before the migrations and again before the build: the build context is  *)
(* not the clean published commit.                                         *)
NotBuildable == FailAll("transient") /\ UNCHANGED dev

(* A migrator failed, or it said that it will never succeed. *)
NotMigrated == \E kind \in {"transient", "validation"} : FailAll(kind) /\ UNCHANGED dev

(* Rebuild and recreate, or the proof that every service runs what was     *)
(* published: a failure leaves some of the services on the new commit.     *)
NotProven == FailAll("transient") /\ \E S \in SUBSET Shipped : dev' = Rolled(S)

(* deployAndFinalize. *)
Deploy ==
    /\ pc = "deploy"
    /\ \/ /\ dev' = Rolled(Shipped)
          /\ pc' = "finalize" /\ todo' = item
          /\ UNCHANGED <<row, closed, picked, item, left, base, cand, ending, seen, faults>>
       \/ Fault /\ (NotBuildable \/ NotMigrated \/ NotProven)
    /\ UNCHANGED <<code, main, tree, excluded>>

(* finalizeEntry: the scenario of one task on DEV, then its clean-up with  *)
(* the status it will get.                                                 *)
Clean(t, st) ==
    /\ pc' = "cleanup" /\ ending' = [task |-> {t}, st |-> st]
    /\ left' = {r \in Repos : <<t, r>> \in tree}
    /\ todo' = todo \ {t}
    /\ UNCHANGED <<row, closed, picked, item, base, cand, seen>>

Finalize(t) ==
    /\ pc = "finalize" /\ t \in todo
    /\ \/ Clean(t, "released") /\ UNCHANGED faults
       \/ Fault /\ Clean(t, "blocked")
       \/ /\ Fault
          /\ Update({t}, LAMBDA rec : Charged(rec, "transient", None, FALSE))
          /\ IF todo = {t} THEN EndTick
             ELSE /\ todo' = todo \ {t}
                  /\ UNCHANGED <<pc, picked, item, left, base, cand, ending, seen>>
    /\ UNCHANGED <<code, main, dev, tree, excluded>>

(* cleanupReleasedWorktrees, one repository; a worktree git cannot remove  *)
(* is only a warning.                                                      *)
Cleanup ==
    /\ pc = "cleanup" /\ left # {}
    /\ LET r == Min(left)
       IN  /\ left' = left \ {r}
           /\ \/ tree' = tree \ (ending.task \X {r}) /\ UNCHANGED faults
              \/ Fault /\ UNCHANGED tree
    /\ UNCHANGED <<code, main, dev, row, closed, pc, picked, item, todo, base, cand, ending,
                   seen, excluded>>

(* The final status, and with it the status of the task. *)
Seal ==
    /\ pc = "cleanup" /\ left = {}
    /\ Update(ending.task, LAMBDA rec : [rec EXCEPT !.st = ending.st, !.gate = None])
    /\ IF todo = {} THEN EndTick
       ELSE /\ pc' = "finalize" /\ ending' = NoEnding
            /\ UNCHANGED <<picked, item, todo, left, base, cand, seen>>
    /\ UNCHANGED <<code, main, dev, tree, excluded, faults>>

-----------------------------------------------------------------------------
(* The rest of the world. *)

(* An exception ends the tick: assertLease, a desk that does not answer. *)
Abort ==
    /\ pc # "idle" /\ Fault /\ Forget
    /\ UNCHANGED <<code, main, dev, tree, row, closed, seen, excluded>>

(* The process dies and starts again. *)
Crash ==
    /\ Fault /\ Forget /\ seen' = {} /\ excluded' = {}
    /\ UNCHANGED <<code, main, dev, tree, row, closed>>

(* Somebody else pushes to a mainline. *)
PushOutside(r) ==
    /\ main[r].ext < MaxOutside[r]
    /\ main' = [main EXCEPT ![r].ext = @ + 1]
    /\ UNCHANGED <<code, dev, tree, row, closed, pc, memory, seen, excluded, faults>>

(* PATCH /api/tasks/:id to done, while the release is not over. *)
Close(t) ==
    /\ t \in MayClose \ closed /\ row[t].st \notin Final
    /\ closed' = closed \cup {t}
    /\ UNCHANGED <<code, main, dev, tree, row, pc, memory, seen, excluded, faults>>

Worker ==
    \/ Tick
    \/ \E t \in Tasks : Prepare(t) \/ Finalize(t)
    \/ Integrate \/ Validate \/ Publish \/ Push \/ Record \/ Deploy \/ Cleanup \/ Seal

Next ==
    \/ Worker \/ Abort \/ Crash
    \/ \E r \in Repos : PushOutside(r)
    \/ \E t \in Tasks : Close(t)

Spec == Init /\ [][Next]_vars

(* The poll timer always comes again and every command ends or times out. *)
FairSpec == Spec /\ WF_vars(Worker)

-----------------------------------------------------------------------------
(* Properties. *)

(* Every variable keeps its type, and the tasks in hand are those picked. *)
TypeOK ==
    /\ code \in Codes
    /\ main \in [Repos -> Commit] /\ dev \in [Repos -> Commit]
    /\ base \in [Repos -> Commit] /\ cand \in [Repos -> Commit]
    /\ tree \subseteq Tasks \X Repos /\ row \in [Tasks -> Row]
    /\ closed \subseteq MayClose /\ pc \in Place /\ picked \subseteq Tasks
    /\ item \subseteq picked /\ todo \subseteq picked /\ left \subseteq Repos
    /\ ending.task \subseteq picked /\ ending.st \in Status
    /\ seen \subseteq Tasks /\ excluded \subseteq Tasks /\ faults \in 0..MaxFaults

(* A task is released only when DEV runs its work in every repository it   *)
(* changed, whichever of the pushes, deployments and clean-ups had to be   *)
(* repeated or were done by another release.                               *)
ReleasedIsLive ==
    \A t \in Tasks : row[t].st = "released" => \A r \in Work[t] : t \in dev[r].work

(* Until the work of a task is in the mainline, its worktree is there: no  *)
(* clean-up, of whatever release and however interrupted, destroys it.     *)
WorkNeverLost ==
    \A t \in Tasks : \A r \in Work[t] : <<t, r>> \in tree \/ t \in main[r].work

Guilty(t, r) == \E b \in code.breaks : b[2] = r /\ t \in b[1]

(* A task blocked by a gate of which the evidence says that the clean      *)
(* mainline passes it has a part in the failure; the innocent are left to  *)
(* recoverMainlineBlockedTasks.                                            *)
OnlyGuiltyBlocked ==
    \A t \in Tasks : row[t].st = "blocked" /\ row[t].gate # None /\ row[t].proof
                        => Guilty(t, row[t].gate)

(* The worker never turns a green mainline red: what it pushes was         *)
(* validated as a whole, on top of what it is pushed on.                   *)
GreenStaysGreen ==
    [][\A r \in Repos : Green(r, main[r]) /\ main'[r].ext = main[r].ext
                            => Green(r, main'[r])]_vars

AtLeast(c, d) == d.work \subseteq c.work /\ d.ext <= c.ext

(* Nothing that reached a mainline or DEV is ever taken back, by a retry   *)
(* of an old release or by another task's push.                            *)
NothingUndone ==
    [][\A r \in Repos : AtLeast(main'[r], main[r]) /\ AtLeast(dev'[r], dev[r])]_vars

(* DEV never runs one part of a task while another part of it is not even  *)
(* in its mainline (server/release-worker.js:896-898).                     *)
PartNeverShipped ==
    \A t \in Tasks : (\E r \in Work[t] : t \in dev[r].work)
                        => \A r \in Work[t] : t \in main[r].work

Settled(t) == \/ row[t].st \in Final \/ t \in closed
              \/ row[t].st = "waiting_mainline" /\ ~Green(row[t].hold, main[row[t].hold])

(* Once the machines behave, every task is released or blocked, or waits   *)
(* for a mainline that is red: no batch is formed, solved and dropped for  *)
(* ever, no hold outlives its cause.                                       *)
EveryReleaseSettles == \A t \in Tasks : <>[]Settled(t)
=============================================================================
