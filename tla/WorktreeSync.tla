------------------------------ MODULE WorktreeSync ------------------------------
(***************************************************************************)
(* The worktree of a task in one repository (codex-worker.js,              *)
(* ensureWorktrees and synchronizeWorktreeBaseline): before every run the  *)
(* task branch is brought onto the newest mainline, by git commands one    *)
(* after the other, any of which may fail or be the last one.  The release *)
(* worker commits what the agent left, publishes the branch and clears the *)
(* worktree away (prepareRelease, releaseTask, cleanupReleasedWorktrees).  *)
(*                                                                         *)
(* Abstracted: mainline commits are numbered; a commit of the task is the  *)
(* mainline commit it is based on and the pieces of work between; whether  *)
(* a rebase or merge conflicts is free; the gates of a release and the     *)
(* other repositories of the task are in ReleasePipeline.  A run and a     *)
(* release of one task exclude each other (AgentRuns).                     *)
(***************************************************************************)
EXTENDS Integers, FiniteSets

CONSTANTS MaxMain,   \* bound: mainline commits
          MaxWork,   \* bound: pieces of work
          MaxFaults  \* bound: crashes and failed git commands

ASSUME SyncAssumption == {MaxMain, MaxWork, MaxFaults} \subseteq Nat

VARIABLES main,       \* the newest mainline commit
          published,  \* work that is in the mainline
          branch,     \* refs/heads/codex/qa-<task>
          tree,       \* the worktree, its HEAD and what is not committed
          preserved,  \* work under refs/gba-qa/preserved
          sync,       \* the synchronisation
          done,       \* pieces of work committed so far
          strayed,    \* those of them that were committed off the branch
          dropped,    \* those of them that a revert took away
          faults
vars == <<main, published, branch, tree, preserved, sync, done, strayed, dropped, faults>>

Works == 1 .. MaxWork
Commits == [base : 0 .. MaxMain, work : SUBSET Works]
NoCommit == [base |-> 0, work |-> {0}]
NoTree == [there |-> FALSE, attached |-> TRUE, head |-> NoCommit, rebasing |-> FALSE, wip |-> FALSE]
Rest == [pc |-> "idle", base |-> 0, head |-> NoCommit]

PCs == {"idle", "add", "look", "forward", "rebase", "conflict", "preserve", "detach", "move",
        "back", "switch", "agent", "ended", "candidate", "clean"}
TypeOK ==
    /\ main \in 0 .. MaxMain /\ published \subseteq Works
    /\ branch \in Commits \union {NoCommit}
    /\ tree \in [there : BOOLEAN, attached : BOOLEAN, head : Commits \union {NoCommit},
                 rebasing : BOOLEAN, wip : BOOLEAN]
    /\ tree.there => (tree.attached => tree.head = NoCommit) /\ (~tree.attached => tree.head \in Commits)
    /\ preserved \subseteq Works
    /\ sync \in [pc : PCs, base : 0 .. MaxMain, head : Commits \union {NoCommit}]
    /\ done \subseteq Works /\ strayed \subseteq done /\ dropped \subseteq Works
    /\ faults \in 0 .. MaxFaults

Init ==
    /\ main = 0 /\ published = {}
    /\ branch = NoCommit
    /\ tree = NoTree
    /\ preserved = {}
    /\ sync = Rest
    /\ done = {} /\ strayed = {} /\ dropped = {}
    /\ faults = 0

Head == IF tree.attached THEN branch ELSE tree.head
(* HEAD moves, and the branch with it when HEAD is on the branch. *)
MoveHead(c) ==
    IF tree.attached THEN branch' = c /\ UNCHANGED tree
                     ELSE tree' = [tree EXCEPT !.head = c] /\ UNCHANGED branch
Goto(pc) == sync' = [sync EXCEPT !.pc = pc]
Records == <<published, done, strayed, dropped>>

-----------------------------------------------------------------------------
(* ensureWorktrees: the mainline commit is resolved once. *)
Start ==
    /\ sync.pc = "idle"
    /\ sync' = [Rest EXCEPT !.pc = IF tree.there THEN "look" ELSE "add", !.base = main]
    /\ UNCHANGED <<main, branch, tree, preserved, Records, faults>>

(* git worktree add: of the task branch, or of a new one. *)
AddWorktree ==
    /\ sync.pc = "add"
    /\ branch' = IF branch = NoCommit THEN [base |-> sync.base, work |-> {}] ELSE branch
    /\ tree' = [NoTree EXCEPT !.there = TRUE]
    /\ Goto("look")
    /\ UNCHANGED <<main, preserved, Records, faults>>

(* Mutant of Current: a branch with commits of its own needs no mainline. *)
CurrentIfWorked(c, base) == c.base >= base \/ c.work # {}

(* git status, rev-parse HEAD, merge-base: where HEAD is from the mainline *)
(* commit.  A conflict that is not resolved shows up as uncommitted work.  *)
Current(c, base)  == c.base >= base
Behind(c, base)   == c.base < base /\ c.work = {}
Diverged(c, base) == c.base < base /\ c.work # {}
Look ==
    /\ sync.pc = "look"
    /\ \/ Current(Head, sync.base) /\ Goto("agent")
       \/ Behind(Head, sync.base) /\ Goto("forward")
       \/ /\ Diverged(Head, sync.base)
          /\ tree.wip \/ tree.rebasing
          /\ sync' = [Rest EXCEPT !.pc = "ended"]
       \/ /\ Diverged(Head, sync.base) /\ ~tree.wip
          /\ sync' = [sync EXCEPT !.pc = "rebase", !.head = Head]
    /\ UNCHANGED <<main, branch, tree, preserved, Records, faults>>

(* git merge --ff-only, which uncommitted work may forbid. *)
Forward ==
    /\ sync.pc = "forward"
    /\ \/ MoveHead([base |-> sync.base, work |-> {}]) /\ Goto("agent")
       \/ tree.wip /\ sync' = [Rest EXCEPT !.pc = "ended"] /\ UNCHANGED <<branch, tree>>
    /\ UNCHANGED <<main, preserved, Records, faults>>

(* git rebase: HEAD leaves the branch, which follows when all the work is  *)
(* replayed.  It does not start inside a rebase that was interrupted; one  *)
(* that starts off the branch is not interrupted here.                     *)
Replayed == {[base |-> sync.base, work |-> w] : w \in SUBSET sync.head.work \ {sync.head.work}}
Rebase ==
    /\ sync.pc = "rebase"
    /\ \/ /\ ~tree.rebasing
          /\ MoveHead([sync.head EXCEPT !.base = sync.base])
          /\ Goto("agent")
       \/ /\ ~tree.rebasing /\ tree.attached
          /\ tree' \in {[tree EXCEPT !.attached = FALSE, !.rebasing = TRUE, !.head = c] : c \in Replayed}
          /\ Goto("conflict") /\ UNCHANGED branch
       \/ /\ ~tree.attached
          /\ Goto("conflict") /\ UNCHANGED <<branch, tree>>
    /\ UNCHANGED <<main, preserved, Records, faults>>

(* git rebase --abort: of this rebase or of the one before, if there is one. *)
Attached == [tree EXCEPT !.attached = TRUE, !.head = NoCommit, !.rebasing = FALSE]
Abort ==
    /\ sync.pc = "conflict"
    /\ tree' = IF tree.rebasing THEN Attached ELSE tree
    /\ Goto("preserve")
    /\ UNCHANGED <<main, branch, preserved, Records, faults>>

(* git update-ref of the preserved ref. *)
Preserve ==
    /\ sync.pc = "preserve"
    /\ preserved' = preserved \union sync.head.work
    /\ Goto("detach")
    /\ UNCHANGED <<main, branch, tree, Records, faults>>

(* git switch --detach *)
Detach ==
    /\ sync.pc = "detach"
    /\ tree' = [tree EXCEPT !.attached = FALSE, !.head = [base |-> sync.base, work |-> {}]]
    /\ Goto("move")
    /\ UNCHANGED <<main, branch, preserved, Records, faults>>

(* Mutant of MoveBranch: it is moved without looking where it is. *)
MoveBranchBlindly ==
    /\ sync.pc = "move"
    /\ branch' = [base |-> sync.base, work |-> {}]
    /\ Goto("switch")
    /\ UNCHANGED <<main, tree, preserved, Records, faults>>

(* git update-ref of the task branch, if it still is where HEAD was. *)
MoveBranch ==
    /\ sync.pc = "move"
    /\ IF branch = sync.head
       THEN branch' = [base |-> sync.base, work |-> {}] /\ Goto("switch")
       ELSE Goto("back") /\ UNCHANGED branch
    /\ UNCHANGED <<main, tree, preserved, Records, faults>>

(* git switch to the task branch, after all or because it did not move. *)
SwitchBack ==
    /\ sync.pc \in {"switch", "back"}
    /\ tree' = Attached
    /\ sync' = IF sync.pc = "switch" THEN [sync EXCEPT !.pc = "agent"] ELSE [Rest EXCEPT !.pc = "ended"]
    /\ UNCHANGED <<main, branch, preserved, Records, faults>>

(* A git command fails (a lock, no room): the synchronisation ends with an *)
(* error, once the branch that did not move is checked out again.          *)
CommandFails ==
    /\ faults < MaxFaults /\ faults' = faults + 1
    /\ sync.pc \in {"add", "look", "preserve", "detach", "move", "back", "switch"}
    /\ sync' = IF sync.pc = "move" THEN [sync EXCEPT !.pc = "back"] ELSE [Rest EXCEPT !.pc = "ended"]
    /\ UNCHANGED <<main, branch, tree, preserved, Records>>

(* The worker dies between two commands; the run is over. *)
Crash ==
    /\ faults < MaxFaults /\ faults' = faults + 1
    /\ sync.pc \notin {"idle", "ended", "candidate", "clean"}
    /\ sync' = [Rest EXCEPT !.pc = "ended"]
    /\ UNCHANGED <<main, branch, tree, preserved, Records>>

-----------------------------------------------------------------------------
(* The agent changes files and does not commit. *)
Agent ==
    /\ sync.pc = "agent"
    /\ tree' \in {tree, [tree EXCEPT !.wip = TRUE]}
    /\ sync' = [Rest EXCEPT !.pc = "ended"]
    /\ UNCHANGED <<main, branch, preserved, Records, faults>>

(* What is left of the run: another run, a revert or a release. *)
Again ==
    /\ sync.pc = "ended"
    /\ sync' = Rest
    /\ UNCHANGED <<main, branch, tree, preserved, Records, faults>>

(* revertTaskWork: worktree and branch are removed. *)
Committed(c) == IF c = NoCommit THEN {} ELSE c.work
Revert ==
    /\ sync.pc = "ended"
    /\ dropped' = dropped \union Committed(branch)
                     \union (IF tree.there THEN Committed(tree.head) ELSE {})
    /\ branch' = NoCommit
    /\ tree' = NoTree
    /\ sync' = Rest
    /\ UNCHANGED <<main, published, preserved, done, strayed, faults>>

(* prepareRelease: what is not committed is committed where HEAD is; then  *)
(* the branch is looked at.  A branch without work of its own is no part   *)
(* of the release, which fails or goes on with the other repositories.     *)
NextWork == 1 + Cardinality(done)
OnTopOf(c) == [c EXCEPT !.work = @ \union {NextWork}]
Commit ==
    \/ ~tree.wip /\ UNCHANGED <<branch, tree, done, strayed>>
    \/ /\ tree.wip /\ NextWork \in Works
       /\ done' = done \union {NextWork}
       /\ \/ /\ tree.attached
             /\ branch' = OnTopOf(branch)
             /\ tree' = [tree EXCEPT !.wip = FALSE]
             /\ UNCHANGED strayed
          \/ /\ ~tree.attached
             /\ tree' = [tree EXCEPT !.wip = FALSE, !.head = OnTopOf(tree.head)]
             /\ strayed' = strayed \union {NextWork}
             /\ UNCHANGED branch
Prepare ==
    /\ sync.pc = "ended" /\ tree.there
    /\ Commit
    /\ \/ branch'.work # {} /\ Goto("candidate")
       \/ branch'.work = {} /\ sync' \in {Rest, [Rest EXCEPT !.pc = "clean"]}
    /\ UNCHANGED <<main, published, preserved, dropped, faults>>

(* The mainline is merged into HEAD, the result is validated and published *)
(* if the branch is at it and the mainline has not moved; otherwise the    *)
(* release is put off or refused, before the merge or after it.            *)
Publish ==
    /\ sync.pc = "candidate"
    /\ \/ /\ main < MaxMain /\ tree.attached
          /\ main' = main + 1
          /\ published' = published \union branch.work
          /\ branch' = [base |-> main + 1, work |-> {}]
          /\ Goto("clean") /\ UNCHANGED tree
       \/ /\ MoveHead([Head EXCEPT !.base = main])
          /\ sync' = Rest /\ UNCHANGED <<main, published>>
       \/ sync' = Rest /\ UNCHANGED <<main, published, branch, tree>>
    /\ UNCHANGED <<preserved, done, strayed, dropped, faults>>

(* Mutant of Clean: the worktree is not removed, only the branch. *)
CleanBranchOnly ==
    /\ sync.pc = "clean"
    /\ tree' = [tree EXCEPT !.wip = FALSE]
    /\ branch' = IF branch.work = {} THEN NoCommit ELSE branch
    /\ sync' = Rest
    /\ UNCHANGED <<main, published, preserved, done, strayed, dropped, faults>>

(* cleanupReleasedWorktrees: the worktree is removed by force, the branch  *)
(* when it is a part of the mainline.                                      *)
Clean ==
    /\ sync.pc = "clean"
    /\ tree' = NoTree
    /\ branch' = IF branch.work = {} THEN NoCommit ELSE branch
    /\ sync' = Rest
    /\ UNCHANGED <<main, published, preserved, done, strayed, dropped, faults>>

(* Other tasks are released. *)
MainMoves ==
    /\ main < MaxMain
    /\ main' = main + 1
    /\ UNCHANGED <<published, branch, tree, preserved, sync, done, strayed, dropped, faults>>

Next ==
    \/ Start \/ AddWorktree \/ Look \/ Forward
    \/ Rebase \/ Abort \/ Preserve \/ Detach \/ MoveBranch \/ SwitchBack
    \/ CommandFails \/ Crash
    \/ Agent \/ Again \/ Revert \/ Prepare \/ Publish \/ Clean
    \/ MainMoves

Spec == Init /\ [][Next]_vars

-----------------------------------------------------------------------------
(* codex-worker.js, synchronizeWorktreeBaseline: "Keep that commit         *)
(* reachable".  Whatever command is the last one, work committed on the    *)
(* task branch is in the mainline, on the branch or under a preserved ref, *)
(* until somebody reverts it.  Work is committed off the branch, where     *)
(* nobody publishes it, only after a synchronisation was cut short between *)
(* leaving the branch and coming back to it.                               *)
WorkKept ==
    /\ done \ (strayed \union dropped) \subseteq published \union preserved \union Committed(branch)
    /\ faults = 0 => strayed = {}

(* The agent works on the mainline it was told, with the earlier work of   *)
(* the task before it or kept aside; only a rebase that was cut short      *)
(* leaves some of it behind on the branch.                                 *)
AgentSeesAll ==
    sync.pc = "agent" =>
        /\ Head.base >= sync.base
        /\ done \ (published \union strayed \union dropped) \subseteq
               Head.work \union preserved \union (IF tree.attached THEN {} ELSE branch.work)

=============================================================================
