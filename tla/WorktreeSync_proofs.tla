-------------------------- MODULE WorktreeSync_proofs --------------------------
(***************************************************************************)
(* Committed work is never lost by a synchronisation, for every number of  *)
(* mainline commits, pieces of work and faults.  The invariant IInv adds   *)
(* to TypeOK what a command may rely on of the commands before it.         *)
(***************************************************************************)
EXTENDS WorktreeSync, TLAPS

InTree == {"look", "forward", "rebase", "conflict", "preserve", "detach", "move", "back",
           "switch", "agent", "candidate"}

(* There is a worktree wherever a command needs one, and its branch exists. *)
TreeThere ==
    /\ sync.pc \in InTree => tree.there
    /\ tree.there => branch \in Commits

(* What Look saw of HEAD still holds when the next command runs. *)
HeadSeen ==
    /\ sync.pc = "forward" => Head.work = {}
    /\ sync.pc = "rebase" => sync.head = Head
    /\ sync.pc \in {"rebase", "conflict", "preserve"} => sync.head \in Commits

(* Before the branch is moved, its work has a preserved ref. *)
KeptAside == sync.pc \in {"detach", "move"} => sync.head.work \subseteq preserved

(* Without a fault, HEAD is off the branch only between the commands that  *)
(* take it away and bring it back.                                         *)
OnBranch ==
    faults = 0 =>
        /\ tree.attached \/ sync.pc \in {"conflict", "move", "back", "switch"}
        /\ sync.pc = "conflict" => tree.rebasing

IInv == TypeOK /\ WorkKept /\ TreeThere /\ HeadSeen /\ KeptAside /\ OnBranch

-----------------------------------------------------------------------------
(* How the records keep their type. *)
SyncType == [pc : PCs, base : 0 .. MaxMain, head : Commits \union {NoCommit}]
TreeType == [there : BOOLEAN, attached : BOOLEAN, head : Commits \union {NoCommit},
             rebasing : BOOLEAN, wip : BOOLEAN]

LEMMA SyncTypes ==
    /\ \A s \in SyncType, pc \in PCs : [s EXCEPT !.pc = pc] \in SyncType
    /\ \A pc \in PCs : [Rest EXCEPT !.pc = pc] \in SyncType
    /\ \A s \in SyncType, c \in Commits : [s EXCEPT !.pc = "rebase", !.head = c] \in SyncType
    /\ Rest \in SyncType
<1>1. Rest \in SyncType
  BY SyncAssumption DEF SyncType, Rest, PCs
<1>2. \A s \in SyncType, pc \in PCs : [s EXCEPT !.pc = pc] \in SyncType
  BY DEF SyncType
<1>3. \A s \in SyncType, c \in Commits : [s EXCEPT !.pc = "rebase", !.head = c] \in SyncType
  BY DEF SyncType, PCs
<1> QED BY <1>1, <1>2, <1>3

LEMMA CommitTypes ==
    /\ \A b \in 0 .. MaxMain : [base |-> b, work |-> {}] \in Commits
    /\ \A c \in Commits, b \in 0 .. MaxMain :
          [c EXCEPT !.base = b] \in Commits /\ [c EXCEPT !.base = b].work = c.work
    /\ NextWork \in Works => \A c \in Commits : OnTopOf(c) \in Commits
BY DEF Commits, OnTopOf

(* A step that changes only the synchronisation, and counts a fault. *)
LEMMA OnlySyncTypes ==
    ASSUME TypeOK, UNCHANGED <<main, branch, tree, preserved, Records>>,
           sync' \in SyncType, faults' \in 0 .. MaxFaults
    PROVE  TypeOK'
BY DEF TypeOK, SyncType, Records

LEMMA TypedSync == TypeOK => sync \in SyncType
BY DEF TypeOK, SyncType

(* The commit HEAD is at is a commit when there is a worktree. *)
LEMMA HeadTypes == ASSUME IInv, tree.there PROVE Head \in Commits
BY DEF IInv, TypeOK, TreeThere, Head

-----------------------------------------------------------------------------
(* Every step keeps the invariant, one lemma for each action. *)

LEMMA InitInv == Init => IInv
BY SyncAssumption DEF Init, IInv, TypeOK, WorkKept, TreeThere, HeadSeen,
   KeptAside, OnBranch, InTree, NoTree, Rest, PCs

LEMMA StartKeeps == ASSUME IInv, Start PROVE IInv'
<1>1. TypeOK'
  BY DEF IInv, TypeOK, PCs, Start, Rest, Records
<1>2. WorkKept'
  BY DEF IInv, WorkKept, Start, Records
<1>3. TreeThere'
  BY DEF IInv, TreeThere, InTree, Start
<1>4. HeadSeen'
  BY DEF IInv, HeadSeen, Start
<1>5. KeptAside'
  BY DEF IInv, KeptAside, Start
<1>6. OnBranch'
  BY DEF IInv, OnBranch, Start
<1> QED BY <1>1, <1>2, <1>3, <1>4, <1>5, <1>6 DEF IInv

LEMMA AddWorktreeKeeps == ASSUME IInv, AddWorktree PROVE IInv'
<1>1. TypeOK'
  BY DEF IInv, TypeOK, Commits, PCs, AddWorktree, Goto, Records, NoTree
<1>2. WorkKept'
  BY DEF IInv, WorkKept, Committed, AddWorktree, Records
<1>3. TreeThere'
  BY DEF IInv, TypeOK, TreeThere, Commits, AddWorktree
<1>4. HeadSeen'
  BY DEF IInv, HeadSeen, AddWorktree, Goto
<1>5. KeptAside'
  BY DEF IInv, KeptAside, AddWorktree, Goto
<1>6. OnBranch'
  BY DEF IInv, OnBranch, AddWorktree, Goto, NoTree
<1> QED BY <1>1, <1>2, <1>3, <1>4, <1>5, <1>6 DEF IInv

LEMMA LookKeeps == ASSUME IInv, Look PROVE IInv'
<1>1. TypeOK'
  <2>1. sync' \in SyncType
    <3>1. Head \in Commits
      BY HeadTypes DEF IInv, TreeThere, InTree, Look
    <3>2. sync \in SyncType
      BY TypedSync DEF IInv
    <3>3. CASE Goto("agent") \/ Goto("forward")
      BY <3>2, <3>3, SyncTypes DEF PCs, Goto
    <3>4. CASE sync' = [Rest EXCEPT !.pc = "ended"]
      BY <3>4, SyncTypes DEF PCs
    <3>5. CASE sync' = [sync EXCEPT !.pc = "rebase", !.head = Head]
      BY <3>1, <3>2, <3>5, SyncTypes
    <3> QED BY <3>3, <3>4, <3>5 DEF Look
  <2> QED BY <2>1, OnlySyncTypes DEF IInv, TypeOK, Look
<1>2. WorkKept'
  BY DEF IInv, WorkKept, Look, Records, Current, Behind, Diverged
<1>3. TreeThere'
  BY DEF IInv, TreeThere, InTree, Look, Current, Behind, Diverged
<1>4. HeadSeen'
  BY DEF IInv, TypeOK, TreeThere, HeadSeen, InTree, Look, Goto, Rest, Head,
     Current, Behind, Diverged
<1>5. KeptAside'
  BY DEF IInv, TypeOK, KeptAside, Look, Goto, Rest, Current, Behind, Diverged
<1>6. OnBranch'
  BY DEF IInv, TypeOK, OnBranch, Look, Goto, Rest, Current, Behind, Diverged
<1> QED BY <1>1, <1>2, <1>3, <1>4, <1>5, <1>6 DEF IInv

LEMMA ForwardKeeps == ASSUME IInv, Forward PROVE IInv'
<1>1. TypeOK'
  BY SyncAssumption DEF IInv, TypeOK, Commits, Works, PCs, Forward, MoveHead,
     Goto, Rest, Records
<1>2. WorkKept'
  BY DEF IInv, WorkKept, HeadSeen, Committed, Forward, MoveHead, Records, Head
<1>3. TreeThere'
  BY DEF IInv, TypeOK, TreeThere, InTree, Commits, Forward, MoveHead
<1>4. HeadSeen'
  BY DEF IInv, TypeOK, HeadSeen, Forward, MoveHead, Goto, Rest
<1>5. KeptAside'
  BY DEF IInv, TypeOK, KeptAside, Forward, MoveHead, Goto, Rest
<1>6. OnBranch'
  BY DEF IInv, TypeOK, OnBranch, Forward, MoveHead, Goto, Rest
<1> QED BY <1>1, <1>2, <1>3, <1>4, <1>5, <1>6 DEF IInv

(* The three ways a rebase ends. *)
Replays == ~tree.rebasing /\ MoveHead([sync.head EXCEPT !.base = sync.base]) /\ Goto("agent")
Stops == /\ tree.attached
         /\ tree' \in {[tree EXCEPT !.attached = FALSE, !.rebasing = TRUE, !.head = c] : c \in Replayed}
         /\ Goto("conflict") /\ UNCHANGED branch
Refuses == ~tree.attached /\ Goto("conflict") /\ UNCHANGED <<branch, tree>>

LEMMA RebaseKeeps == ASSUME IInv, Rebase PROVE IInv'
<1>1. Replays \/ Stops \/ Refuses
  BY DEF Rebase, Replays, Stops, Refuses
<1>2. sync' \in SyncType
  BY TypedSync, SyncTypes DEF IInv, PCs, Rebase, Goto
<1>3. sync.head = Head /\ sync.head \in Commits /\ tree.there /\ branch \in Commits
  BY DEF IInv, TreeThere, HeadSeen, InTree, Rebase
<1>4. UNCHANGED <<main, preserved, Records, faults>> /\ sync'.head = sync.head
  BY TypedSync DEF IInv, SyncType, Rebase, Goto
<1>5. CASE Replays
  <2> DEFINE c == [sync.head EXCEPT !.base = sync.base]
  <2>1. c \in Commits /\ c.work = sync.head.work
    BY <1>3, CommitTypes DEF IInv, TypeOK
  <2>2. MoveHead(c) /\ sync'.pc = "agent"
    BY <1>5, TypedSync DEF IInv, Replays, Goto
  <2> HIDE DEF c
  <2>3. TypeOK' /\ tree'.there /\ branch' \in Commits /\ tree'.attached = tree.attached
    BY <1>2, <1>3, <1>4, <2>1, <2>2 DEF IInv, TypeOK, SyncType, MoveHead,
       Records
  <2>4. WorkKept'
    BY <1>3, <1>4, <2>1, <2>2 DEF IInv, TypeOK, WorkKept, MoveHead, Head,
       Committed, Records, NoCommit, Works
  <2>5. OnBranch'
    BY <1>4, <1>5, <2>2, <2>3 DEF IInv, OnBranch, Rebase
  <2> QED BY <2>2, <2>3, <2>4, <2>5 DEF IInv, TreeThere, HeadSeen, KeptAside
<1>6. CASE Stops
  <2>1. PICK c \in Replayed : tree' = [tree EXCEPT !.attached = FALSE, !.rebasing = TRUE, !.head = c]
    BY <1>6 DEF Stops
  <2>2. c \in Commits
    BY <1>3 DEF IInv, TypeOK, Replayed, Commits
  <2>3. tree' \in TreeType /\ tree'.there /\ ~tree'.attached /\ tree'.rebasing /\ tree'.head = c
    BY <1>3, <2>1, <2>2 DEF IInv, TypeOK, TreeType
  <2>4. sync'.pc = "conflict" /\ UNCHANGED branch
    BY <1>6, TypedSync DEF IInv, Stops, Goto, SyncType
  <2>5. TypeOK'
    BY <1>2, <1>4, <2>2, <2>3, <2>4 DEF IInv, TypeOK, SyncType, TreeType,
       Records
  <2>6. WorkKept'
    BY <1>4, <2>4 DEF IInv, WorkKept, Records
  <2> QED BY <1>3, <1>4, <2>3, <2>4, <2>5, <2>6 DEF IInv, TreeThere, HeadSeen,
             KeptAside, OnBranch
<1>7. CASE Refuses
  <2>1. sync'.pc = "conflict" /\ UNCHANGED <<branch, tree>>
    BY <1>7, TypedSync DEF IInv, Refuses, Goto
  <2>2. TypeOK'
    BY <1>2, <1>4, <2>1 DEF IInv, TypeOK, SyncType, Records
  <2>3. WorkKept'
    BY <1>4, <2>1 DEF IInv, WorkKept, Records
  <2>4. OnBranch'
    BY <1>4, <1>7, <2>1 DEF IInv, OnBranch, Rebase, Refuses
  <2> QED BY <1>3, <1>4, <2>1, <2>2, <2>3, <2>4 DEF IInv, TreeThere, HeadSeen,
             KeptAside
<1> QED BY <1>1, <1>5, <1>6, <1>7

LEMMA AbortKeeps == ASSUME IInv, Abort PROVE IInv'
<1>1. TypeOK'
  BY DEF IInv, TypeOK, PCs, Abort, Attached, Goto, Records
<1>2. WorkKept'
  BY DEF IInv, WorkKept, Abort, Attached, Records
<1>3. TreeThere'
  BY DEF IInv, TreeThere, InTree, Abort, Attached
<1>4. HeadSeen'
  BY DEF IInv, HeadSeen, Abort, Attached, Goto
<1>5. KeptAside'
  BY DEF IInv, KeptAside, Abort, Attached, Goto
<1>6. OnBranch'
  BY DEF IInv, OnBranch, Abort, Attached, Goto
<1> QED BY <1>1, <1>2, <1>3, <1>4, <1>5, <1>6 DEF IInv

LEMMA PreserveKeeps == ASSUME IInv, Preserve PROVE IInv'
<1>1. TypeOK'
  BY DEF IInv, TypeOK, HeadSeen, Commits, PCs, Preserve, Goto, Records
<1>2. WorkKept'
  BY DEF IInv, WorkKept, Preserve, Records
<1>3. TreeThere'
  BY DEF IInv, TreeThere, InTree, Preserve
<1>4. HeadSeen'
  BY DEF IInv, HeadSeen, Preserve, Goto
<1>5. KeptAside'
  BY DEF IInv, KeptAside, Preserve, Goto
<1>6. OnBranch'
  BY DEF IInv, OnBranch, Preserve, Goto
<1> QED BY <1>1, <1>2, <1>3, <1>4, <1>5, <1>6 DEF IInv

LEMMA DetachKeeps == ASSUME IInv, Detach PROVE IInv'
<1>1. TypeOK'
  BY DEF IInv, TypeOK, Commits, PCs, Detach, Goto, Records
<1>2. WorkKept'
  BY DEF IInv, WorkKept, Detach, Records
<1>3. TreeThere'
  BY DEF IInv, TreeThere, InTree, Detach
<1>4. HeadSeen'
  BY DEF IInv, HeadSeen, Detach, Goto
<1>5. KeptAside'
  BY DEF IInv, KeptAside, Detach, Goto
<1>6. OnBranch'
  BY DEF IInv, OnBranch, Detach, Goto
<1> QED BY <1>1, <1>2, <1>3, <1>4, <1>5, <1>6 DEF IInv

LEMMA MoveBranchKeeps == ASSUME IInv, MoveBranch PROVE IInv'
<1>1. TypeOK'
  BY DEF IInv, TypeOK, Commits, PCs, MoveBranch, Goto, Records
<1>2. WorkKept'
  BY DEF IInv, WorkKept, KeptAside, Committed, MoveBranch, Records
<1>3. TreeThere'
  BY DEF IInv, TypeOK, TreeThere, InTree, Commits, MoveBranch
<1>4. HeadSeen'
  BY DEF IInv, TypeOK, HeadSeen, MoveBranch, Goto
<1>5. KeptAside'
  BY DEF IInv, TypeOK, KeptAside, MoveBranch, Goto
<1>6. OnBranch'
  BY DEF IInv, TypeOK, OnBranch, MoveBranch, Goto
<1> QED BY <1>1, <1>2, <1>3, <1>4, <1>5, <1>6 DEF IInv

LEMMA SwitchBackKeeps == ASSUME IInv, SwitchBack PROVE IInv'
<1>1. TypeOK'
  <2>1. sync' \in SyncType
    BY TypedSync, SyncTypes DEF IInv, PCs, SwitchBack
  <2>2. tree' \in TreeType
    BY DEF IInv, TypeOK, TreeType, SwitchBack, Attached
  <2> QED BY <2>1, <2>2 DEF IInv, TypeOK, SyncType, SwitchBack, Attached,
             Records
<1>2. WorkKept'
  BY DEF IInv, WorkKept, SwitchBack, Attached, Records
<1>3. TreeThere'
  BY DEF IInv, TreeThere, InTree, SwitchBack, Attached
<1>4. HeadSeen'
  BY DEF IInv, HeadSeen, SwitchBack, Attached
<1>5. KeptAside'
  BY DEF IInv, KeptAside, SwitchBack, Attached
<1>6. OnBranch'
  BY DEF IInv, OnBranch, SwitchBack, Attached
<1> QED BY <1>1, <1>2, <1>3, <1>4, <1>5, <1>6 DEF IInv

LEMMA CommandFailsKeeps == ASSUME IInv, CommandFails PROVE IInv'
<1>1. TypeOK'
  <2>1. sync' \in SyncType
    BY TypedSync, SyncTypes DEF IInv, PCs, CommandFails
  <2> QED BY <2>1, OnlySyncTypes, SyncAssumption DEF IInv, TypeOK, CommandFails
<1>2. WorkKept'
  BY DEF IInv, TypeOK, WorkKept, CommandFails, Records
<1>3. TreeThere'
  BY DEF IInv, TreeThere, InTree, CommandFails
<1>4. HeadSeen'
  BY DEF IInv, HeadSeen, CommandFails
<1>5. KeptAside'
  BY DEF IInv, KeptAside, CommandFails
<1>6. OnBranch'
  BY DEF IInv, TypeOK, OnBranch, CommandFails
<1> QED BY <1>1, <1>2, <1>3, <1>4, <1>5, <1>6 DEF IInv

LEMMA CrashKeeps == ASSUME IInv, Crash PROVE IInv'
<1>1. TypeOK'
  <2>1. sync' \in SyncType
    BY TypedSync, SyncTypes DEF IInv, PCs, Crash
  <2> QED BY <2>1, OnlySyncTypes, SyncAssumption DEF IInv, TypeOK, Crash
<1>2. WorkKept'
  BY DEF IInv, TypeOK, WorkKept, Crash, Records
<1>3. TreeThere'
  BY DEF IInv, TreeThere, InTree, Crash
<1>4. HeadSeen'
  BY DEF IInv, HeadSeen, Crash
<1>5. KeptAside'
  BY DEF IInv, KeptAside, Crash
<1>6. OnBranch'
  BY DEF IInv, TypeOK, OnBranch, Crash
<1> QED BY <1>1, <1>2, <1>3, <1>4, <1>5, <1>6 DEF IInv

LEMMA AgentKeeps == ASSUME IInv, Agent PROVE IInv'
<1>1. TypeOK'
  <2>1. sync' \in SyncType
    BY SyncTypes DEF PCs, Agent
  <2>2. tree' \in TreeType
    BY DEF IInv, TypeOK, TreeType, Agent
  <2> QED BY <2>1, <2>2 DEF IInv, TypeOK, SyncType, Agent, Records
<1>2. WorkKept'
  BY DEF IInv, WorkKept, Agent, Records
<1>3. TreeThere'
  BY DEF IInv, TreeThere, InTree, Agent
<1>4. HeadSeen'
  BY DEF IInv, HeadSeen, Agent
<1>5. KeptAside'
  BY DEF IInv, KeptAside, Agent
<1>6. OnBranch'
  BY DEF IInv, TypeOK, OnBranch, Agent
<1> QED BY <1>1, <1>2, <1>3, <1>4, <1>5, <1>6 DEF IInv

LEMMA AgainKeeps == ASSUME IInv, Again PROVE IInv'
<1>1. TypeOK'
  BY SyncAssumption DEF IInv, TypeOK, PCs, Again, Rest, Records
<1>2. WorkKept'
  BY DEF IInv, WorkKept, Again, Records
<1>3. TreeThere'
  BY DEF IInv, TreeThere, InTree, Again, Rest
<1>4. HeadSeen'
  BY DEF IInv, HeadSeen, Again, Rest
<1>5. KeptAside'
  BY DEF IInv, KeptAside, Again, Rest
<1>6. OnBranch'
  BY DEF IInv, OnBranch, Again, Rest
<1> QED BY <1>1, <1>2, <1>3, <1>4, <1>5, <1>6 DEF IInv

LEMMA RevertKeeps == ASSUME IInv, Revert PROVE IInv'
<1>1. TypeOK'
  <2>1. sync' \in SyncType
    BY SyncTypes DEF Revert
  <2>2. dropped' \subseteq Works
    BY DEF IInv, TypeOK, Revert, Committed, Commits
  <2> QED BY <2>1, <2>2 DEF IInv, TypeOK, SyncType, Revert, NoTree
<1>2. WorkKept'
  BY DEF IInv, WorkKept, Revert
<1>3. TreeThere'
  BY DEF IInv, TreeThere, InTree, Revert, NoTree, Rest
<1>4. HeadSeen'
  BY DEF IInv, HeadSeen, Revert, Rest
<1>5. KeptAside'
  BY DEF IInv, KeptAside, Revert, Rest
<1>6. OnBranch'
  BY DEF IInv, OnBranch, Revert, NoTree, Rest
<1> QED BY <1>1, <1>2, <1>3, <1>4, <1>5, <1>6 DEF IInv

LEMMA PrepareKeeps == ASSUME IInv, Prepare PROVE IInv'
<1>1. TypeOK'
  <2>1. sync' \in SyncType
    BY TypedSync, SyncTypes DEF IInv, PCs, Prepare, Goto
  <2>2. branch \in Commits
    BY DEF IInv, TreeThere, Prepare
  <2>3. CASE ~tree.wip /\ UNCHANGED <<branch, tree, done, strayed>>
    BY <2>1, <2>3 DEF IInv, TypeOK, SyncType, Prepare
  <2>4. CASE tree.wip /\ tree.attached /\ Commit
    <3>1. branch' \in Commits
      BY <2>2, <2>4, CommitTypes DEF Commit
    <3>2. tree' \in TreeType /\ tree'.attached /\ tree'.there = tree.there /\ tree'.head = tree.head
      BY <2>4 DEF IInv, TypeOK, TreeType, Commit
    <3> QED BY <2>1, <2>4, <3>1, <3>2 DEF IInv, TypeOK, SyncType, Prepare,
               Commit
  <2>5. CASE tree.wip /\ ~tree.attached /\ Commit
    <3>1. tree.head \in Commits
      BY <2>5 DEF IInv, TypeOK, Prepare
    <3>2. OnTopOf(tree.head) \in Commits
      BY <2>5, <3>1, CommitTypes DEF Commit
    <3>3. tree' \in TreeType /\ ~tree'.attached /\ tree'.head \in Commits
      BY <2>5, <3>2 DEF IInv, TypeOK, TreeType, Commit
    <3> QED BY <2>1, <2>5, <3>3 DEF IInv, TypeOK, SyncType, Prepare, Commit
  <2> QED BY <2>3, <2>4, <2>5 DEF Prepare, Commit
<1>2. WorkKept'
  BY DEF IInv, TypeOK, WorkKept, OnBranch, Committed, Commits, NoCommit, Works,
     Prepare, Commit, OnTopOf
<1>3. TreeThere'
  <2>1. tree'.there /\ tree.there /\ branch \in Commits
    BY DEF IInv, TypeOK, TreeThere, Prepare, Commit
  <2>2. branch' \in Commits
    BY <2>1, CommitTypes DEF Prepare, Commit
  <2> QED BY <2>1, <2>2 DEF TreeThere
<1>4. HeadSeen'
  BY DEF IInv, TypeOK, HeadSeen, Prepare, Commit, Goto, Rest
<1>5. KeptAside'
  BY DEF IInv, TypeOK, KeptAside, Prepare, Commit, Goto, Rest
<1>6. OnBranch'
  BY DEF IInv, TypeOK, OnBranch, Prepare, Commit, Goto, Rest
<1> QED BY <1>1, <1>2, <1>3, <1>4, <1>5, <1>6 DEF IInv

(* The three ways an attempt to publish ends. *)
Merged == /\ main < MaxMain /\ tree.attached
          /\ main' = main + 1
          /\ published' = published \union branch.work
          /\ branch' = [base |-> main + 1, work |-> {}]
          /\ Goto("clean") /\ UNCHANGED tree
MergedOnly == MoveHead([Head EXCEPT !.base = main]) /\ sync' = Rest /\ UNCHANGED <<main, published>>
PutOff == sync' = Rest /\ UNCHANGED <<main, published, branch, tree>>

LEMMA PublishKeeps == ASSUME IInv, Publish PROVE IInv'
<1>1. Merged \/ MergedOnly \/ PutOff
  BY DEF Publish, Merged, MergedOnly, PutOff
<1>2. sync' \in SyncType /\ sync'.pc \in {"clean", "idle"}
  <2>1. CASE Goto("clean")
    <3>1. sync \in SyncType
      BY TypedSync DEF IInv
    <3>2. sync' \in SyncType
      BY <2>1, <3>1, SyncTypes DEF PCs, Goto
    <3> QED BY <2>1, <3>1, <3>2 DEF Goto
  <2>2. CASE sync' = Rest
    BY <2>2, SyncTypes DEF Rest
  <2> QED BY <2>1, <2>2 DEF Publish
<1>3. tree.there /\ branch \in Commits /\ Head \in Commits
  BY HeadTypes DEF IInv, TreeThere, InTree, Publish
<1>4. UNCHANGED <<preserved, done, strayed, dropped, faults>>
  BY DEF Publish
<1>5. tree.there = tree'.there /\ tree.attached = tree'.attached
  BY <1>1 DEF IInv, TypeOK, Merged, MergedOnly, PutOff, MoveHead
<1>6. OnBranch'
  BY <1>2, <1>4, <1>5 DEF IInv, OnBranch, Publish
<1>7. CASE Merged
  <2>1. main' \in 0 .. MaxMain /\ published' \subseteq Works
    BY <1>3, <1>7, SyncAssumption DEF IInv, TypeOK, Merged, Commits
  <2>2. branch' \in Commits
    BY <1>7, <2>1, CommitTypes DEF Merged
  <2>3. TypeOK'
    BY <1>2, <1>4, <1>7, <2>1, <2>2 DEF IInv, TypeOK, SyncType, Merged
  <2>4. WorkKept'
    BY <1>3, <1>4, <1>7 DEF IInv, WorkKept, Merged, Committed
  <2> QED BY <1>2, <1>3, <1>5, <1>6, <2>2, <2>3, <2>4 DEF IInv, TreeThere,
             HeadSeen, KeptAside
<1>8. CASE MergedOnly
  <2> DEFINE c == [Head EXCEPT !.base = main]
  <2>1. c \in Commits /\ c.work = Head.work
    BY <1>3, CommitTypes DEF IInv, TypeOK
  <2>2. MoveHead(c) /\ UNCHANGED <<main, published>>
    BY <1>8 DEF MergedOnly
  <2> HIDE DEF c
  <2>3. TypeOK' /\ branch' \in Commits
    BY <1>2, <1>3, <1>4, <2>1, <2>2 DEF IInv, TypeOK, SyncType, MoveHead
  <2>4. WorkKept'
    BY <1>3, <1>4, <2>1, <2>2 DEF IInv, TypeOK, WorkKept, MoveHead, Head,
       Committed, NoCommit, Works
  <2> QED BY <1>2, <1>3, <1>5, <1>6, <2>3, <2>4 DEF IInv, TreeThere, HeadSeen,
             KeptAside
<1>9. CASE PutOff
  <2>1. TypeOK'
    BY <1>2, <1>4, <1>9 DEF IInv, TypeOK, SyncType, PutOff
  <2>2. WorkKept'
    BY <1>4, <1>9 DEF IInv, WorkKept, PutOff
  <2> QED BY <1>2, <1>3, <1>5, <1>6, <1>9, <2>1, <2>2 DEF IInv, PutOff,
             TreeThere, HeadSeen, KeptAside
<1> QED BY <1>1, <1>7, <1>8, <1>9

LEMMA CleanKeeps == ASSUME IInv, Clean PROVE IInv'
<1>1. TypeOK'
  BY SyncAssumption DEF IInv, TypeOK, PCs, Clean, NoTree, Rest
<1>2. WorkKept'
  BY DEF IInv, WorkKept, Committed, Clean
<1>3. TreeThere'
  BY DEF IInv, TreeThere, InTree, Clean, NoTree, Rest
<1>4. HeadSeen'
  BY DEF IInv, HeadSeen, Clean, Rest
<1>5. KeptAside'
  BY DEF IInv, KeptAside, Clean, Rest
<1>6. OnBranch'
  BY DEF IInv, OnBranch, Clean, NoTree, Rest
<1> QED BY <1>1, <1>2, <1>3, <1>4, <1>5, <1>6 DEF IInv

LEMMA MainMovesKeeps == ASSUME IInv, MainMoves PROVE IInv'
<1>1. TypeOK'
  BY SyncAssumption DEF IInv, TypeOK, MainMoves
<1>2. WorkKept'
  BY DEF IInv, WorkKept, MainMoves
<1>3. TreeThere'
  BY DEF IInv, TreeThere, MainMoves
<1>4. HeadSeen'
  BY DEF IInv, HeadSeen, MainMoves, Head
<1>5. KeptAside'
  BY DEF IInv, KeptAside, MainMoves
<1>6. OnBranch'
  BY DEF IInv, OnBranch, MainMoves
<1> QED BY <1>1, <1>2, <1>3, <1>4, <1>5, <1>6 DEF IInv

-----------------------------------------------------------------------------
LEMMA StutterKeeps == ASSUME IInv, UNCHANGED vars PROVE IInv'
BY DEF vars, IInv, TypeOK, WorkKept, TreeThere, HeadSeen, KeptAside, OnBranch,
   Head

LEMMA NextKeeps == IInv /\ [Next]_vars => IInv'
BY StartKeeps, AddWorktreeKeeps, LookKeeps, ForwardKeeps, RebaseKeeps,
   AbortKeeps, PreserveKeeps, DetachKeeps, MoveBranchKeeps, SwitchBackKeeps,
   CommandFailsKeeps, CrashKeeps, AgentKeeps, AgainKeeps, RevertKeeps,
   PrepareKeeps, PublishKeeps, CleanKeeps, MainMovesKeeps, StutterKeeps DEF Next

(* ensureWorktrees and synchronizeWorktreeBaseline: committed work is in   *)
(* the mainline, on the branch or under a preserved ref after every git    *)
(* command, whichever of them fails, and only a fault lets work be         *)
(* committed off the branch.                                               *)
THEOREM WorkIsKept == Spec => []WorkKept
<1>1. IInv => WorkKept
  BY DEF IInv
<1> QED BY InitInv, NextKeeps, <1>1, PTL DEF Spec

(* The branch, the worktree and the synchronisation keep their types after  *)
(* every command. *)
THEOREM SyncTypeCorrect == Spec => []TypeOK
<1>1. IInv => TypeOK
  BY DEF IInv
<1> QED BY InitInv, NextKeeps, <1>1, PTL DEF Spec

-----------------------------------------------------------------------------
(* What the agent finds.  The commit it works on is the one the last       *)
(* command left HEAD at: the one the branch was moved to, if it was.       *)
Onto ==
    /\ sync.pc = "agent" => Head.base >= sync.base
    /\ sync.pc = "switch" => branch.base >= sync.base

LEMMA OntoKept == IInv /\ Onto /\ [Next]_vars => Onto'
<1> SUFFICES ASSUME IInv, Onto, [Next]_vars PROVE Onto'
  OBVIOUS
<1>0. sync \in SyncType /\ sync.base \in Nat /\ Rest.pc = "idle"
  BY TypedSync, SyncAssumption DEF IInv, SyncType, Rest
<1>1. CASE Look
  <2>1. sync'.pc \in {"agent", "forward", "ended", "rebase"}
    BY <1>0, <1>1 DEF Look, Goto, Rest, SyncType
  <2>2. sync'.pc = "agent" => Current(Head, sync.base) /\ sync'.base = sync.base
    BY <1>0, <1>1 DEF Look, Goto, Rest, SyncType
  <2>3. Head' = Head
    BY <1>1 DEF Look, Head
  <2> QED BY <2>1, <2>2, <2>3 DEF Onto, Current
<1>2. CASE Forward
  <2>1. sync'.pc \in {"agent", "ended"}
    BY <1>0, <1>2 DEF Forward, Goto, Rest, SyncType
  <2>2. CASE MoveHead([base |-> sync.base, work |-> {}]) /\ Goto("agent")
    <3>1. Head' = [base |-> sync.base, work |-> {}]
      BY <2>2 DEF MoveHead, Head, IInv, TypeOK
    <3>2. sync'.base = sync.base
      BY <1>0, <2>2 DEF Goto, SyncType
    <3> QED BY <1>0, <2>1, <3>1, <3>2 DEF Onto
  <2>3. CASE sync' = [Rest EXCEPT !.pc = "ended"]
    BY <2>3 DEF Rest, Onto
  <2> QED BY <1>2, <2>2, <2>3 DEF Forward
<1>3. CASE Rebase
  <2>1. sync'.pc \in {"agent", "conflict"} /\ sync'.base = sync.base
    BY <1>0, <1>3 DEF Rebase, Goto, SyncType
  <2>2. CASE MoveHead([sync.head EXCEPT !.base = sync.base])
    <3>1. sync.head \in Commits
      BY <1>3 DEF IInv, HeadSeen, Rebase
    <3>2. Head' = [sync.head EXCEPT !.base = sync.base]
      BY <2>2 DEF MoveHead, Head, IInv, TypeOK
    <3>3. Head'.base = sync.base
      BY <3>1, <3>2 DEF Commits
    <3> QED BY <1>0, <2>1, <3>3 DEF Onto
  <2>3. CASE Goto("conflict")
    BY <1>0, <2>3 DEF Goto, SyncType, Onto
  <2> QED BY <1>3, <2>2, <2>3 DEF Rebase
<1>4. CASE MoveBranch
  <2>1. CASE Goto("switch") /\ branch' = [base |-> sync.base, work |-> {}]
    BY <1>0, <2>1 DEF Goto, SyncType, Onto
  <2>2. CASE Goto("back")
    BY <1>0, <2>2 DEF Goto, SyncType, Onto
  <2> QED BY <1>4, <2>1, <2>2 DEF MoveBranch
<1>5. CASE SwitchBack
  <2>1. Head' = branch
    BY <1>5 DEF SwitchBack, Attached, Head, IInv, TypeOK
  <2>2. CASE sync.pc = "switch"
    BY <1>0, <1>5, <2>1, <2>2 DEF SwitchBack, SyncType, Onto
  <2>3. CASE sync.pc # "switch"
    BY <1>5, <2>3 DEF SwitchBack, Rest, Onto
  <2> QED BY <2>2, <2>3
<1>6. CASE MainMoves \/ UNCHANGED vars
  BY <1>6 DEF MainMoves, vars, Head, Onto
<1>7. CASE \/ Start \/ AddWorktree \/ Abort \/ Preserve \/ Detach
           \/ CommandFails \/ Crash \/ Agent \/ Again \/ Revert \/ Clean
  <2>1. sync'.pc \notin {"agent", "switch"}
    BY <1>0, <1>7 DEF Start, AddWorktree, Abort, Preserve, Detach, CommandFails, Crash, Agent,
       Again, Revert, Clean, Goto, Rest, SyncType
  <2> QED BY <2>1 DEF Onto
<1>8. CASE Prepare \/ Publish
  <2>1. sync'.pc \notin {"agent", "switch"}
    BY <1>0, <1>8 DEF Prepare, Publish, Goto, Rest, SyncType
  <2> QED BY <2>1 DEF Onto
<1> QED BY <1>1, <1>2, <1>3, <1>4, <1>5, <1>6, <1>7, <1>8 DEF Next

(* synchronizeWorktreeBaseline: whatever was cut short before, an agent    *)
(* that starts works on the mainline commit the synchronisation was for,   *)
(* and what was committed before is in front of it, kept aside, or on the  *)
(* branch its HEAD was left off.                                           *)
THEOREM AgentSeesItsWork == Spec => []AgentSeesAll
<1>1. Init => Onto
  BY DEF Init, Onto, Rest
<1>2. IInv /\ Onto => AgentSeesAll
  <2> SUFFICES ASSUME IInv, Onto, sync.pc = "agent"
               PROVE  /\ Head.base >= sync.base
                      /\ done \ (published \union strayed \union dropped) \subseteq
                            Head.work \union preserved
                              \union (IF tree.attached THEN {} ELSE branch.work)
    BY DEF AgentSeesAll
  <2>1. branch \in Commits
    BY DEF IInv, TreeThere, InTree
  <2>2. Committed(branch) = branch.work
    BY <2>1 DEF Committed, Commits, NoCommit, Works
  <2>3. done \ (strayed \union dropped) \subseteq published \union preserved \union branch.work
    BY <2>2 DEF IInv, WorkKept
  <2> QED BY <2>3 DEF Onto, Head
<1> QED BY InitInv, NextKeeps, OntoKept, <1>1, <1>2, PTL DEF Spec
================================================================================
