------------------------- MODULE ReleasePipeline_proofs -------------------------
(***************************************************************************)
(* Proofs about ReleasePipeline, for any tasks, repositories, changes,     *)
(* foreign pushes and number of faults: what the worker pushes, deploys,   *)
(* cleans away and blames.                                                 *)
(*                                                                         *)
(* The argument.  The tick carries the work of its tasks from one place to *)
(* the next, and IInv says where it is at each of them: the commit to      *)
(* publish is the old mainline with the work of all of them (Built), it    *)
(* has passed the gates done so far (Gated), what is pushed is in the      *)
(* mainline and not behind DEV (Landed), and what is finalised is on DEV   *)
(* (Shown).  Between two ticks only Live and WorkNeverLost remain.         *)
(***************************************************************************)
EXTENDS ReleasePipeline, FiniteSetTheorems, WellFoundedInduction, TLAPS

USE PipelineAssumption

(* The rows of the tasks in hand name the repositories of their work; a    *)
(* single one is in hand until it is prepared, and a task of a batch has   *)
(* no attempt behind it.                                                   *)
InHand ==
    /\ \A t \in item : row[t].repos = Work[t]
    /\ pc = "idle" <=> picked = {}
    /\ pc = "prepare" => /\ todo \intersect item = {}
                         /\ ~Batch => picked \subseteq todo \union item
                         /\ Batch => \A t \in todo \union item : row[t].n = 0
    /\ pc \notin {"idle", "prepare"} => item # {}
    /\ pc = "validate" /\ Batch => \A t \in item : row[t].n = 0
    /\ pc \in {"finalize", "cleanup"} => todo \subseteq item
    /\ pc = "cleanup" => ending.task \subseteq item
    /\ pc \in {"validate", "push"} => left \subseteq Shipped
    /\ pc = "push" => left # {}

(* The commit to publish. *)
Built ==
    pc \in {"validate", "push", "record", "deploy"} =>
        \A r \in Repos : /\ cand[r].work = base[r].work \union {t \in item : r \in row[t].repos}
                         /\ cand[r].ext = base[r].ext

(* The gates that are behind it. *)
Gated ==
    /\ pc = "validate" => \A r \in Shipped \ left : Green(r, cand[r])
    /\ pc = "push" => \A r \in Shipped : Green(r, cand[r])

(* The repositories it is pushed to, which DEV is not ahead of. *)
Landed ==
    /\ pc = "push" => \A r \in Shipped \ left : AtLeast(main[r], cand[r]) /\ AtLeast(cand[r], dev[r])
    /\ pc \in {"record", "deploy"} =>
           \A r \in Shipped : AtLeast(main[r], cand[r]) /\ AtLeast(cand[r], dev[r])
    /\ \A r \in Repos : AtLeast(main[r], dev[r])

(* The work of a task is in its mainlines and on DEV. *)
IsLive(t) == \A r \in Work[t] : t \in main[r].work /\ t \in dev[r].work

Shown == pc \in {"finalize", "cleanup"} => \A t \in item : IsLive(t)
Live == \A t \in Tasks : row[t].st = "released" => IsLive(t)

IInv ==
    TypeOK /\ InHand /\ Built /\ Gated /\ Landed /\ Shown /\ Live /\ WorkNeverLost /\ OnlyGuiltyBlocked
-----------------------------------------------------------------------------
(* Records of rows, one field at a time. *)

LEMMA StSet ==
  ASSUME NEW rec \in Row, NEW st \in Status PROVE [rec EXCEPT !.st = st] \in Row
  BY DEF Row
LEMMA GateSet ==
  ASSUME NEW rec \in Row, NEW g \in Repos \union {None} PROVE [rec EXCEPT !.gate = g] \in Row
  BY DEF Row
LEMMA HoldSet ==
  ASSUME NEW rec \in Row, NEW g \in Repos \union {None} PROVE [rec EXCEPT !.hold = g] \in Row
  BY DEF Row
LEMMA NSet ==
  ASSUME NEW rec \in Row, NEW n \in 0 .. MaxAttempts PROVE [rec EXCEPT !.n = n] \in Row
  BY DEF Row
LEMMA ProofSet ==
  ASSUME NEW rec \in Row, NEW p \in BOOLEAN PROVE [rec EXCEPT !.proof = p] \in Row
  BY DEF Row
LEMMA ReposSet ==
  ASSUME NEW rec \in Row, NEW R \in SUBSET Repos
  PROVE  [rec EXCEPT !.repos = R] \in Row /\ [rec EXCEPT !.files = R] \in Row
  BY DEF Row
LEMMA ReopenedSet ==
  ASSUME NEW rec \in Row PROVE [rec EXCEPT !.reopened = TRUE] \in Row
  BY DEF Row

(* What a row says that the invariant is about. *)
(* The three ways a failure is charged: to no gate, to a gate of which the *)
(* mainline was seen to pass, to one of which it was not.                  *)
Plain(rec, kind) == Charged(rec, kind, None, FALSE)
Proved(rec, r) == Charged(rec, "validation", r, TRUE)
Supposed(rec, r) == Charged(rec, "validation", r, FALSE)

LEMMA PlainRow ==
  ASSUME NEW rec \in Row, NEW kind
  PROVE  /\ Plain(rec, kind) \in Row /\ Plain(rec, kind).repos = rec.repos
         /\ Plain(rec, kind).gate = None /\ Plain(rec, kind).st \in {"blocked", "retrying"}
  <1> DEFINE n == IF rec.n < MaxAttempts THEN rec.n + 1 ELSE rec.n
             st == IF kind \in Deterministic /\ rec.n + 1 >= MaxAttempts THEN "blocked" ELSE "retrying"
             new == [rec EXCEPT !.n = n, !.gate = None, !.proof = rec.proof, !.st = st]
  <1>1. rec.n \in 0 .. MaxAttempts /\ rec.proof \in BOOLEAN BY DEF Row
  <1>2. n \in 0 .. MaxAttempts BY <1>1 DEF MaxAttempts
  <1>3. st \in Status /\ st \in {"blocked", "retrying"} BY DEF Status
  <1>4. Plain(rec, kind) = new BY DEF Charged, Plain
  <1> HIDE DEF n, st
  <1>5. [rec EXCEPT !.n = n] \in Row BY <1>2, NSet
  <1>6. [[rec EXCEPT !.n = n] EXCEPT !.gate = None] \in Row BY <1>5, GateSet
  <1>7. [[[rec EXCEPT !.n = n] EXCEPT !.gate = None] EXCEPT !.proof = rec.proof] \in Row
    BY <1>1, <1>6, ProofSet
  <1>8. new \in Row BY <1>3, <1>7, StSet
  <1>9. new.repos = rec.repos /\ new.gate = None /\ new.st = st BY DEF Row
  <1> HIDE DEF new
  <1> QED BY <1>3, <1>4, <1>8, <1>9

LEMMA ProvedRow ==
  ASSUME NEW rec \in Row, NEW r \in Repos
  PROVE  /\ Proved(rec, r) \in Row /\ Proved(rec, r).repos = rec.repos
         /\ Proved(rec, r).gate = r /\ Proved(rec, r).st \in {"blocked", "retrying"}
         /\ rec.n = 0 => Proved(rec, r).st = "retrying"
  <1> DEFINE n == IF rec.n < MaxAttempts THEN rec.n + 1 ELSE rec.n
             st == IF "validation" \in Deterministic /\ rec.n + 1 >= MaxAttempts
                   THEN "blocked" ELSE "retrying"
             new == [rec EXCEPT !.n = n, !.gate = r, !.proof = TRUE, !.st = st]
  <1>1. rec.n \in 0 .. MaxAttempts BY DEF Row
  <1>2. n \in 0 .. MaxAttempts BY <1>1 DEF MaxAttempts
  <1>3. st \in Status /\ st \in {"blocked", "retrying"} BY DEF Status
  <1>4. rec.n = 0 => st = "retrying" BY DEF MaxAttempts
  <1>5. r # None BY DEF Repos, None
  <1>6. Proved(rec, r) = new BY <1>5 DEF Charged, Proved
  <1> HIDE DEF n, st
  <1>7. [rec EXCEPT !.n = n] \in Row BY <1>2, NSet
  <1>8. [[rec EXCEPT !.n = n] EXCEPT !.gate = r] \in Row BY <1>7, GateSet
  <1>9. [[[rec EXCEPT !.n = n] EXCEPT !.gate = r] EXCEPT !.proof = TRUE] \in Row
    BY <1>1, <1>8, ProofSet
  <1>10. new \in Row BY <1>3, <1>9, StSet
  <1>11. new.repos = rec.repos /\ new.gate = r /\ new.st = st BY DEF Row
  <1> HIDE DEF new
  <1> QED BY <1>3, <1>4, <1>6, <1>10, <1>11

LEMMA SupposedRow ==
  ASSUME NEW rec \in Row, NEW r \in Repos
  PROVE  /\ Supposed(rec, r) \in Row /\ Supposed(rec, r).repos = rec.repos
         /\ Supposed(rec, r).gate = r /\ Supposed(rec, r).st \in {"blocked", "retrying"}
         /\ ~Supposed(rec, r).proof
  <1> DEFINE n == IF rec.n < MaxAttempts THEN rec.n + 1 ELSE rec.n
             st == IF "validation" \in Deterministic /\ rec.n + 1 >= MaxAttempts
                   THEN "blocked" ELSE "retrying"
             new == [rec EXCEPT !.n = n, !.gate = r, !.proof = FALSE, !.st = st]
  <1>1. rec.n \in 0 .. MaxAttempts BY DEF Row
  <1>2. n \in 0 .. MaxAttempts BY <1>1 DEF MaxAttempts
  <1>3. st \in Status /\ st \in {"blocked", "retrying"} BY DEF Status
  <1>4. r # None BY DEF Repos, None
  <1>5. Supposed(rec, r) = new BY <1>4 DEF Charged, Supposed
  <1> HIDE DEF n, st
  <1>6. [rec EXCEPT !.n = n] \in Row BY <1>2, NSet
  <1>7. [[rec EXCEPT !.n = n] EXCEPT !.gate = r] \in Row BY <1>6, GateSet
  <1>8. [[[rec EXCEPT !.n = n] EXCEPT !.gate = r] EXCEPT !.proof = FALSE] \in Row
    BY <1>1, <1>7, ProofSet
  <1>9. new \in Row BY <1>3, <1>8, StSet
  <1>10. new.repos = rec.repos /\ new.gate = r /\ new.st = st /\ ~new.proof BY DEF Row
  <1> HIDE DEF new
  <1> QED BY <1>3, <1>5, <1>9, <1>10

LEMMA DeferredRow ==
  ASSUME NEW rec \in Row
  PROVE  /\ Deferred(rec) \in Row /\ Deferred(rec).repos = rec.repos
         /\ Deferred(rec).gate = None /\ Deferred(rec).st = "retrying"
  <1>1. [rec EXCEPT !.st = "retrying"] \in Row BY StSet DEF Status
  <1>2. Deferred(rec) \in Row BY <1>1, GateSet DEF Deferred
  <1>3. /\ Deferred(rec).repos = rec.repos
        /\ Deferred(rec).gate = None /\ Deferred(rec).st = "retrying"
    BY DEF Deferred, Row
  <1> QED BY <1>2, <1>3

LEMMA HeldRow ==
  ASSUME NEW rec \in Row, NEW r \in Repos
  PROVE  /\ Held(rec, r) \in Row /\ Held(rec, r).repos = rec.repos
         /\ Held(rec, r).gate = None /\ Held(rec, r).st = "waiting_mainline"
  <1>1. [rec EXCEPT !.st = "waiting_mainline"] \in Row BY StSet DEF Status
  <1>2. [[rec EXCEPT !.st = "waiting_mainline"] EXCEPT !.hold = r] \in Row BY <1>1, HoldSet
  <1>3. Held(rec, r) \in Row BY <1>2, GateSet DEF Held
  <1>4. /\ Held(rec, r).repos = rec.repos
        /\ Held(rec, r).gate = None /\ Held(rec, r).st = "waiting_mainline"
    BY DEF Held, Row
  <1> QED BY <1>3, <1>4

LEMMA ReopenedRow ==
  ASSUME NEW rec \in Row, rec.gate # None
  PROVE  /\ Reopened(rec) \in Row /\ Reopened(rec).repos = rec.repos
         /\ Reopened(rec).gate = None /\ Reopened(rec).st \in {"retrying", "waiting_mainline"}
  <1> DEFINE green == Green(rec.gate, main[rec.gate])
             st == IF green THEN "retrying" ELSE "waiting_mainline"
             hold == IF green THEN rec.hold ELSE rec.gate
             new == [rec EXCEPT !.n = 0, !.reopened = TRUE, !.gate = None, !.st = st, !.hold = hold]
  <1>1. rec.gate \in Repos \union {None} /\ rec.hold \in Repos \union {None} BY DEF Row
  <1>2. hold \in Repos \union {None} BY <1>1
  <1>3. st \in Status /\ st \in {"retrying", "waiting_mainline"} BY DEF Status
  <1>4. Reopened(rec) = new BY DEF Reopened
  <1> HIDE DEF green, st, hold
  <1>5. [rec EXCEPT !.n = 0] \in Row
    <2>1. 0 \in 0 .. MaxAttempts BY DEF MaxAttempts
    <2> QED BY <2>1, NSet
  <1>6. [[rec EXCEPT !.n = 0] EXCEPT !.reopened = TRUE] \in Row BY <1>5, ReopenedSet
  <1>7. [[[rec EXCEPT !.n = 0] EXCEPT !.reopened = TRUE] EXCEPT !.gate = None] \in Row
    BY <1>6, GateSet
  <1>8. [[[[rec EXCEPT !.n = 0] EXCEPT !.reopened = TRUE] EXCEPT !.gate = None] EXCEPT !.st = st] \in Row
    BY <1>3, <1>7, StSet
  <1>9. new \in Row BY <1>2, <1>8, HoldSet
  <1>10. new.repos = rec.repos /\ new.gate = None /\ new.st = st BY DEF Row
  <1> HIDE DEF new
  <1> QED BY <1>3, <1>4, <1>9, <1>10
LEMMA ProcessingRow ==
  ASSUME NEW rec \in Row, NEW R \in SUBSET Repos
  PROVE  LET new == [rec EXCEPT !.st = "processing", !.gate = None, !.repos = R]
         IN  /\ new \in Row /\ new.repos = R /\ new.n = rec.n
             /\ new.gate = None /\ new.st = "processing"
  <1> DEFINE new == [rec EXCEPT !.st = "processing", !.gate = None, !.repos = R]
  <1>1. [rec EXCEPT !.st = "processing"] \in Row BY StSet DEF Status
  <1>2. [[rec EXCEPT !.st = "processing"] EXCEPT !.gate = None] \in Row BY <1>1, GateSet
  <1>3. new \in Row BY <1>2, ReposSet
  <1>4. new.repos = R /\ new.n = rec.n /\ new.gate = None /\ new.st = "processing" BY DEF Row
  <1> QED BY <1>3, <1>4

LEMMA SealedRow ==
  ASSUME NEW rec \in Row, NEW st \in Status
  PROVE  LET new == [rec EXCEPT !.st = st, !.gate = None]
         IN  new \in Row /\ new.repos = rec.repos /\ new.gate = None /\ new.st = st
  <1> DEFINE new == [rec EXCEPT !.st = st, !.gate = None]
  <1>1. [rec EXCEPT !.st = st] \in Row BY StSet
  <1>2. new \in Row BY <1>1, GateSet
  <1>3. new.repos = rec.repos /\ new.gate = None /\ new.st = st BY DEF Row
  <1> QED BY <1>2, <1>3

LEMMA FilesRow ==
  ASSUME NEW rec \in Row, NEW R \in SUBSET Repos
  PROVE  LET new == [rec EXCEPT !.files = R]
         IN  /\ new \in Row /\ new.repos = rec.repos /\ new.n = rec.n
             /\ new.gate = rec.gate /\ new.st = rec.st /\ new.proof = rec.proof
  BY ReposSet DEF Row

-----------------------------------------------------------------------------
(* Commits. *)

LEMMA CommitFields ==
  ASSUME NEW c \in Commit
  PROVE  c.work \in SUBSET Tasks /\ c.ext \in Nat
  BY DEF Commit

LEMMA AtLeastSelf == ASSUME NEW c \in Commit PROVE AtLeast(c, c)
  BY DEF AtLeast, Commit

LEMMA AtLeastTrans ==
  ASSUME NEW a \in Commit, NEW b \in Commit, NEW c \in Commit, AtLeast(a, b), AtLeast(b, c)
  PROVE  AtLeast(a, c)
  BY DEF AtLeast, Commit

LEMMA LeastRepo ==
  ASSUME NEW S, S \subseteq Repos, S # {}
  PROVE  Min(S) \in S
  <1> DEFINE Below == {pair \in Nat \X Nat : pair[1] < pair[2]}
  <1>1. IsWellFoundedOn(Below, Nat)
    <2>1. Below = OpToRel(<, Nat) BY DEF OpToRel
    <2> QED BY <2>1, NatLessThanWellFounded
  <1>2. S \subseteq Nat BY DEF Repos
  <1> HIDE DEF Below
  <1>3. PICK m \in S : \A n \in S : <<n, m>> \notin Below BY <1>1, <1>2, WFMin
  <1>4. ASSUME NEW n \in S PROVE m <= n
    <2>1. m \in Nat /\ n \in Nat BY <1>2
    <2>2. ~(n < m) BY <1>3, <2>1 DEF Below
    <2> QED BY <2>1, <2>2
  <1>5. \E x \in S : \A y \in S : x <= y BY <1>4
  <1> QED BY <1>5 DEF Min

-----------------------------------------------------------------------------
(* What a step may do to rows, mainlines and DEV. *)

Accused(rec) == rec.st = "blocked" /\ rec.gate # None /\ rec.proof

(* The row of t becomes released only with its work on DEV, and accused    *)
(* only when t is guilty.                                                  *)
Abides(t, new) ==
    /\ new \in Row
    /\ new.st = "released" => IsLive(t)
    /\ Accused(new) => Guilty(t, new.gate)

(* Nobody takes back what is in a mainline or on DEV. *)
Grows ==
    /\ main' \in [Repos -> Commit] /\ dev' \in [Repos -> Commit]
    /\ \A r \in Repos : AtLeast(main'[r], main[r]) /\ AtLeast(dev'[r], dev[r])
    /\ \A r \in Repos : AtLeast(main'[r], dev'[r])

LEMMA SameRowAbides == ASSUME IInv, NEW t \in Tasks PROVE Abides(t, row[t])
  BY DEF IInv, TypeOK, Live, OnlyGuiltyBlocked, Accused, Abides

LEMMA SameGrows == ASSUME IInv, UNCHANGED <<main, dev>> PROVE Grows
  BY AtLeastSelf DEF IInv, TypeOK, Landed, Grows

LEMMA LiveStays ==
  ASSUME IInv, Grows, NEW t \in Tasks, IsLive(t)
  PROVE  IsLive(t)'
  BY DEF Grows, IsLive, AtLeast

LEMMA RowsAbide ==
  ASSUME IInv, code' = code, row' \in [Tasks -> Row], \A t \in Tasks : Abides(t, row'[t]), Grows
  PROVE  Live' /\ OnlyGuiltyBlocked'
  <1>1. Live'
    <2> SUFFICES ASSUME NEW t \in Tasks, row'[t].st = "released" PROVE IsLive(t)'
      BY DEF Live
    <2>1. IsLive(t) BY DEF Abides
    <2> QED BY <2>1, LiveStays
  <1>2. OnlyGuiltyBlocked'
    <2> SUFFICES ASSUME NEW t \in Tasks,
                        row'[t].st = "blocked" /\ row'[t].gate # None /\ row'[t].proof
                 PROVE  \E b \in code'.breaks : b[2] = row'[t].gate /\ t \in b[1]
      BY DEF OnlyGuiltyBlocked, Guilty
    <2>1. Guilty(t, row'[t].gate) BY DEF Abides, Accused
    <2> QED BY <2>1 DEF Guilty
  <1> QED BY <1>1, <1>2

LEMMA WorkStays ==
  ASSUME IInv, tree' = tree, Grows
  PROVE  WorkNeverLost'
  BY DEF IInv, TypeOK, WorkNeverLost, Grows, AtLeast

(* The end of a tick leaves nothing to say of its own state. *)
LEMMA TickOver ==
  ASSUME IInv, Forget, code' = code, tree' \subseteq tree, Grows, row' \in [Tasks -> Row],
         Live', WorkNeverLost', OnlyGuiltyBlocked', closed' \subseteq MayClose,
         seen' \subseteq Tasks, excluded' \subseteq Tasks, faults' \in 0 .. MaxFaults
  PROVE  IInv'
  <1>1. /\ pc' = "idle" /\ picked' = {} /\ item' = {} /\ todo' = {} /\ left' = {}
        /\ base' = Untouched /\ cand' = Untouched /\ ending' = NoEnding
    BY DEF Forget
  <1>2. Untouched \in [Repos -> Commit] BY DEF Untouched, Commit
  <1>3. NoEnding.task = {} /\ NoEnding.st \in Status BY DEF NoEnding, Status
  <1>4. TypeOK' BY <1>1, <1>2, <1>3 DEF IInv, TypeOK, Grows, Place
  <1>5. InHand' BY <1>1 DEF InHand
  <1>6. Built' /\ Gated' /\ Shown' BY <1>1 DEF Built, Gated, Shown
  <1>7. Landed' BY <1>1 DEF Landed, Grows
  <1> QED BY <1>4, <1>5, <1>6, <1>7 DEF IInv
-----------------------------------------------------------------------------
(* The failures that end a tick. *)

(* Rows of S that change in a way that accuses nobody, and the tick ends.  *)
LEMMA EndTickKeeps ==
  ASSUME IInv, EndTick, code' = code, tree' = tree, Grows,
         row' \in [Tasks -> Row], \A t \in Tasks : Abides(t, row'[t]),
         closed' \subseteq closed, excluded' \subseteq Tasks, faults' \in 0 .. MaxFaults
  PROVE  IInv'
  <1>1. Live' /\ OnlyGuiltyBlocked' /\ WorkNeverLost' BY RowsAbide, WorkStays
  <1>2. Forget /\ seen' \subseteq Tasks BY DEF EndTick, IInv, TypeOK
  <1>3. closed' \subseteq MayClose BY DEF IInv, TypeOK
  <1> QED BY <1>1, <1>2, <1>3, TickOver

LEMMA Typed ==
  ASSUME IInv
  PROVE  /\ \A t \in Tasks : row[t] \in Row
         /\ row \in [Tasks -> Row] /\ item \subseteq Tasks /\ picked \subseteq Tasks
         /\ main \in [Repos -> Commit] /\ dev \in [Repos -> Commit]
         /\ base \in [Repos -> Commit] /\ cand \in [Repos -> Commit]
         /\ excluded \subseteq Tasks /\ faults \in 0 .. MaxFaults
  BY DEF IInv, TypeOK

LEMMA FaultCounted == ASSUME IInv, Fault PROVE faults' \in 0 .. MaxFaults
  BY DEF IInv, TypeOK, Fault

(* Rows that accuse nobody, and are not released. *)
LEMMA PlainAbides == ASSUME IInv, NEW t \in Tasks, NEW kind PROVE Abides(t, Plain(row[t], kind))
  BY Typed, PlainRow DEF Abides, Accused
LEMMA DeferredAbides == ASSUME IInv, NEW t \in Tasks PROVE Abides(t, Deferred(row[t]))
  BY Typed, DeferredRow DEF Abides, Accused
LEMMA HeldAbides == ASSUME IInv, NEW t \in Tasks, NEW r \in Repos PROVE Abides(t, Held(row[t], r))
  BY Typed, HeldRow DEF Abides, Accused
LEMMA SupposedAbides ==
  ASSUME IInv, NEW t \in Tasks, NEW r \in Repos PROVE Abides(t, Supposed(row[t], r))
  BY Typed, SupposedRow DEF Abides, Accused

(* A row that accuses its task does so only when the task is guilty, and   *)
(* a first attempt accuses nobody.                                         *)
LEMMA ProvedAbides ==
  ASSUME IInv, NEW t \in Tasks, NEW r \in Repos, row[t].n = 0 \/ Guilty(t, r)
  PROVE  Abides(t, Proved(row[t], r))
  BY Typed, ProvedRow DEF Abides, Accused

LEMMA FailAllKeeps ==
  ASSUME IInv, NEW kind, FailAll(kind), code' = code, tree' = tree, Grows,
         excluded' \subseteq Tasks, faults' \in 0 .. MaxFaults
  PROVE  IInv'
  <1>1. /\ row' = [t \in Tasks |-> IF t \in item THEN Plain(row[t], kind) ELSE row[t]]
        /\ closed' \subseteq closed /\ EndTick
    BY DEF FailAll, Update, Plain
  <1>2. \A t \in Tasks : Abides(t, row'[t]) BY <1>1, PlainAbides, SameRowAbides
  <1>3. row' \in [Tasks -> Row] BY <1>1, <1>2 DEF Abides
  <1> QED BY <1>1, <1>2, <1>3, EndTickKeeps

LEMMA PendingAbides ==
  ASSUME IInv, NEW t \in Tasks PROVE Abides(t, [row[t] EXCEPT !.st = "pending"])
  <1> DEFINE new == [row[t] EXCEPT !.st = "pending"]
  <1>1. row[t] \in Row /\ "pending" \in Status BY Typed DEF Status
  <1>2. new \in Row BY <1>1, StSet
  <1>3. new.st = "pending" BY <1>1 DEF Row
  <1> QED BY <1>2, <1>3 DEF Abides, Accused

LEMMA FilesAbides ==
  ASSUME IInv, NEW t \in Tasks, NEW R \in SUBSET Repos
  PROVE  /\ Abides(t, [row[t] EXCEPT !.files = R])
         /\ [row[t] EXCEPT !.files = R].repos = row[t].repos
         /\ [row[t] EXCEPT !.files = R].n = row[t].n
  <1>1. row[t] \in Row BY Typed
  <1>2. Abides(t, row[t]) BY SameRowAbides
  <1> DEFINE new == [row[t] EXCEPT !.files = R]
  <1>3. /\ new \in Row /\ new.repos = row[t].repos /\ new.n = row[t].n
        /\ new.gate = row[t].gate /\ new.st = row[t].st /\ new.proof = row[t].proof
    BY <1>1, FilesRow
  <1> HIDE DEF new
  <1>4. Abides(t, new) BY <1>2, <1>3 DEF Abides, Accused
  <1> QED BY <1>3, <1>4 DEF new

-----------------------------------------------------------------------------
(* The choice of the tick. *)

(* What is picked is not empty, and no task of a batch has an attempt      *)
(* behind it.                                                              *)
LEMMA PickedTasks ==
  ASSUME NEW S \in SUBSET Tasks, NEW G \in NextRelease(S)
  PROVE  /\ G \in SUBSET Tasks /\ G # {}
         /\ Cardinality(G) >= 2 => \A t \in G : row[t].n = 0
  <1>1. CASE Largest(S) # {}
    <2>1. G \in Groups(S) BY <1>1 DEF NextRelease, Largest
    <2>2. PICK t \in Batchable(S) : G = {u \in Batchable(S) : Work[u] = Work[t]} BY <2>1 DEF Groups
    <2>3. t \in G BY <2>2
    <2> QED BY <2>2, <2>3 DEF Batchable
  <1>2. CASE Largest(S) = {}
    <2>1. PICK t \in S : G = {t} BY <1>2 DEF NextRelease
    <2>2. Cardinality({t}) = 1 BY FS_Singleton
    <2> QED BY <2>1, <2>2
  <1> QED BY <1>1, <1>2

LEMMA ReopenedAbides ==
  ASSUME IInv, NEW t \in Tasks, row[t].gate # None PROVE Abides(t, Reopened(row[t]))
  BY Typed, ReopenedRow DEF Abides, Accused

LEMMA TickKeeps == ASSUME IInv, Tick PROVE IInv'
  <1>1. pc = "idle" /\ picked = {} /\ item = {} /\ todo = {}
    BY DEF Tick, IInv, InHand, TypeOK
  <1>2. /\ UNCHANGED <<code, main, dev, item, left, base, cand, ending, excluded, faults>>
        /\ tree' = Swept /\ seen' = Active
    BY DEF Tick
  <1>3. Grows BY <1>2, SameGrows
  <1>4. \A t \in Tasks : Abides(t, row'[t])
    <2>1. CASE row' = row BY <2>1, SameRowAbides
    <2>2. CASE Update({t \in Tasks : Recoverable(t)}, Reopened)
      <3>1. row' = [t \in Tasks |-> IF t \in {u \in Tasks : Recoverable(u)}
                                    THEN Reopened(row[t]) ELSE row[t]]
        BY <2>2 DEF Update
      <3>2. \A t \in Tasks : Recoverable(t) => Abides(t, Reopened(row[t]))
        BY ReopenedAbides DEF Recoverable
      <3> QED BY <3>1, <3>2, SameRowAbides
    <2> QED BY <2>1, <2>2 DEF Tick
  <1>5. row' \in [Tasks -> Row] /\ closed' \subseteq closed
    <2>1. row' = [t \in Tasks |-> row'[t]]
      <3>1. CASE row' = row BY <3>1, Typed
      <3>2. CASE Update({t \in Tasks : Recoverable(t)}, Reopened) BY <3>2 DEF Update
      <3> QED BY <3>1, <3>2 DEF Tick
    <2>2. closed' \subseteq closed
      <3>1. CASE closed' = closed BY <3>1
      <3>2. CASE Update({t \in Tasks : Recoverable(t)}, Reopened) BY <3>2 DEF Update
      <3> QED BY <3>1, <3>2 DEF Tick
    <2> QED BY <1>4, <2>1, <2>2 DEF Abides
  <1>6. Live' /\ OnlyGuiltyBlocked' BY <1>2, <1>3, <1>4, <1>5, RowsAbide
  <1>7. WorkNeverLost'
    <2> SUFFICES ASSUME NEW t \in Tasks, NEW r \in Work[t]
                 PROVE  <<t, r>> \in Swept \/ t \in main[r].work
      BY <1>2 DEF WorkNeverLost
    <2>1. <<t, r>> \in tree \/ t \in main[r].work BY DEF IInv, WorkNeverLost
    <2>2. row[t].st = "released" => t \in main[r].work BY DEF IInv, Live, IsLive
    <2> QED BY <2>1, <2>2 DEF Swept
  <1>8. /\ picked' \in SUBSET Tasks /\ todo' = picked' /\ pc' \in {"idle", "prepare"}
        /\ pc' = "idle" <=> picked' = {}
        /\ pc' = "prepare" => row' = row /\ (Cardinality(picked') >= 2 => \A t \in picked' : row[t].n = 0)
    <2> DEFINE ready == Active \intersect seen
    <2>1. ready \in SUBSET Tasks /\ HoldReady \in SUBSET Tasks BY DEF Active, HoldReady, Waiting
    <2>2. \/ UNCHANGED <<pc, picked, todo>>
          \/ \E S \in NextRelease(ready) \union NextRelease(HoldReady) :
                 pc' = "prepare" /\ picked' = S /\ todo' = S /\ row' = row
      BY DEF Tick
    <2> HIDE DEF ready
    <2>3. CASE UNCHANGED <<pc, picked, todo>> BY <1>1, <2>3
    <2>4. ASSUME NEW S \in NextRelease(ready) \union NextRelease(HoldReady),
                 pc' = "prepare", picked' = S, todo' = S, row' = row
          PROVE  <1>8
      <3>1. S \in SUBSET Tasks /\ S # {} /\ (Cardinality(S) >= 2 => \A t \in S : row[t].n = 0)
        BY <2>1, PickedTasks
      <3> QED BY <2>4, <3>1
    <2> QED BY <2>2, <2>3, <2>4
  <1>9. TypeOK'
    <2>1. closed' \subseteq MayClose /\ seen' \subseteq Tasks /\ tree' \subseteq Tasks \X Repos
      BY <1>2, <1>5 DEF IInv, TypeOK, Swept, Active
    <2> QED BY <1>1, <1>2, <1>3, <1>5, <1>8, <2>1 DEF IInv, TypeOK, Grows, Place
  <1>10. InHand'
    <2>1. Batch' <=> Cardinality(picked') >= 2 BY DEF Batch
    <2> QED BY <1>1, <1>2, <1>8, <2>1 DEF InHand
  <1>11. Built' /\ Gated' /\ Shown' BY <1>8 DEF Built, Gated, Shown
  <1>12. Landed' BY <1>3, <1>8 DEF Landed, Grows
  <1> QED BY <1>6, <1>7, <1>9, <1>10, <1>11, <1>12 DEF IInv

-----------------------------------------------------------------------------
(* Before the gates. *)

LEMMA UnpreparedKeeps ==
  ASSUME IInv, pc = "prepare", NEW t \in todo, NEW kind, Unprepared(t, kind),
         UNCHANGED <<code, main, dev, tree>>, faults' \in 0 .. MaxFaults
  PROVE  IInv'
  <1>1. t \in Tasks /\ t \notin item BY DEF IInv, TypeOK, InHand
  <1>2. /\ row' = [u \in Tasks |-> IF u \in {t} THEN Plain(row[u], kind) ELSE row[u]]
        /\ closed' \subseteq closed /\ excluded' = excluded
    BY DEF Unprepared, Update, Plain
  <1>3. \A u \in Tasks : Abides(u, row'[u]) BY <1>2, PlainAbides, SameRowAbides
  <1>4. row' \in [Tasks -> Row] BY <1>2, <1>3 DEF Abides
  <1>5. Grows BY SameGrows
  <1>6. CASE EndTick BY <1>2, <1>3, <1>4, <1>5, <1>6, EndTickKeeps, Typed
  <1>7. CASE /\ Batch /\ todo' = todo \ {t}
             /\ UNCHANGED <<pc, picked, item, left, base, cand, ending, seen>>
    <2>1. Live' /\ OnlyGuiltyBlocked' /\ WorkNeverLost' BY <1>3, <1>4, <1>5, RowsAbide, WorkStays
    <2>2. TypeOK' BY <1>2, <1>4, <1>7 DEF IInv, TypeOK
    <2>3. InHand'
      <3>1. \A u \in Tasks \ {t} : row'[u] = row[u] BY <1>2
      <3>2. item \subseteq Tasks /\ todo \subseteq Tasks BY DEF IInv, TypeOK
      <3>3. Batch' <=> Batch BY <1>7 DEF Batch
      <3> QED BY <1>1, <1>7, <3>1, <3>2, <3>3 DEF IInv, InHand
    <2>4. Built' /\ Gated' /\ Shown' BY <1>7 DEF Built, Gated, Shown
    <2>5. Landed' BY <1>5, <1>7 DEF Landed, Grows
    <2> QED BY <2>1, <2>2, <2>3, <2>4, <2>5 DEF IInv
  <1> QED BY <1>6, <1>7 DEF Unprepared

LEMMA PrepareKeeps == ASSUME IInv, NEW t \in Tasks, Prepare(t) PROVE IInv'
  <1>1. /\ pc = "prepare" /\ t \in todo /\ UNCHANGED <<code, main, dev, tree>>
    BY DEF Prepare
  <1>2. CASE Fault /\ Unprepared(t, "transient") BY <1>1, <1>2, FaultCounted, UnpreparedKeeps
  <1>3. CASE Unprepared(t, Refusal(t)) /\ UNCHANGED faults BY <1>1, <1>3, Typed, UnpreparedKeeps
  <1> DEFINE new == [row[t] EXCEPT !.st = "processing", !.gate = None, !.repos = Touched(t)]
  <1>4. CASE /\ Refusal(t) = "none"
             /\ Update({t}, LAMBDA rec : [rec EXCEPT !.st = "processing", !.gate = None,
                                                      !.repos = Touched(t)])
             /\ base' = main /\ todo' = todo \ {t}
             /\ \/ Batch /\ excluded' = excluded \union {t} /\ UNCHANGED item
                \/ item' = item \union {t} /\ UNCHANGED excluded
             /\ UNCHANGED <<pc, picked, left, cand, ending, seen, faults>>
    <2>1. /\ row' = [u \in Tasks |-> IF u \in {t} THEN [row[u] EXCEPT !.st = "processing", !.gate = None,
                                                      !.repos = Touched(t)] ELSE row[u]]
          /\ closed' \subseteq closed
      BY <1>4 DEF Update
    <2>2. row'[t] = new BY <2>1
    <2>3. \A u \in Tasks \ {t} : row'[u] = row[u] BY <2>1
    <2>4. Touched(t) = Work[t] BY <1>4 DEF Refusal, HandoffOK
    <2>5. Touched(t) \in SUBSET Repos BY DEF Touched
    <2>6. row[t] \in Row BY Typed
    <2>7. new \in Row /\ new.repos = Work[t] /\ new.n = row[t].n /\ new.st = "processing"
      BY <2>4, <2>5, <2>6, ProcessingRow
    <2> HIDE DEF new
    <2>8. Abides(t, new) BY <2>7 DEF Abides, Accused
    <2>9. \A u \in Tasks : Abides(u, row'[u]) BY <2>2, <2>3, <2>8, SameRowAbides
    <2>10. row' \in [Tasks -> Row] BY <2>1, <2>9 DEF Abides
    <2>11. Grows BY <1>1, SameGrows
    <2>12. Live' /\ OnlyGuiltyBlocked' /\ WorkNeverLost'
      BY <1>1, <2>9, <2>10, <2>11, RowsAbide, WorkStays
    <2>13. item' \subseteq item \union {t} BY <1>4
    <2>14. TypeOK' BY <1>1, <1>4, <2>1, <2>10, <2>13 DEF IInv, TypeOK
    <2>15. InHand'
      <3>1. Batch' <=> Batch BY <1>4 DEF Batch
      <3>2. item \subseteq Tasks /\ todo \subseteq Tasks BY DEF IInv, TypeOK
      <3>3. \A u \in Tasks : row'[u].n = row[u].n BY <2>2, <2>3, <2>7
      <3>4. \A u \in item' : row'[u].repos = Work[u]
        BY <2>2, <2>3, <2>7, <2>13, <3>2 DEF IInv, InHand
      <3>5. ~Batch => item' = item \union {t} BY <1>4
      <3>6. pc' = "prepare" /\ picked' = picked /\ todo' = todo \ {t} BY <1>1, <1>4
      <3> QED BY <1>1, <2>13, <3>1, <3>2, <3>3, <3>4, <3>5, <3>6 DEF IInv, InHand
    <2>16. Built' /\ Gated' /\ Shown' BY <1>1, <1>4 DEF Built, Gated, Shown
    <2>17. Landed' BY <1>1, <1>4, <2>11 DEF Landed, Grows
    <2> QED BY <2>12, <2>14, <2>15, <2>16, <2>17 DEF IInv
  <1> QED BY <1>2, <1>3, <1>4 DEF Prepare

LEMMA IntegrateKeeps == ASSUME IInv, Integrate PROVE IInv'
  <1> DEFINE group == Batch /\ Cardinality(item) >= 2
  <1>1. /\ pc = "prepare" /\ todo = {} /\ picked # {} /\ UNCHANGED <<code, main, dev, tree>>
    BY DEF Integrate
  <1>2. Grows BY <1>1, SameGrows
  <1>3. ASSUME NEW kind, Fault, FailAll(kind), UNCHANGED excluded PROVE IInv'
    BY <1>1, <1>2, <1>3, FailAllKeeps, FaultCounted, Typed
  <1>4. ASSUME NEW K \in SUBSET item, K = item \/ Batch, UNCHANGED <<row, closed, faults>>,
               Batch /\ Cardinality(K) < 2, EndTick, excluded' = excluded \union item
        PROVE  IInv'
    <2>1. \A t \in Tasks : Abides(t, row'[t]) BY <1>4, SameRowAbides
    <2>2. excluded' \subseteq Tasks BY <1>4, Typed
    <2> QED BY <1>1, <1>2, <1>4, <2>1, <2>2, EndTickKeeps, Typed
  <1>5. ASSUME NEW K \in SUBSET item, K = item \/ Batch, UNCHANGED <<row, closed, faults>>,
               ~(Batch /\ Cardinality(K) < 2),
               excluded' = excluded \union (item \ K), item' = K, pc' = "validate",
               left' = UNION {row[t].repos : t \in K},
               cand' = [r \in Repos |-> [base[r] EXCEPT
                                       !.work = @ \union {t \in K : r \in row[t].repos}]],
               UNCHANGED <<picked, todo, base, ending, seen>>
        PROVE  IInv'
    <2>1. K # {}
      <3>1. CASE Batch
        <4>1. Cardinality({}) = 0 BY FS_EmptySet
        <4>2. ~(Cardinality(K) < 2) BY <1>5, <3>1
        <4>3. 0 < 2 OBVIOUS
        <4> QED BY <4>1, <4>2, <4>3
      <3>2. CASE ~Batch BY <1>1, <1>5, <3>2 DEF IInv, InHand
      <3> QED BY <3>1, <3>2
    <2>2. \A t \in Tasks : Abides(t, row'[t]) BY <1>5, SameRowAbides
    <2>3. Live' /\ OnlyGuiltyBlocked' /\ WorkNeverLost'
      BY <1>1, <1>2, <1>5, <2>2, Typed, RowsAbide, WorkStays
    <2>4. \A r \in Repos : /\ cand'[r] \in Commit /\ cand'[r].ext = base[r].ext
                           /\ cand'[r].work = base[r].work \union {t \in K : r \in row[t].repos}
      <3> SUFFICES ASSUME NEW r \in Repos
                   PROVE  /\ cand'[r] \in Commit /\ cand'[r].ext = base[r].ext
                          /\ cand'[r].work = base[r].work \union {t \in K : r \in row[t].repos}
        OBVIOUS
      <3>1. base[r] \in Commit /\ K \subseteq Tasks BY <1>5, Typed
      <3>2. cand'[r] = [base[r] EXCEPT !.work = base[r].work \union {t \in K : r \in row[t].repos}]
        BY <1>5
      <3> QED BY <3>1, <3>2 DEF Commit
    <2>5. left' \subseteq Repos /\ left' = Shipped'
      <3>1. \A t \in K : row[t].repos \subseteq Repos BY <1>5, Typed DEF Row
      <3> QED BY <1>5, <3>1 DEF Shipped
    <2>6. TypeOK'
      <3>1. cand' \in [Repos -> Commit] BY <1>5, <2>4
      <3> QED BY <1>1, <1>5, <2>5, <3>1 DEF IInv, TypeOK, Place
    <2>7. InHand'
      <3>1. Batch' <=> Batch BY <1>5 DEF Batch
      <3> QED BY <1>1, <1>5, <2>1, <2>5, <3>1 DEF IInv, InHand
    <2>8. Built' BY <1>5, <2>4 DEF Built
    <2>9. Gated' /\ Shown' BY <1>5, <2>5 DEF Gated, Shown
    <2>10. Landed' BY <1>2, <1>5 DEF Landed, Grows
    <2> QED BY <2>3, <2>6, <2>7, <2>8, <2>9, <2>10 DEF IInv
  <1>6. ASSUME NEW K \in IF group THEN Integrable(item) ELSE {item}
        PROVE  K \in SUBSET item /\ (K = item \/ Batch)
    BY <1>6 DEF Integrable
  <1> QED BY <1>3, <1>4, <1>5, <1>6 DEF Integrate

-----------------------------------------------------------------------------
(* The gates. *)

(* A task of the candidate is guilty when the candidate is red and what it *)
(* was built on is green.                                                  *)
LEMMA SomeoneGuilty ==
  ASSUME IInv, pc = "validate", NEW r \in Repos, Green(r, base[r]), ~Green(r, cand[r])
  PROVE  \E t \in item : Guilty(t, r)
  <1>1. /\ cand[r].work = base[r].work \union {t \in item : r \in row[t].repos}
        /\ cand[r].ext = base[r].ext
    BY DEF IInv, Built
  <1>2. PICK b \in code.breaks : b[2] = r /\ b[1] \subseteq cand[r].work /\ ~(b[1] \subseteq base[r].work)
    BY <1>1 DEF Green
  <1>3. PICK t \in b[1] : t \in cand[r].work /\ t \notin base[r].work BY <1>2
  <1>4. t \in item BY <1>1, <1>3
  <1> QED BY <1>2, <1>3, <1>4 DEF Guilty

(* A tick that ends with new rows, each of which abides.                   *)
LEMMA NewRowsKeep ==
  ASSUME IInv, EndTick, UNCHANGED <<code, main, dev, tree>>,
         row' = [t \in Tasks |-> row'[t]],
         \A t \in Tasks : row'[t] = row[t] \/ Abides(t, row'[t]),
         closed' \subseteq closed, excluded' \subseteq Tasks, faults' \in 0 .. MaxFaults
  PROVE  IInv'
  <1>1. \A t \in Tasks : Abides(t, row'[t]) BY SameRowAbides
  <1>2. row' \in [Tasks -> Row] BY <1>1 DEF Abides
  <1> QED BY <1>1, <1>2, SameGrows, EndTickKeeps

LEMMA SingleFailsKeeps ==
  ASSUME IInv, pc = "validate", NEW r \in Repos, GateRed(r), EndTick,
         \A t \in item : SingleFails(t, r), UNCHANGED <<code, main, dev, tree>>
  PROVE  IInv'
  <1>1. item # {} /\ item \subseteq Tasks BY DEF IInv, TypeOK, InHand
  <1>2. PICK t \in item : Green(r, base[r]) => Guilty(t, r)
    <2>1. CASE Green(r, base[r]) BY <2>1, SomeoneGuilty DEF GateRed
    <2>2. CASE ~Green(r, base[r]) BY <1>1, <2>2
    <2> QED BY <2>1, <2>2
  <1>3. t \in Tasks /\ SingleFails(t, r) BY <1>1
  <1>4. excluded' \subseteq Tasks /\ faults' \in 0 .. MaxFaults
    BY <1>3, FaultCounted, Typed DEF SingleFails
  <1>5. CASE ~Green(r, base[r]) /\ Update({t}, LAMBDA rec : Held(rec, r))
    <2>1. /\ row' = [u \in Tasks |-> IF u \in {t} THEN Held(row[u], r) ELSE row[u]]
          /\ closed' \subseteq closed
      BY <1>5 DEF Update
    <2>2. Abides(t, Held(row[t], r)) BY <1>3, HeldAbides
    <2> QED BY <1>4, <2>1, <2>2, NewRowsKeep
  <1>6. CASE Green(r, base[r]) /\ Update({t}, LAMBDA rec : Charged(rec, "validation", r, TRUE))
    <2>1. /\ row' = [u \in Tasks |-> IF u \in {t} THEN Proved(row[u], r) ELSE row[u]]
          /\ closed' \subseteq closed
      BY <1>6 DEF Update, Proved
    <2>2. Abides(t, Proved(row[t], r)) BY <1>2, <1>3, <1>6, ProvedAbides
    <2> QED BY <1>4, <2>1, <2>2, NewRowsKeep
  <1>7. CASE Update({t}, Deferred)
    <2>1. /\ row' = [u \in Tasks |-> IF u \in {t} THEN Deferred(row[u]) ELSE row[u]]
          /\ closed' \subseteq closed
      BY <1>7 DEF Update
    <2>2. Abides(t, Deferred(row[t])) BY <1>3, DeferredAbides
    <2> QED BY <1>4, <2>1, <2>2, NewRowsKeep
  <1>8. CASE Update({t}, LAMBDA rec : Charged(rec, "validation", r, FALSE))
    <2>1. /\ row' = [u \in Tasks |-> IF u \in {t} THEN Supposed(row[u], r) ELSE row[u]]
          /\ closed' \subseteq closed
      BY <1>8 DEF Update, Supposed
    <2>2. Abides(t, Supposed(row[t], r)) BY <1>3, SupposedAbides
    <2> QED BY <1>4, <2>1, <2>2, NewRowsKeep
  <1> QED BY <1>3, <1>5, <1>6, <1>7, <1>8 DEF SingleFails

LEMMA ConvictKeeps ==
  ASSUME IInv, pc = "validate", Batch, NEW r \in Repos, NEW c \in item, Convict(c, r), EndTick,
         UNCHANGED <<code, main, dev, tree>>, faults' \in 0 .. MaxFaults
  PROVE  IInv'
  <1>1. item \subseteq Tasks /\ c \in Tasks /\ row[c].n = 0 BY DEF IInv, TypeOK, InHand
  <1>2. /\ row' = [t \in Tasks |->
                  IF t = c THEN Proved(row[t], r)
                  ELSE IF t \in item THEN [row[t] EXCEPT !.st = "pending"] ELSE row[t]]
        /\ excluded' = excluded \union {c} /\ closed' = closed
    BY DEF Convict, Proved
  <1>3. Abides(c, Proved(row[c], r)) BY <1>1, ProvedAbides
  <1>4. \A t \in Tasks : Abides(t, [row[t] EXCEPT !.st = "pending"]) BY PendingAbides
  <1>5. \A t \in Tasks : row'[t] = row[t] \/ Abides(t, row'[t]) BY <1>2, <1>3, <1>4
  <1>6. row' = [t \in Tasks |-> row'[t]] BY <1>2
  <1>7. excluded' \subseteq Tasks BY <1>1, <1>2, Typed
  <1> QED BY <1>2, <1>5, <1>6, <1>7, NewRowsKeep

LEMMA BatchFailsKeeps ==
  ASSUME IInv, pc = "validate", Batch, NEW r \in Repos, BatchFails(r), EndTick,
         UNCHANGED <<code, main, dev, tree>>
  PROVE  IInv'
  <1>1. item \subseteq Tasks /\ faults' \in 0 .. MaxFaults BY FaultCounted, Typed DEF BatchFails
  <1>2. CASE Update(item, LAMBDA rec : Held(rec, r)) /\ UNCHANGED excluded
    <2>1. /\ row' = [u \in Tasks |-> IF u \in item THEN Held(row[u], r) ELSE row[u]]
          /\ closed' \subseteq closed
      BY <1>2 DEF Update
    <2> QED BY <1>1, <1>2, <2>1, HeldAbides, NewRowsKeep, Typed
  <1>3. CASE Unsolved
    <2>1. excluded' \subseteq Tasks /\ row' = row /\ closed' = closed BY <1>1, <1>3, Typed DEF Unsolved
    <2> QED BY <1>1, <2>1, NewRowsKeep, Typed
  <1>4. CASE \E c \in item : Convict(c, r) BY <1>1, <1>4, ConvictKeeps
  <1> QED BY <1>2, <1>3, <1>4 DEF BatchFails

(* A gate that passed: the tick goes on with one repository less.          *)
LEMMA PassedKeeps ==
  ASSUME IInv, pc = "validate", NEW r \in left, ~GateRed(r), left' = left \ {r},
         \/ UNCHANGED <<row, closed>>
         \/ Update(item, LAMBDA rec : [rec EXCEPT !.files = @ \union {r}]),
         UNCHANGED <<pc, picked, item, todo, base, cand, ending, seen, excluded, faults>>,
         UNCHANGED <<code, main, dev, tree>>
  PROVE  IInv'
  <1>1. r \in Repos /\ item \subseteq Tasks BY DEF IInv, TypeOK
  <1>2. /\ \A t \in Tasks : Abides(t, row'[t]) /\ row'[t].repos = row[t].repos /\ row'[t].n = row[t].n
        /\ row' = [t \in Tasks |-> row'[t]] /\ closed' \subseteq closed
    <2>1. CASE UNCHANGED <<row, closed>> BY <2>1, SameRowAbides, Typed
    <2>2. CASE Update(item, LAMBDA rec : [rec EXCEPT !.files = @ \union {r}])
      <3>1. /\ row' = [t \in Tasks |-> IF t \in item
                            THEN [row[t] EXCEPT !.files = row[t].files \union {r}] ELSE row[t]]
            /\ closed' \subseteq closed
        BY <2>2 DEF Update
      <3>2. ASSUME NEW t \in Tasks
            PROVE  Abides(t, row'[t]) /\ row'[t].repos = row[t].repos /\ row'[t].n = row[t].n
        <4>1. row[t].files \union {r} \in SUBSET Repos BY <1>1, Typed DEF Row
        <4>2. /\ Abides(t, [row[t] EXCEPT !.files = row[t].files \union {r}])
              /\ [row[t] EXCEPT !.files = row[t].files \union {r}].repos = row[t].repos
              /\ [row[t] EXCEPT !.files = row[t].files \union {r}].n = row[t].n
          BY <4>1, FilesAbides
        <4>3. CASE t \in item
          <5>1. row'[t] = [row[t] EXCEPT !.files = row[t].files \union {r}] BY <3>1, <4>3
          <5> QED BY <4>2, <5>1
        <4>4. CASE t \notin item
          <5>1. row'[t] = row[t] BY <3>1, <4>4
          <5> QED BY <5>1, SameRowAbides
        <4> QED BY <4>3, <4>4
      <3> QED BY <3>1, <3>2
    <2> QED BY <2>1, <2>2
  <1>3. row' \in [Tasks -> Row] BY <1>2 DEF Abides
  <1>4. Grows BY SameGrows
  <1>5. Live' /\ OnlyGuiltyBlocked' /\ WorkNeverLost' BY <1>2, <1>3, <1>4, RowsAbide, WorkStays
  <1>6. TypeOK' BY <1>2, <1>3 DEF IInv, TypeOK
  <1>7. Shipped' = Shipped BY <1>1, <1>2 DEF Shipped
  <1>8. InHand'
    <2>1. Batch' <=> Batch BY DEF Batch
    <2> QED BY <1>1, <1>2, <1>7, <2>1 DEF IInv, InHand
  <1>9. Built' BY <1>1, <1>2 DEF IInv, Built
  <1>10. \A q \in Repos : Green(q, cand[q])' <=> Green(q, cand[q]) BY DEF Green
  <1>11. Gated'
    <2>1. Shipped \subseteq Repos BY <1>1, Typed DEF Shipped, Row
    <2>2. \A q \in Shipped \ (left \ {r}) : Green(q, cand[q]) BY DEF IInv, Gated, GateRed
    <2>3. \A q \in (Shipped \ left)' : Green(q, cand[q])' BY <1>7, <1>10, <2>1, <2>2
    <2> QED BY <2>3 DEF Gated
  <1>12. Landed' /\ Shown' BY <1>4 DEF Landed, Grows, Shown
  <1> QED BY <1>5, <1>6, <1>8, <1>9, <1>11, <1>12 DEF IInv

LEMMA ValidateKeeps == ASSUME IInv, Validate PROVE IInv'
  <1> DEFINE r == Min(left)
             conflict == ~Batch /\ \E t \in item : Candidate(t, r) /\ Clash(t, base[r].work, r)
  <1>1. /\ pc = "validate" /\ left # {} /\ UNCHANGED <<code, main, dev, tree>>
    BY DEF Validate
  <1>2. r \in left /\ r \in Repos
    <2>1. left \subseteq Repos BY DEF IInv, TypeOK
    <2> QED BY <1>1, <2>1, LeastRepo
  <1>3. Grows BY <1>1, SameGrows
  <1>4. CASE FailAll("conflict") /\ UNCHANGED <<excluded, faults>>
    BY <1>1, <1>3, <1>4, FailAllKeeps, Typed
  <1>5. CASE /\ ~GateRed(r) /\ left' = left \ {r}
             /\ IF Batch THEN UNCHANGED <<row, closed>>
                 ELSE Update(item, LAMBDA rec : [rec EXCEPT !.files = @ \union {r}])
             /\ UNCHANGED <<pc, picked, item, todo, base, cand, ending, seen, excluded, faults>>
    <2> HIDE DEF r
    <2> QED BY <1>1, <1>2, <1>5, PassedKeeps
  <1>6. CASE /\ GateRed(r) /\ EndTick
             /\ IF Batch THEN BatchFails(r) ELSE \A t \in item : SingleFails(t, r)
    <2> HIDE DEF r
    <2> QED BY <1>1, <1>2, <1>6, BatchFailsKeeps, SingleFailsKeeps
  <1>7. CASE Fault /\ EndTick /\ Update(item, Deferred) /\ UNCHANGED excluded
    <2>1. /\ row' = [u \in Tasks |-> IF u \in item THEN Deferred(row[u]) ELSE row[u]]
          /\ closed' \subseteq closed
      BY <1>7 DEF Update
    <2>2. faults' \in 0 .. MaxFaults BY <1>7, FaultCounted
    <2> QED BY <1>1, <1>7, <2>1, <2>2, DeferredAbides, NewRowsKeep, Typed
  <1> QED BY <1>4, <1>5, <1>6, <1>7 DEF Validate

-----------------------------------------------------------------------------
(* Publishing and rolling out. *)

(* What is shipped is the work of the tasks in hand. *)
LEMMA ShippedRepos ==
  ASSUME IInv
  PROVE  /\ Shipped \subseteq Repos
         /\ \A t \in item : Work[t] \subseteq Shipped
         /\ item # {} => Shipped # {}
  <1>1. item \subseteq Tasks /\ \A t \in item : row[t].repos = Work[t] BY DEF IInv, TypeOK, InHand
  <1>2. Shipped \subseteq Repos BY <1>1, Typed DEF Shipped, Row
  <1>3. \A t \in item : Work[t] \subseteq Shipped BY <1>1 DEF Shipped
  <1>4. \A t \in item : Work[t] # {} BY <1>1
  <1> QED BY <1>2, <1>3, <1>4

LEMMA PublishKeeps == ASSUME IInv, Publish PROVE IInv'
  <1>1. /\ pc = "validate" /\ left = {} /\ UNCHANGED <<code, main, dev, tree, excluded>>
    BY DEF Publish
  <1>2. Grows BY <1>1, SameGrows
  <1>3. CASE Fault /\ FailAll("transient") BY <1>1, <1>2, <1>3, FailAllKeeps, FaultCounted, Typed
  <1>4. CASE FailAll("transient") /\ UNCHANGED faults BY <1>1, <1>2, <1>4, FailAllKeeps, Typed
  <1>5. CASE /\ pc' = "push" /\ left' = Shipped
             /\ UNCHANGED <<row, closed, picked, item, todo, base, cand, ending, seen, faults>>
    <2>1. \A t \in Tasks : Abides(t, row'[t]) BY <1>5, SameRowAbides
    <2>2. Live' /\ OnlyGuiltyBlocked' /\ WorkNeverLost'
      BY <1>1, <1>2, <1>5, <2>1, Typed, RowsAbide, WorkStays
    <2>3. Shipped' = Shipped BY <1>5 DEF Shipped
    <2>4. TypeOK' BY <1>1, <1>5, ShippedRepos DEF IInv, TypeOK, Place
    <2>5. InHand'
      <3>1. item # {} BY <1>1 DEF IInv, InHand
      <3> QED BY <1>1, <1>5, <2>3, <3>1, ShippedRepos DEF IInv, InHand
    <2>6. Built' BY <1>1, <1>5 DEF IInv, Built
    <2>7. Gated'
      <3>1. \A r \in Shipped : Green(r, cand[r]) BY <1>1 DEF IInv, Gated
      <3>2. \A r \in Shipped : Green(r, cand[r])' BY <1>1, <1>5, <3>1, ShippedRepos DEF Green
      <3>3. \A r \in Shipped' : Green(r, cand[r])' BY <2>3, <3>2
      <3> QED BY <1>5, <3>3 DEF Gated
    <2>8. Landed' /\ Shown' BY <1>2, <1>5, <2>3 DEF Landed, Grows, Shown
    <2> QED BY <2>2, <2>4, <2>5, <2>6, <2>7, <2>8 DEF IInv
  <1> QED BY <1>3, <1>4, <1>5 DEF Publish

(* A push of what was built on the mainline it lands on: nothing of that   *)
(* mainline, and so nothing DEV runs, is missing in it.                    *)
LEMMA LandedGrows ==
  ASSUME IInv, pc = "push", NEW r \in left, FastForward(r),
         main' = [main EXCEPT ![r] = cand[r]], dev' = dev
  PROVE  Grows /\ AtLeast(cand[r], dev[r]) /\ main'[r] = cand[r]
  <1>1. r \in Repos BY DEF IInv, TypeOK
  <1>2. base[r] = main[r] BY DEF FastForward
  <1>3. cand[r] \in Commit /\ main[r] \in Commit /\ dev[r] \in Commit BY <1>1, Typed
  <1>4. main[r].work \subseteq cand[r].work /\ cand[r].ext = main[r].ext
    BY <1>1, <1>2 DEF IInv, Built
  <1>5. AtLeast(cand[r], main[r]) BY <1>3, <1>4, CommitFields DEF AtLeast
  <1>6. AtLeast(main[r], dev[r]) BY <1>1 DEF IInv, Landed
  <1>7. AtLeast(cand[r], dev[r]) BY <1>3, <1>5, <1>6, AtLeastTrans
  <1>8. main' \in [Repos -> Commit] /\ main'[r] = cand[r] BY <1>1, <1>3, Typed
  <1>9. ASSUME NEW q \in Repos PROVE AtLeast(main'[q], main[q]) /\ AtLeast(main'[q], dev'[q])
    <2>1. CASE q = r BY <1>5, <1>7, <1>8, <2>1
    <2>2. CASE q # r
      <3>1. main'[q] = main[q] /\ main[q] \in Commit BY <2>2, Typed
      <3>2. AtLeast(main[q], dev[q]) BY DEF IInv, Landed
      <3> QED BY <3>1, <3>2, AtLeastSelf
    <2> QED BY <2>1, <2>2
  <1>10. \A q \in Repos : AtLeast(dev'[q], dev[q]) BY AtLeastSelf, Typed
  <1> QED BY <1>7, <1>8, <1>9, <1>10, Typed DEF Grows

LEMMA PushKeeps == ASSUME IInv, Push PROVE IInv'
  <1> DEFINE r == Min(left)
  <1>1. pc = "push" /\ UNCHANGED <<code, dev, tree, excluded>> BY DEF Push
  <1>2. r \in left /\ r \in Repos
    <2>1. left \subseteq Repos /\ left # {} BY <1>1 DEF IInv, TypeOK, InHand
    <2> QED BY <2>1, LeastRepo
  <1>3. CASE /\ FastForward(r)
             /\ main' = [main EXCEPT ![r] = cand[r]] /\ left' = left \ {r}
             /\ pc' = IF left # {r} THEN "push" ELSE IF Batch THEN "record" ELSE "deploy"
             /\ UNCHANGED <<row, closed, picked, item, todo, base, cand, ending, seen, faults>>
    <2> HIDE DEF r
    <2>1. Grows /\ AtLeast(cand[r], dev[r]) /\ main'[r] = cand[r] BY <1>1, <1>2, <1>3, LandedGrows
    <2>2. \A t \in Tasks : Abides(t, row'[t]) BY <1>3, SameRowAbides
    <2>3. Live' /\ OnlyGuiltyBlocked' /\ WorkNeverLost'
      BY <1>1, <1>3, <2>1, <2>2, Typed, RowsAbide, WorkStays
    <2>4. Shipped' = Shipped BY <1>3 DEF Shipped
    <2>5. pc' \in {"push", "record", "deploy"} /\ (pc' = "push" <=> left' # {})
      BY <1>2, <1>3
    <2>6. TypeOK' BY <1>1, <1>3, <2>1, <2>5 DEF IInv, TypeOK, Place, Grows
    <2>7. InHand' BY <1>1, <1>3, <2>4, <2>5 DEF IInv, InHand
    <2>8. Built' BY <1>1, <1>3 DEF IInv, Built
    <2>9. Gated'
      <3>1. \A q \in Shipped : Green(q, cand[q]) BY <1>1 DEF IInv, Gated
      <3>2. \A q \in Shipped : Green(q, cand[q])' BY <1>1, <1>3, <3>1, ShippedRepos DEF Green
      <3>3. \A q \in Shipped' : Green(q, cand[q])' BY <2>4, <3>2
      <3> QED BY <2>5, <3>3 DEF Gated
    <2>10. \A q \in Shipped \ left' : AtLeast(main'[q], cand[q]) /\ AtLeast(cand[q], dev[q])
      <3> SUFFICES ASSUME NEW q \in Shipped, q \notin left'
                   PROVE  AtLeast(main'[q], cand[q]) /\ AtLeast(cand[q], dev[q])
        OBVIOUS
      <3>1. q \in Repos BY ShippedRepos
      <3>2. CASE q = r BY <1>2, <2>1, <3>2, AtLeastSelf, Typed
      <3>3. CASE q # r
        <4>1. q \notin left BY <1>3, <3>3
        <4>2. AtLeast(main[q], cand[q]) /\ AtLeast(cand[q], dev[q]) BY <1>1, <4>1 DEF IInv, Landed
        <4>3. main'[q] = main[q] BY <1>3, <3>1, <3>3, Typed
        <4> QED BY <4>2, <4>3
      <3> QED BY <3>2, <3>3
    <2>11. Landed'
      <3>1. left' = {} => Shipped \ left' = Shipped OBVIOUS
      <3> QED BY <1>1, <1>3, <2>1, <2>4, <2>5, <2>10, <3>1 DEF Landed, Grows
    <2>12. Shown' BY <2>5 DEF Shown
    <2> QED BY <2>3, <2>6, <2>7, <2>8, <2>9, <2>11, <2>12 DEF IInv
  <1>4. CASE FailAll("repository") /\ UNCHANGED <<main, faults>>
    BY <1>1, <1>4, SameGrows, FailAllKeeps, Typed
  <1>5. CASE /\ Fault /\ FailAll("transient")
             /\ main' = main \/ (FastForward(r) /\ main' = [main EXCEPT ![r] = cand[r]])
    <2> HIDE DEF r
    <2>1. Grows BY <1>1, <1>2, <1>5, SameGrows, LandedGrows
    <2> QED BY <1>1, <1>5, <2>1, FailAllKeeps, FaultCounted, Typed
  <1> QED BY <1>3, <1>4, <1>5 DEF Push

LEMMA RecordKeeps == ASSUME IInv, Record PROVE IInv'
  <1>1. /\ pc = "record" /\ pc' = "deploy"
        /\ UNCHANGED <<code, main, dev, tree, picked, item, todo, left, base, cand, ending, seen,
                       excluded, faults>>
        /\ row' = [t \in Tasks |-> IF t \in item THEN [row[t] EXCEPT !.files = row[t].repos] ELSE row[t]]
        /\ closed' \subseteq closed
    BY DEF Record, Update, memory
  <1>2. ASSUME NEW t \in Tasks PROVE Abides(t, row'[t]) /\ row'[t].repos = row[t].repos
    <2>1. row[t].repos \in SUBSET Repos BY Typed DEF Row
    <2>2. /\ Abides(t, [row[t] EXCEPT !.files = row[t].repos])
          /\ [row[t] EXCEPT !.files = row[t].repos].repos = row[t].repos
      BY <2>1, FilesAbides
    <2>3. CASE t \in item
      <3>1. row'[t] = [row[t] EXCEPT !.files = row[t].repos] BY <1>1, <2>3
      <3> QED BY <2>2, <3>1
    <2>4. CASE t \notin item
      <3>1. row'[t] = row[t] BY <1>1, <2>4
      <3> QED BY <3>1, SameRowAbides
    <2> QED BY <2>3, <2>4
  <1>3. row' \in [Tasks -> Row] BY <1>1, <1>2 DEF Abides
  <1>4. Grows BY <1>1, SameGrows
  <1>5. Live' /\ OnlyGuiltyBlocked' /\ WorkNeverLost' BY <1>1, <1>2, <1>3, <1>4, RowsAbide, WorkStays
  <1>6. item \subseteq Tasks BY Typed
  <1>7. TypeOK' BY <1>1, <1>3 DEF IInv, TypeOK, Place
  <1>8. InHand' BY <1>1, <1>2, <1>6 DEF IInv, InHand
  <1>9. Built' BY <1>1, <1>2, <1>6 DEF IInv, Built
  <1>10. Shipped' = Shipped BY <1>1, <1>2, <1>6 DEF Shipped
  <1>11. Landed' BY <1>1, <1>10 DEF IInv, Landed
  <1>12. Gated' /\ Shown' BY <1>1 DEF Gated, Shown
  <1> QED BY <1>5, <1>7, <1>8, <1>9, <1>11, <1>12 DEF IInv

(* A roll-out of what is published, complete or not, takes nothing back.   *)
LEMMA RolledGrows ==
  ASSUME IInv, pc = "deploy", NEW S \in SUBSET Shipped, dev' = Rolled(S), main' = main
  PROVE  Grows /\ \A r \in S : dev'[r] = cand[r]
  <1>1. S \subseteq Repos BY ShippedRepos
  <1>2. ASSUME NEW r \in Repos
        PROVE  /\ dev'[r] \in Commit /\ AtLeast(main'[r], main[r])
               /\ AtLeast(dev'[r], dev[r]) /\ AtLeast(main'[r], dev'[r])
    <2>1. cand[r] \in Commit /\ main[r] \in Commit /\ dev[r] \in Commit BY Typed
    <2>2. CASE r \in S
      <3>1. dev'[r] = cand[r] BY <2>2 DEF Rolled
      <3>2. AtLeast(main[r], cand[r]) /\ AtLeast(cand[r], dev[r]) BY <2>2 DEF IInv, Landed
      <3> QED BY <2>1, <3>1, <3>2, AtLeastSelf
    <2>3. CASE r \notin S
      <3>1. dev'[r] = dev[r] BY <2>3 DEF Rolled
      <3>2. AtLeast(main[r], dev[r]) BY DEF IInv, Landed
      <3> QED BY <2>1, <3>1, <3>2, AtLeastSelf
    <2> QED BY <2>2, <2>3
  <1>3. dev' \in [Repos -> Commit]
    <2>1. dev' = [r \in Repos |-> dev'[r]] BY DEF Rolled
    <2> QED BY <1>2, <2>1
  <1> QED BY <1>1, <1>2, <1>3, Typed DEF Grows, Rolled

LEMMA DeployKeeps == ASSUME IInv, Deploy PROVE IInv'
  <1>1. pc = "deploy" /\ UNCHANGED <<code, main, tree, excluded>> BY DEF Deploy
  <1>2. CASE /\ dev' = Rolled(Shipped) /\ pc' = "finalize" /\ todo' = item
             /\ UNCHANGED <<row, closed, picked, item, left, base, cand, ending, seen, faults>>
    <2>1. Grows /\ \A r \in Shipped : dev'[r] = cand[r] BY <1>1, <1>2, RolledGrows
    <2>2. \A t \in Tasks : Abides(t, row'[t]) BY <1>2, SameRowAbides
    <2>3. Live' /\ OnlyGuiltyBlocked' /\ WorkNeverLost'
      BY <1>1, <1>2, <2>1, <2>2, Typed, RowsAbide, WorkStays
    <2>4. TypeOK' BY <1>1, <1>2, <2>1 DEF IInv, TypeOK, Place, Grows
    <2>5. InHand' BY <1>1, <1>2 DEF IInv, InHand
    <2>6. Built' /\ Gated' BY <1>2 DEF Built, Gated
    <2>7. Landed' BY <1>2, <2>1 DEF Landed, Grows
    <2>8. ASSUME NEW t \in item, NEW r \in Work[t]
          PROVE  t \in main'[r].work /\ t \in dev'[r].work
      <3>1. r \in Shipped /\ r \in Repos BY ShippedRepos
      <3>2. t \in cand[r].work BY <1>1, <3>1 DEF IInv, InHand, Built
      <3>3. AtLeast(main[r], cand[r]) BY <1>1, <3>1 DEF IInv, Landed
      <3> QED BY <1>1, <2>1, <3>1, <3>2, <3>3 DEF AtLeast
    <2>9. Shown' BY <1>2, <2>8 DEF Shown, IsLive
    <2> QED BY <2>3, <2>4, <2>5, <2>6, <2>7, <2>9 DEF IInv
  <1>3. ASSUME NEW kind, Fault, FailAll(kind), dev' = dev \/ \E S \in SUBSET Shipped : dev' = Rolled(S)
        PROVE  IInv'
    <2>1. Grows BY <1>1, <1>3, SameGrows, RolledGrows
    <2> QED BY <1>1, <1>3, <2>1, FailAllKeeps, FaultCounted, Typed
  <1> QED BY <1>2, <1>3 DEF Deploy, NotBuildable, NotMigrated, NotProven

-----------------------------------------------------------------------------
(* The end of a release. *)

LEMMA FinalizeKeeps == ASSUME IInv, NEW t \in Tasks, Finalize(t) PROVE IInv'
  <1>1. pc = "finalize" /\ t \in todo /\ UNCHANGED <<code, main, dev, tree, excluded>>
    BY DEF Finalize
  <1>2. Grows BY <1>1, SameGrows
  <1>3. t \in item /\ todo \subseteq item /\ item \subseteq Tasks BY <1>1 DEF IInv, InHand, TypeOK
  <1>4. ASSUME NEW st \in {"released", "blocked"}, Clean(t, st), faults' \in 0 .. MaxFaults
        PROVE  IInv'
    <2>1. /\ pc' = "cleanup" /\ ending' = [task |-> {t}, st |-> st]
          /\ left' = {r \in Repos : <<t, r>> \in tree} /\ todo' = todo \ {t}
          /\ UNCHANGED <<row, closed, picked, item, base, cand, seen>>
      BY <1>4 DEF Clean
    <2>2. \A u \in Tasks : Abides(u, row'[u]) BY <2>1, SameRowAbides
    <2>3. Live' /\ OnlyGuiltyBlocked' /\ WorkNeverLost'
      BY <1>1, <1>2, <2>1, <2>2, Typed, RowsAbide, WorkStays
    <2>4. ending'.task = {t} /\ ending'.st \in Status BY <2>1 DEF Status
    <2>5. TypeOK' BY <1>1, <1>3, <1>4, <2>1, <2>4 DEF IInv, TypeOK, Place
    <2>6. InHand' BY <1>1, <1>3, <2>1, <2>4 DEF IInv, InHand
    <2>7. Built' /\ Gated' BY <2>1 DEF Built, Gated
    <2>8. Landed' BY <1>2, <2>1 DEF Landed, Grows
    <2>9. Shown' BY <1>1, <2>1 DEF IInv, Shown, IsLive
    <2> QED BY <2>3, <2>5, <2>6, <2>7, <2>8, <2>9 DEF IInv
  <1>5. CASE /\ Fault
             /\ Update({t}, LAMBDA rec : Charged(rec, "transient", None, FALSE))
             /\ IF todo = {t} THEN EndTick
                ELSE /\ todo' = todo \ {t}
                     /\ UNCHANGED <<pc, picked, item, left, base, cand, ending, seen>>
    <2>1. /\ row' = [u \in Tasks |-> IF u \in {t} THEN Plain(row[u], "transient") ELSE row[u]]
          /\ closed' \subseteq closed
      BY <1>5 DEF Update, Plain
    <2>2. Abides(t, Plain(row[t], "transient")) /\ Plain(row[t], "transient").repos = row[t].repos
      BY PlainAbides, PlainRow, Typed
    <2>3. \A u \in Tasks : Abides(u, row'[u]) /\ row'[u].repos = row[u].repos
      BY <2>1, <2>2, SameRowAbides
    <2>4. row' \in [Tasks -> Row] BY <2>1, <2>3 DEF Abides
    <2>5. faults' \in 0 .. MaxFaults BY <1>5, FaultCounted
    <2>6. CASE EndTick BY <1>1, <1>2, <2>1, <2>3, <2>4, <2>5, <2>6, EndTickKeeps, Typed
    <2>7. CASE /\ todo' = todo \ {t}
               /\ UNCHANGED <<pc, picked, item, left, base, cand, ending, seen>>
      <3>1. Live' /\ OnlyGuiltyBlocked' /\ WorkNeverLost'
        BY <1>1, <1>2, <2>3, <2>4, RowsAbide, WorkStays
      <3>2. TypeOK' BY <1>1, <2>1, <2>4, <2>5, <2>7 DEF IInv, TypeOK
      <3>3. InHand' BY <1>1, <1>3, <2>3, <2>7 DEF IInv, InHand
      <3>4. Built' /\ Gated' BY <1>1, <2>7 DEF Built, Gated
      <3>5. Landed' BY <1>1, <1>2, <2>7 DEF Landed, Grows
      <3>6. Shown' BY <1>1, <2>7 DEF IInv, Shown, IsLive
      <3> QED BY <3>1, <3>2, <3>3, <3>4, <3>5, <3>6 DEF IInv
    <2> QED BY <1>5, <2>6, <2>7
  <1> QED BY <1>4, <1>5, FaultCounted, Typed DEF Finalize

LEMMA CleanupKeeps == ASSUME IInv, Cleanup PROVE IInv'
  <1> DEFINE r == Min(left)
  <1>1. /\ pc = "cleanup" /\ left' = left \ {r}
        /\ tree' = tree \/ tree' = tree \ (ending.task \X {r})
        /\ UNCHANGED <<code, main, dev, row, closed, pc, picked, item, todo, base, cand, ending,
                       seen, excluded>>
    BY DEF Cleanup
  <1>2. faults' \in 0 .. MaxFaults BY FaultCounted, Typed DEF Cleanup
  <1>3. Grows BY <1>1, SameGrows
  <1>4. \A u \in Tasks : Abides(u, row'[u]) BY <1>1, SameRowAbides
  <1>5. Live' /\ OnlyGuiltyBlocked' BY <1>1, <1>3, <1>4, Typed, RowsAbide
  <1>6. WorkNeverLost'
    <2> SUFFICES ASSUME NEW u \in Tasks, NEW q \in Work[u]
                 PROVE  <<u, q>> \in tree' \/ u \in main[q].work
      BY <1>1 DEF WorkNeverLost
    <2>1. <<u, q>> \in tree \/ u \in main[q].work BY DEF IInv, WorkNeverLost
    <2>2. u \in ending.task => u \in main[q].work BY <1>1 DEF IInv, InHand, Shown, IsLive
    <2> QED BY <1>1, <2>1, <2>2
  <1>7. TypeOK' BY <1>1, <1>2 DEF IInv, TypeOK
  <1>8. InHand' BY <1>1 DEF IInv, InHand
  <1>9. Built' /\ Gated' BY <1>1 DEF Built, Gated
  <1>10. Landed' BY <1>1, <1>3 DEF Landed, Grows
  <1>11. Shown' BY <1>1 DEF IInv, Shown, IsLive
  <1> QED BY <1>5, <1>6, <1>7, <1>8, <1>9, <1>10, <1>11 DEF IInv

LEMMA SealKeeps == ASSUME IInv, Seal PROVE IInv'
  <1>1. /\ pc = "cleanup" /\ UNCHANGED <<code, main, dev, tree, excluded, faults>>
        /\ row' = [u \in Tasks |-> IF u \in ending.task
                         THEN [row[u] EXCEPT !.st = ending.st, !.gate = None] ELSE row[u]]
        /\ closed' \subseteq closed
    BY DEF Seal, Update
  <1>2. ASSUME NEW u \in Tasks PROVE Abides(u, row'[u]) /\ row'[u].repos = row[u].repos
    <2>1. CASE u \in ending.task
      <3> DEFINE new == [row[u] EXCEPT !.st = ending.st, !.gate = None]
      <3>1. row'[u] = new BY <1>1, <2>1
      <3>2. row[u] \in Row /\ ending.st \in Status BY DEF IInv, TypeOK
      <3>3. new \in Row /\ new.repos = row[u].repos /\ new.gate = None BY <3>2, SealedRow
      <3>4. IsLive(u) BY <1>1, <2>1 DEF IInv, InHand, Shown
      <3> HIDE DEF new
      <3> QED BY <3>1, <3>3, <3>4 DEF Abides, Accused
    <2>2. CASE u \notin ending.task
      <3>1. row'[u] = row[u] BY <1>1, <2>2
      <3> QED BY <3>1, SameRowAbides
    <2> QED BY <2>1, <2>2
  <1>3. row' \in [Tasks -> Row] BY <1>1, <1>2 DEF Abides
  <1>4. Grows BY <1>1, SameGrows
  <1>5. CASE EndTick BY <1>1, <1>2, <1>3, <1>4, <1>5, EndTickKeeps, Typed
  <1>6. CASE /\ pc' = "finalize" /\ ending' = NoEnding
             /\ UNCHANGED <<picked, item, todo, left, base, cand, seen>>
    <2>1. Live' /\ OnlyGuiltyBlocked' /\ WorkNeverLost' BY <1>1, <1>2, <1>3, <1>4, RowsAbide, WorkStays
    <2>2. NoEnding.task = {} /\ NoEnding.st \in Status BY DEF NoEnding, Status
    <2>3. TypeOK' BY <1>1, <1>3, <1>6, <2>2 DEF IInv, TypeOK, Place
    <2>4. item \subseteq Tasks BY Typed
    <2>5. InHand' BY <1>1, <1>2, <1>6, <2>4 DEF IInv, InHand
    <2>6. Built' /\ Gated' BY <1>6 DEF Built, Gated
    <2>7. Landed' BY <1>4, <1>6 DEF Landed, Grows
    <2>8. Shown' BY <1>1, <1>6 DEF IInv, Shown, IsLive
    <2> QED BY <2>1, <2>3, <2>5, <2>6, <2>7, <2>8 DEF IInv
  <1> QED BY <1>5, <1>6 DEF Seal

-----------------------------------------------------------------------------
(* The rest of the world. *)

LEMMA LostTickKeeps ==
  ASSUME IInv, Forget, UNCHANGED <<code, main, dev, tree, row, closed>>, Fault,
         seen' \subseteq Tasks, excluded' \subseteq Tasks
  PROVE  IInv'
  <1>1. Grows BY SameGrows
  <1>2. \A t \in Tasks : Abides(t, row'[t]) BY SameRowAbides
  <1>3. Live' /\ OnlyGuiltyBlocked' /\ WorkNeverLost' BY <1>1, <1>2, Typed, RowsAbide, WorkStays
  <1>4. closed' \subseteq MayClose /\ faults' \in 0 .. MaxFaults BY FaultCounted DEF IInv, TypeOK
  <1> QED BY <1>1, <1>3, <1>4, TickOver, Typed

LEMMA AbortKeeps == ASSUME IInv, Abort PROVE IInv'
  <1>1. seen' \subseteq Tasks /\ excluded' \subseteq Tasks BY DEF Abort, IInv, TypeOK
  <1> QED BY <1>1, LostTickKeeps DEF Abort

LEMMA CrashKeeps == ASSUME IInv, Crash PROVE IInv'
  <1>1. seen' \subseteq Tasks /\ excluded' \subseteq Tasks BY DEF Crash
  <1> QED BY <1>1, LostTickKeeps DEF Crash

LEMMA PushOutsideKeeps == ASSUME IInv, NEW r \in Repos, PushOutside(r) PROVE IInv'
  <1>1. /\ main' = [main EXCEPT ![r] = [main[r] EXCEPT !.ext = main[r].ext + 1]]
        /\ UNCHANGED <<code, dev, tree, row, closed, pc, picked, item, todo, left, base, cand, ending,
                       seen, excluded, faults>>
    BY DEF PushOutside, memory
  <1>2. ASSUME NEW q \in Repos
        PROVE  main'[q] \in Commit /\ AtLeast(main'[q], main[q])
    <2>1. main[q] \in Commit BY Typed
    <2>2. CASE q = r
      <3>1. main'[q] = [main[q] EXCEPT !.ext = main[q].ext + 1] BY <1>1, <2>2, Typed
      <3> QED BY <2>1, <3>1 DEF Commit, AtLeast
    <2>3. CASE q # r
      <3>1. main'[q] = main[q] BY <1>1, <2>3, Typed
      <3> QED BY <2>1, <3>1, AtLeastSelf
    <2> QED BY <2>2, <2>3
  <1>3. main' \in [Repos -> Commit]
    <2>1. main' = [q \in Repos |-> main'[q]] BY <1>1, Typed
    <2> QED BY <1>2, <2>1
  <1>4. ASSUME NEW q \in Repos, NEW c \in Commit, AtLeast(main[q], c) PROVE AtLeast(main'[q], c)
    <2>1. main[q] \in Commit BY Typed
    <2> QED BY <1>2, <1>4, <2>1, AtLeastTrans
  <1>5. Grows
    <2>1. \A q \in Repos : AtLeast(main[q], dev[q]) /\ dev[q] \in Commit BY Typed DEF IInv, Landed
    <2> QED BY <1>1, <1>2, <1>3, <1>4, <2>1, AtLeastSelf, Typed DEF Grows
  <1>6. \A t \in Tasks : Abides(t, row'[t]) BY <1>1, SameRowAbides
  <1>7. Live' /\ OnlyGuiltyBlocked' /\ WorkNeverLost' BY <1>1, <1>5, <1>6, Typed, RowsAbide, WorkStays
  <1>8. TypeOK' BY <1>1, <1>3 DEF IInv, TypeOK
  <1>9. Shipped' = Shipped BY <1>1 DEF Shipped
  <1>10. InHand' /\ Built'
    <2>1. Batch' <=> Batch BY <1>1 DEF Batch
    <2>2. InHand' BY <1>1, <1>9, <2>1 DEF IInv, InHand
    <2> QED BY <1>1, <2>2 DEF IInv, Built
  <1>11. Gated'
    <2>1. \A q \in Repos : Green(q, cand[q])' <=> Green(q, cand[q]) BY <1>1 DEF Green
    <2>2. pc = "validate" => \A q \in Shipped \ left : Green(q, cand[q])' BY <2>1, ShippedRepos DEF IInv, Gated
    <2>3. pc = "push" => \A q \in Shipped : Green(q, cand[q])' BY <2>1, ShippedRepos DEF IInv, Gated
    <2>4. pc' = "validate" => \A q \in (Shipped \ left)' : Green(q, cand[q])' BY <1>1, <1>9, <2>2
    <2>5. pc' = "push" => \A q \in Shipped' : Green(q, cand[q])' BY <1>1, <1>9, <2>3
    <2> QED BY <2>4, <2>5 DEF Gated
  <1>12. Landed'
    <2>1. \A q \in Shipped : q \in Repos /\ cand[q] \in Commit BY ShippedRepos, Typed
    <2>2. \A q \in Shipped : AtLeast(main[q], cand[q]) => AtLeast(main'[q], cand[q]) BY <1>4, <2>1
    <2>3. \A q \in Repos : AtLeast(main'[q], dev[q]) BY <1>1, <1>5 DEF Grows
    <2> QED BY <1>1, <1>9, <2>2, <2>3 DEF IInv, Landed
  <1>13. Shown' BY <1>1, <1>5 DEF IInv, Shown, IsLive, Grows, AtLeast, InHand, TypeOK
  <1> QED BY <1>7, <1>8, <1>10, <1>11, <1>12, <1>13 DEF IInv

(* Nothing of the release worker changes. *)
LEMMA SameKeeps ==
  ASSUME IInv, UNCHANGED <<code, main, dev, tree, row, pc, picked, item, todo, left, base, cand,
                           ending, seen, excluded, faults>>,
         closed' \subseteq MayClose
  PROVE  IInv'
  <1>1. TypeOK' BY DEF IInv, TypeOK
  <1>2. InHand' /\ Built'
    <2>1. (Batch' <=> Batch) /\ Shipped' = Shipped BY DEF Batch, Shipped
    <2>2. InHand' BY <2>1 DEF IInv, InHand
    <2> QED BY <2>2 DEF IInv, Built
  <1>3. Gated' BY DEF IInv, Gated, Shipped, Green
  <1>4. Landed' /\ Shown' /\ Live' BY DEF IInv, Landed, Shown, Live, IsLive, Shipped
  <1>5. WorkNeverLost' /\ OnlyGuiltyBlocked' BY DEF IInv, WorkNeverLost, OnlyGuiltyBlocked, Guilty
  <1> QED BY <1>1, <1>2, <1>3, <1>4, <1>5 DEF IInv

LEMMA CloseKeeps == ASSUME IInv, NEW t \in Tasks, Close(t) PROVE IInv'
  <1>1. closed' \subseteq MayClose BY DEF Close, IInv, TypeOK
  <1> QED BY <1>1, SameKeeps DEF Close, memory

LEMMA StutterKeeps == ASSUME IInv, UNCHANGED vars PROVE IInv'
  <1>1. closed' \subseteq MayClose BY DEF vars, IInv, TypeOK
  <1> QED BY <1>1, SameKeeps DEF vars, memory

-----------------------------------------------------------------------------
(* The theorems. *)

LEMMA InitHolds == Init => IInv
  <1> SUFFICES ASSUME Init PROVE IInv OBVIOUS
  <1>1. Untouched \in [Repos -> Commit] /\ \A r \in Repos : Untouched[r] = [work |-> {}, ext |-> 0]
    BY DEF Untouched, Commit
  <1>2. NoEnding.task = {} /\ NoEnding.st \in Status BY DEF NoEnding, Status
  <1>3. NewRow \in Row
    <2>1. 0 \in 0 .. MaxAttempts BY DEF MaxAttempts
    <2> QED BY <2>1 DEF NewRow, Row, Status
  <1>4. \A t \in Tasks : row[t] = NewRow BY DEF Init
  <1>5. TypeOK
    <2>1. tree \subseteq Tasks \X Repos /\ row \in [Tasks -> Row] BY <1>3 DEF Init
    <2>2. 0 \in 0 .. MaxFaults OBVIOUS
    <2> QED BY <1>1, <1>2, <2>1, <2>2 DEF Init, TypeOK, Place
  <1>6. InHand /\ Built /\ Gated /\ Shown BY DEF Init, InHand, Built, Gated, Shown
  <1>7. Landed
    <2>1. \A r \in Repos : AtLeast(main[r], dev[r]) BY <1>1, AtLeastSelf DEF Init
    <2> QED BY <2>1 DEF Init, Landed
  <1>8. Live /\ OnlyGuiltyBlocked BY <1>4 DEF Live, OnlyGuiltyBlocked, NewRow
  <1>9. WorkNeverLost
    <2>1. \A t \in Tasks : \A r \in Work[t] : <<t, r>> \in tree BY DEF Init
    <2> QED BY <2>1 DEF WorkNeverLost
  <1> QED BY <1>5, <1>6, <1>7, <1>8, <1>9 DEF IInv

LEMMA NextKeeps == IInv /\ [Next]_vars => IInv'
  <1> SUFFICES ASSUME IInv, [Next]_vars PROVE IInv' OBVIOUS
  <1>1. CASE Tick BY <1>1, TickKeeps
  <1>2. ASSUME NEW t \in Tasks, Prepare(t) PROVE IInv' BY <1>2, PrepareKeeps
  <1>3. ASSUME NEW t \in Tasks, Finalize(t) PROVE IInv' BY <1>3, FinalizeKeeps
  <1>4. CASE Integrate BY <1>4, IntegrateKeeps
  <1>5. CASE Validate BY <1>5, ValidateKeeps
  <1>6. CASE Publish BY <1>6, PublishKeeps
  <1>7. CASE Push BY <1>7, PushKeeps
  <1>8. CASE Record BY <1>8, RecordKeeps
  <1>9. CASE Deploy BY <1>9, DeployKeeps
  <1>10. CASE Cleanup BY <1>10, CleanupKeeps
  <1>11. CASE Seal BY <1>11, SealKeeps
  <1>12. CASE Abort BY <1>12, AbortKeeps
  <1>13. CASE Crash BY <1>13, CrashKeeps
  <1>14. ASSUME NEW r \in Repos, PushOutside(r) PROVE IInv' BY <1>14, PushOutsideKeeps
  <1>15. ASSUME NEW t \in Tasks, Close(t) PROVE IInv' BY <1>15, CloseKeeps
  <1>16. CASE UNCHANGED vars BY <1>16, StutterKeeps
  <1> QED
    BY <1>1, <1>2, <1>3, <1>4, <1>5, <1>6, <1>7, <1>8, <1>9, <1>10, <1>11, <1>12, <1>13, <1>14,
       <1>15, <1>16
    DEF Next, Worker

(* The inductive invariant holds of every release worker. *)
THEOREM Invariance == Spec => []IInv
  BY InitHolds, NextKeeps, PTL DEF Spec

(* Every variable keeps its type, and the tasks in hand are those picked.  *)
THEOREM TypeCorrect == Spec => []TypeOK
  <1>1. IInv => TypeOK BY DEF IInv
  <1> QED BY <1>1, Invariance, PTL

(* However releases are retried, batched, split, interrupted and overtaken *)
(* by foreign pushes, a task is released only when DEV runs its work in    *)
(* every repository the task changed (finalizeEntry).                      *)
THEOREM OnlyLiveIsReleased == Spec => []ReleasedIsLive
  <1>1. IInv => ReleasedIsLive BY DEF IInv, Live, IsLive, ReleasedIsLive
  <1> QED BY <1>1, Invariance, PTL

(* No clean-up, neither that of a release nor the sweep of a tick, removes *)
(* the worktree of a task whose work is not in the mainline.               *)
THEOREM WorkIsKept == Spec => []WorkNeverLost
  <1>1. IInv => WorkNeverLost BY DEF IInv
  <1> QED BY <1>1, Invariance, PTL

(* A task that is blocked for a gate which the clean mainline is proved to *)
(* pass has a part in what turned the gate red.                            *)
THEOREM InnocentsGoFree == Spec => []OnlyGuiltyBlocked
  <1>1. IInv => OnlyGuiltyBlocked BY DEF IInv
  <1> QED BY <1>1, Invariance, PTL

(* Only a push of the worker and one from outside change a mainline, and   *)
(* only a roll-out changes DEV.                                            *)
LEMMA MainChanges ==
  ASSUME Next, main' # main
  PROVE  Push \/ \E r \in Repos : PushOutside(r)
  BY DEF Next, Worker, Tick, Prepare, Finalize, Integrate, Validate, Publish, Record, Deploy, Cleanup,
         Seal, Abort, Crash, Close

LEMMA DevChanges ==
  ASSUME Next, dev' # dev
  PROVE  Deploy
  BY DEF Next, Worker, Tick, Prepare, Finalize, Integrate, Validate, Publish, Push, Record, Cleanup,
         Seal, Abort, Crash, Close, PushOutside

(* A step of a push: nothing, or the candidate on the mainline it was      *)
(* built on.                                                               *)
LEMMA PushLands ==
  ASSUME IInv, Push, main' # main
  PROVE  \E r \in left : FastForward(r) /\ main' = [main EXCEPT ![r] = cand[r]] /\ dev' = dev
  <1>1. left \subseteq Repos /\ left # {} BY DEF Push, IInv, TypeOK, InHand
  <1>2. Min(left) \in left BY <1>1, LeastRepo
  <1> QED BY <1>2 DEF Push

LEMMA DeployRolls ==
  ASSUME IInv, Deploy, dev' # dev
  PROVE  \E S \in SUBSET Shipped : dev' = Rolled(S)
  BY DEF Deploy, NotBuildable, NotMigrated, NotProven

(* The mainline of a repository whose foreign version stays the same stays *)
(* green: what the worker pushes is the commit its gates passed.           *)
THEOREM MainlinesStayGreen == Spec => GreenStaysGreen
  <1> DEFINE Step == \A r \in Repos : Green(r, main[r]) /\ main'[r].ext = main[r].ext
                                           => Green(r, main'[r])
  <1>1. IInv /\ [Next]_vars => [Step]_vars
    <2> SUFFICES ASSUME IInv, Next, NEW r \in Repos, Green(r, main[r]), main'[r].ext = main[r].ext
                 PROVE  Green(r, main'[r])
      OBVIOUS
    <2>1. CASE main' = main BY <2>1
    <2>2. CASE Push /\ main' # main
      <3>1. PICK q \in left : main' = [main EXCEPT ![q] = cand[q]] BY <2>2, PushLands
      <3>2. q \in Repos /\ q \in Shipped /\ pc = "push" BY <2>2 DEF Push, IInv, TypeOK, InHand
      <3>3. Green(q, cand[q]) BY <3>2 DEF IInv, Gated
      <3>4. main'[r] = IF r = q THEN cand[q] ELSE main[r] BY <3>1, Typed
      <3> QED BY <3>3, <3>4
    <2>3. ASSUME NEW q \in Repos, PushOutside(q) PROVE Green(r, main'[r])
      <3>1. main' = [main EXCEPT ![q] = [main[q] EXCEPT !.ext = main[q].ext + 1]] BY <2>3 DEF PushOutside
      <3>2. CASE q = r
        <4>1. main[r] \in Commit BY Typed
        <4>2. main'[r] = [main[r] EXCEPT !.ext = main[r].ext + 1] BY <3>1, <3>2, Typed
        <4>3. main'[r].ext = main[r].ext + 1 /\ main[r].ext \in Nat BY <4>1, <4>2 DEF Commit
        <4> QED BY <4>3
      <3>3. CASE q # r
        <4>1. main'[r] = main[r] BY <3>1, <3>3, Typed
        <4> QED BY <4>1
      <3> QED BY <3>2, <3>3
    <2> QED BY <2>1, <2>2, <2>3, MainChanges
  <1>2. Step <=> \A r \in Repos : Green(r, main[r]) /\ main'[r].ext = main[r].ext
                                           => Green(r, main'[r])
    OBVIOUS
  <1> QED BY <1>1, <1>2, Invariance, PTL DEF Spec, GreenStaysGreen

(* Nothing that reached a mainline or DEV is ever taken back.              *)
THEOREM NothingIsUndone == Spec => NothingUndone
  <1> DEFINE Step == \A r \in Repos : AtLeast(main'[r], main[r]) /\ AtLeast(dev'[r], dev[r])
  <1>1. IInv /\ [Next]_vars => [Step]_vars
    <2> SUFFICES ASSUME IInv, Next, NEW r \in Repos
                 PROVE  AtLeast(main'[r], main[r]) /\ AtLeast(dev'[r], dev[r])
      OBVIOUS
    <2>1. AtLeast(main'[r], main[r])
      <3>1. CASE main' = main BY <3>1, AtLeastSelf, Typed
      <3>2. CASE Push /\ main' # main
        <4>1. pc = "push" BY <3>2 DEF Push
        <4>2. PICK q \in left : FastForward(q) /\ main' = [main EXCEPT ![q] = cand[q]] /\ dev' = dev
          BY <3>2, PushLands
        <4> QED BY <4>1, <4>2, LandedGrows DEF Grows
      <3>3. ASSUME NEW q \in Repos, PushOutside(q) PROVE AtLeast(main'[r], main[r])
        <4>1. main' = [main EXCEPT ![q] = [main[q] EXCEPT !.ext = main[q].ext + 1]] BY <3>3 DEF PushOutside
        <4>2. main[r] \in Commit BY Typed
        <4>3. CASE q = r
          <5>1. main'[r] = [main[r] EXCEPT !.ext = main[r].ext + 1] BY <4>1, <4>3, Typed
          <5> QED BY <4>2, <5>1 DEF Commit, AtLeast
        <4>4. CASE q # r
          <5>1. main'[r] = main[r] BY <4>1, <4>4, Typed
          <5> QED BY <4>2, <5>1, AtLeastSelf
        <4> QED BY <4>3, <4>4
      <3> QED BY <3>1, <3>2, <3>3, MainChanges
    <2>2. AtLeast(dev'[r], dev[r])
      <3>1. CASE dev' = dev BY <3>1, AtLeastSelf, Typed
      <3>2. CASE dev' # dev
        <4>1. Deploy /\ pc = "deploy" /\ main' = main BY <3>2, DevChanges DEF Deploy
        <4>2. PICK S \in SUBSET Shipped : dev' = Rolled(S) BY <3>2, <4>1, DeployRolls
        <4> QED BY <4>1, <4>2, RolledGrows DEF Grows
      <3> QED BY <3>1, <3>2
    <2> QED BY <2>1, <2>2
  <1>2. Step <=> \A r \in Repos : AtLeast(main'[r], main[r]) /\ AtLeast(dev'[r], dev[r])
    OBVIOUS
  <1> QED BY <1>1, <1>2, Invariance, PTL DEF Spec, NothingUndone
=================================================================================
