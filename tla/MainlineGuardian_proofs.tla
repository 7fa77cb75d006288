------------------------ MODULE MainlineGuardian_proofs ------------------------
(***************************************************************************)
(* Proofs about MainlineGuardian, for any list of repositories, failures   *)
(* and health of their mainlines.                                          *)
(*                                                                         *)
(* The argument.  A task is opened at one place, right after the desk said *)
(* that there is none, and the guardian is the only one who opens one      *)
(* (Placed).  It gets there from a verdict, where the second run has just  *)
(* shown the failure of the first, or from a failure it has told before;   *)
(* what it has told came the same way (Grounded).                          *)
(***************************************************************************)
EXTENDS MainlineGuardian, SequenceTheorems, TLAPS

USE GuardianAssumption

Pcs == {"idle", "walk", "judge", "confirm", "verdict", "red", "open", "green", "close"}
JobType == [pc : Pcs, at : 0 .. Len(Repos), current : BOOLEAN, result : Results, first : Failures]
EntryType == [entry : {"none", "green"} \union Failures, expired : BOOLEAN]
KnownType == [current : BOOLEAN, status : {"none", "green", "red", "environment", "error"},
              failure : Failures, overdue : BOOLEAN, reported : BOOLEAN]
AllHealths == UNION {Healths(r) : r \in RepoSet}

Placed ==
    /\ health \in [RepoSet -> AllHealths]
    /\ job.pc # "idle" => job.at \in 1 .. Len(Repos)
    /\ job.pc = "judge" => job.result # "none"
    /\ job.pc = "open" => open[Repo] = 0

Grounded ==
    /\ \A r \in RepoSet : known[r].reported => proven[r]
    /\ job.pc \in {"red", "open"} => proven[Repo]
    /\ job.pc = "verdict" /\ job.result \in Failures /\ Confirmed(job.first, job.result) => proven[Repo]

IInv == TypeOK /\ Placed /\ Grounded /\ OneMainRed /\ OpenedOnlyConfirmed

-----------------------------------------------------------------------------
(* Records, one field at a time. *)

LEMMA JobPc == ASSUME NEW j \in JobType, NEW p \in Pcs PROVE [j EXCEPT !.pc = p] \in JobType
  BY DEF JobType
LEMMA JobAt == ASSUME NEW j \in JobType, NEW a \in 0 .. Len(Repos) PROVE [j EXCEPT !.at = a] \in JobType
  BY DEF JobType
LEMMA JobCurrent == ASSUME NEW j \in JobType, NEW b \in BOOLEAN PROVE [j EXCEPT !.current = b] \in JobType
  BY DEF JobType
LEMMA JobResult == ASSUME NEW j \in JobType, NEW x \in Results PROVE [j EXCEPT !.result = x] \in JobType
  BY DEF JobType
LEMMA JobFirst == ASSUME NEW j \in JobType, NEW f \in Failures PROVE [j EXCEPT !.first = f] \in JobType
  BY DEF JobType

LEMMA JobMoved ==
  ASSUME NEW j \in JobType, NEW p \in Pcs
  PROVE  LET k == [j EXCEPT !.pc = p]
         IN  /\ k \in JobType /\ k.pc = p /\ k.at = j.at /\ k.current = j.current
             /\ k.result = j.result /\ k.first = j.first
  <1> DEFINE k == [j EXCEPT !.pc = p]
  <1>1. k \in JobType BY JobPc
  <1>2. k.pc = p /\ k.at = j.at /\ k.current = j.current /\ k.result = j.result /\ k.first = j.first
    BY DEF JobType
  <1> QED BY <1>1, <1>2

LEMMA JobShown ==
  ASSUME job \in JobType, NEW p \in Pcs, NEW x \in Results, job' = [job EXCEPT !.pc = p, !.result = x]
  PROVE  job' \in JobType /\ job'.pc = p /\ job'.at = job.at /\ job'.result = x /\ job'.first = job.first
  <1>1. [job EXCEPT !.pc = p] \in JobType BY JobPc
  <1>2. job' = [[job EXCEPT !.pc = p] EXCEPT !.result = x] OBVIOUS
  <1>3. job' \in JobType BY <1>1, <1>2, JobResult
  <1>4. job'.pc = p /\ job'.at = job.at /\ job'.result = x /\ job'.first = job.first BY DEF JobType
  <1> QED BY <1>3, <1>4

LEMMA JobConfirms ==
  ASSUME NEW j \in JobType, NEW f \in Failures
  PROVE  LET k == [j EXCEPT !.pc = "confirm", !.first = f]
         IN  k \in JobType /\ k.pc = "confirm" /\ k.at = j.at
  <1> DEFINE k == [j EXCEPT !.pc = "confirm", !.first = f]
  <1>1. [j EXCEPT !.pc = "confirm"] \in JobType BY JobPc DEF Pcs
  <1>2. k \in JobType BY <1>1, JobFirst
  <1>3. k.pc = "confirm" /\ k.at = j.at BY DEF JobType
  <1> QED BY <1>2, <1>3

LEMMA RepoCount == Len(Repos) \in Nat \ {0} /\ 1 \in 1 .. Len(Repos) /\ DOMAIN Repos = 1 .. Len(Repos)
  BY LenProperties, EmptySeq

LEMMA NoJobType == NoJob \in JobType /\ NoJob.pc = "idle"
  BY RepoCount DEF NoJob, JobType, Pcs, Results

LEMMA JobWalks ==
  ASSUME NEW a \in 1 .. Len(Repos)
  PROVE  LET k == [NoJob EXCEPT !.pc = "walk", !.at = a, !.current = TRUE]
         IN  k \in JobType /\ k.pc = "walk" /\ k.at = a
  <1> DEFINE k == [NoJob EXCEPT !.pc = "walk", !.at = a, !.current = TRUE]
  <1>1. a \in 0 .. Len(Repos) BY RepoCount
  <1>2. [NoJob EXCEPT !.pc = "walk"] \in JobType BY NoJobType, JobPc DEF Pcs
  <1>3. [[NoJob EXCEPT !.pc = "walk"] EXCEPT !.at = a] \in JobType BY <1>1, <1>2, JobAt
  <1>4. k \in JobType BY <1>3, JobCurrent
  <1>5. k.pc = "walk" /\ k.at = a BY DEF NoJob
  <1> QED BY <1>4, <1>5

(* What is known of a repository. *)
LEMMA NothingType == Nothing \in KnownType /\ ~Nothing.reported
  BY DEF Nothing, KnownType

LEMMA KnownCurrent == ASSUME NEW k \in KnownType, NEW b \in BOOLEAN PROVE [k EXCEPT !.current = b] \in KnownType
  BY DEF KnownType
LEMMA KnownStatus ==
  ASSUME NEW k \in KnownType, NEW s \in {"none", "green", "red", "environment", "error"}
  PROVE  [k EXCEPT !.status = s] \in KnownType
  BY DEF KnownType
LEMMA KnownOverdue == ASSUME NEW k \in KnownType, NEW b \in BOOLEAN PROVE [k EXCEPT !.overdue = b] \in KnownType
  BY DEF KnownType
LEMMA KnownReported == ASSUME NEW k \in KnownType, NEW b \in BOOLEAN PROVE [k EXCEPT !.reported = b] \in KnownType
  BY DEF KnownType
LEMMA KnownKeepsReported ==
  ASSUME NEW k \in KnownType, NEW b
  PROVE  [k EXCEPT !.current = b].reported = k.reported /\ [k EXCEPT !.overdue = b].reported = k.reported
  BY DEF KnownType

LEMMA SeenType ==
  ASSUME NEW s \in {"green", "environment", "error"}, job \in JobType
  PROVE  Seen(s) \in KnownType /\ ~Seen(s).reported
  <1>1. job.current \in BOOLEAN BY DEF JobType
  <1>2. [Nothing EXCEPT !.current = job.current] \in KnownType BY <1>1, NothingType, KnownCurrent
  <1>3. Seen(s) \in KnownType BY <1>2, KnownStatus DEF Seen
  <1>4. ~Seen(s).reported BY DEF Seen, Nothing
  <1> QED BY <1>3, <1>4

LEMMA RedType ==
  ASSUME NEW k \in KnownType, NEW f \in Failures, job \in JobType
  PROVE  Red(k, f) \in KnownType /\ (Red(k, f).reported => k.reported)
  <1> DEFINE same == SameFailure(k, f)
             o == same /\ k.overdue
             p == same /\ k.reported
  <1>1. o \in BOOLEAN /\ p \in BOOLEAN /\ (p => k.reported) OBVIOUS
  <1>2. Red(k, f) = [current |-> job.current, status |-> "red", failure |-> f,
                     overdue |-> o, reported |-> p]
    BY DEF Red
  <1> HIDE DEF o, p
  <1>3. job.current \in BOOLEAN BY DEF JobType
  <1> QED BY <1>1, <1>2, <1>3 DEF KnownType

-----------------------------------------------------------------------------
(* What a step has to show. *)

LEMMA Typed ==
  ASSUME IInv
  PROVE  /\ cache \in [RepoSet -> EntryType] /\ known \in [RepoSet -> KnownType]
         /\ job \in JobType /\ open \in [RepoSet -> 0 .. 1]
         /\ missed \in [RepoSet -> BOOLEAN] /\ proven \in [RepoSet -> BOOLEAN]
         /\ pushes \in 0 .. MaxPushes /\ disturbed \in 0 .. MaxDisturbed /\ faults \in 0 .. MaxFaults
         /\ \A r \in RepoSet : health[r] \in Healths(r)
         /\ health \in [RepoSet -> AllHealths]
         /\ job.pc # "idle" => Repo \in RepoSet
  <1>1. job.pc # "idle" => Repo \in RepoSet BY RepoCount DEF IInv, Placed, Repo, RepoSet
  <1>2. open \in [RepoSet -> 0 .. 1]
    <2>1. \A r \in RepoSet : open[r] \in Nat /\ open[r] <= 1 BY DEF IInv, TypeOK, OneMainRed
    <2> QED BY <2>1 DEF IInv, TypeOK
  <1> QED BY <1>1, <1>2 DEF IInv, TypeOK, Placed, EntryType, KnownType, JobType, Pcs

StaysTyped ==
    /\ \A r \in RepoSet : health'[r] \in Healths(r)
    /\ health' \in [RepoSet -> AllHealths]
    /\ cache' \in [RepoSet -> EntryType] /\ known' \in [RepoSet -> KnownType]
    /\ job' \in JobType /\ open' \in [RepoSet -> 0 .. 1]
    /\ missed' \in [RepoSet -> BOOLEAN] /\ proven' \in [RepoSet -> BOOLEAN]
    /\ pushes' \in 0 .. MaxPushes /\ disturbed' \in 0 .. MaxDisturbed /\ faults' \in 0 .. MaxFaults

(* Nothing is proved for a repository, told or opened without a proof.     *)
StaysProven ==
    /\ \A r \in RepoSet : proven[r] => proven'[r]
    /\ \A r \in RepoSet : known'[r].reported => known[r].reported \/ proven'[r]
    /\ \A r \in RepoSet : open'[r] > 0 => open[r] > 0 \/ proven'[r]

LEMMA StepKeeps ==
  ASSUME IInv, StaysTyped, StaysProven,
         job'.pc # "idle" => job'.at \in 1 .. Len(Repos),
         job'.pc = "judge" => job'.result # "none",
         job'.pc = "open" => open'[Repo'] = 0,
         job'.pc \in {"red", "open"} => proven'[Repo'],
         job'.pc = "verdict" /\ job'.result \in Failures /\ Confirmed(job'.first, job'.result)
             => proven'[Repo']
  PROVE  IInv'
  <1>1. \A r \in RepoSet : open'[r] \in 0 .. MaxPushes + MaxFaults + 1 /\ open'[r] <= 1
    <2>1. \A r \in RepoSet : open'[r] \in 0 .. 1 BY DEF StaysTyped
    <2>2. \A n \in 0 .. 1 : n \in 0 .. MaxPushes + MaxFaults + 1 /\ n <= 1 OBVIOUS
    <2> QED BY <2>1, <2>2
  <1>2. TypeOK'
    <2>1. open' \in [RepoSet -> 0 .. MaxPushes + MaxFaults + 1] BY <1>1 DEF StaysTyped
    <2> QED BY <2>1 DEF StaysTyped, TypeOK, EntryType, KnownType, JobType, Pcs
  <1>3. Placed' BY DEF StaysTyped, Placed
  <1>4. Grounded' BY DEF StaysProven, IInv, Grounded
  <1>5. OneMainRed' BY <1>1 DEF OneMainRed
  <1>6. OpenedOnlyConfirmed' BY DEF StaysProven, IInv, OpenedOnlyConfirmed
  <1> QED BY <1>2, <1>3, <1>4, <1>5, <1>6 DEF IInv

(* A step that leaves the desk and what is known alone, and brings the     *)
(* guardian to a place of which there is nothing to say.                   *)
LEMMA QuietKeeps ==
  ASSUME IInv, UNCHANGED <<health, known, open>>,
         cache' \in [RepoSet -> EntryType], disturbed' \in 0 .. MaxDisturbed, faults' \in 0 .. MaxFaults,
         pushes' \in 0 .. MaxPushes, missed' \in [RepoSet -> BOOLEAN],
         proven' \in [RepoSet -> BOOLEAN], \A r \in RepoSet : proven[r] => proven'[r],
         job' \in JobType, job'.pc \in {"idle", "walk", "confirm", "green", "close"},
         job'.pc # "idle" => job'.at \in 1 .. Len(Repos)
  PROVE  IInv'
  <1>1. StaysTyped BY Typed DEF StaysTyped
  <1>2. StaysProven BY DEF StaysProven
  <1> QED BY <1>1, <1>2, StepKeeps

-----------------------------------------------------------------------------
(* The gates. *)

LEMMA ShowsResults ==
  ASSUME IInv, job.pc # "idle"
  PROVE  Shows(health[Repo]) \subseteq {"green"} \union Failures
  <1>1. Repo \in RepoSet BY Typed
  <1>2. health[Repo] \in {"green", "flaky"} \union Failures BY <1>1, Typed
  <1> QED BY <1>2 DEF Shows

LEMMA ShownProves ==
  ASSUME IInv, job.pc # "idle", NEW x, Shown(x)
  PROVE  /\ proven' \in [RepoSet -> BOOLEAN] /\ \A r \in RepoSet : proven[r] => proven'[r]
         /\ job.pc = "confirm" /\ x \in Failures /\ Confirmed(job.first, x) => proven'[Repo]
  <1> DEFINE b == proven[Repo] \/ (x \in Failures \ {Unnamed} /\ Before = x)
  <1>1. Repo \in RepoSet /\ proven \in [RepoSet -> BOOLEAN] BY Typed
  <1>2. proven' = [proven EXCEPT ![Repo] = b] BY DEF Shown
  <1>3. b \in BOOLEAN OBVIOUS
  <1>4. proven[Repo] => b OBVIOUS
  <1>5. job.pc = "confirm" /\ x \in Failures /\ Confirmed(job.first, x) => b BY DEF Before, Confirmed
  <1> HIDE DEF b
  <1>6. proven' \in [RepoSet -> BOOLEAN] BY <1>1, <1>2, <1>3
  <1>7. proven'[Repo] = b /\ \A r \in RepoSet : r # Repo => proven'[r] = proven[r] BY <1>1, <1>2
  <1> QED BY <1>4, <1>5, <1>6, <1>7

(* What a run of the gates leaves behind. *)
Ran(p) ==
    /\ \E x \in Results \ {"none"} :
          /\ job' = [job EXCEPT !.pc = p, !.result = x]
          /\ job.pc = "confirm" /\ x \in Failures /\ Confirmed(job.first, x) => proven'[Repo]
    /\ cache' \in [RepoSet -> EntryType] /\ disturbed' \in 0 .. MaxDisturbed
    /\ proven' \in [RepoSet -> BOOLEAN] /\ \A r \in RepoSet : proven[r] => proven'[r]

LEMMA RunGatesRan ==
  ASSUME IInv, job.pc # "idle", NEW p, RunGates(p)
  PROVE  Ran(p)
  <1>1. Repo \in RepoSet BY Typed
  <1>2. CASE /\ job.current
             /\ \E result \in Shows(health[Repo]) :
                   /\ job' = [job EXCEPT !.pc = p, !.result = result]
                   /\ cache' = [cache EXCEPT ![Repo] = [entry |-> result, expired |-> FALSE]]
                   /\ Shown(result)
             /\ UNCHANGED disturbed
    <2>1. PICK x \in Shows(health[Repo]) :
                   /\ job' = [job EXCEPT !.pc = p, !.result = x]
                   /\ cache' = [cache EXCEPT ![Repo] = [entry |-> x, expired |-> FALSE]]
                   /\ Shown(x)
      BY <1>2
    <2>2. x \in {"green"} \union Failures BY <2>1, ShowsResults
    <2>3. x \in Results \ {"none"} BY <2>2 DEF Results
    <2>4. [entry |-> x, expired |-> FALSE] \in EntryType BY <2>2 DEF EntryType
    <2>5. cache' \in [RepoSet -> EntryType] BY <1>1, <2>1, <2>4, Typed
    <2> QED BY <1>2, <2>1, <2>3, <2>5, ShownProves, Typed DEF Ran
  <1>3. CASE /\ \E result \in {"green"} \union Failures :
                   /\ job' = [job EXCEPT !.pc = p, !.result = result]
                   /\ Shown(result)
             /\ UNCHANGED <<cache, disturbed>>
    <2>1. PICK x \in {"green"} \union Failures :
                   /\ job' = [job EXCEPT !.pc = p, !.result = x]
                   /\ Shown(x)
      BY <1>3
    <2>2. x \in Results \ {"none"} BY DEF Results
    <2> QED BY <1>3, <2>1, <2>2, ShownProves, Typed DEF Ran
  <1>4. CASE /\ disturbed < MaxDisturbed /\ disturbed' = disturbed + 1
             /\ \E result \in Disturbances : job' = [job EXCEPT !.pc = p, !.result = result]
             /\ UNCHANGED <<cache, proven>>
    <2>1. PICK x \in Disturbances : job' = [job EXCEPT !.pc = p, !.result = x] BY <1>4
    <2>2. x \in Results \ {"none"} /\ x \notin Failures BY DEF Results, Disturbances
    <2>3. disturbed' \in 0 .. MaxDisturbed BY <1>4, Typed
    <2> QED BY <1>4, <2>1, <2>2, <2>3, Typed DEF Ran
  <1> QED BY <1>2, <1>3, <1>4 DEF RunGates

LEMMA ProbeRan ==
  ASSUME IInv, job.pc = "walk", NEW p, Probe(p)
  PROVE  Ran(p)
  <1>1. CASE RunGates(p) BY <1>1, RunGatesRan
  <1>2. CASE /\ Cached(Repo) /\ job' = [job EXCEPT !.pc = p, !.result = cache[Repo].entry]
             /\ UNCHANGED <<cache, proven, disturbed>>
    <2>1. cache[Repo].entry \in Results \ {"none"} BY <1>2 DEF Cached, Results
    <2> QED BY <1>2, <2>1, Typed DEF Ran
  <1> QED BY <1>1, <1>2 DEF Probe

(* A probe brings the guardian to where its result is judged.              *)
LEMMA RanKeeps ==
  ASSUME IInv, NEW p \in {"judge", "verdict"}, Ran(p), job.pc # "idle", p = "verdict" => job.pc = "confirm",
         UNCHANGED <<health, known, open, missed, pushes, faults>>
  PROVE  IInv'
  <1>1. PICK x \in Results \ {"none"} :
             /\ job' = [job EXCEPT !.pc = p, !.result = x]
             /\ job.pc = "confirm" /\ x \in Failures /\ Confirmed(job.first, x) => proven'[Repo]
    BY DEF Ran
  <1>2. p \in Pcs /\ x \in Results BY DEF Pcs
  <1>3. job' \in JobType /\ job'.pc = p /\ job'.at = job.at /\ job'.result = x /\ job'.first = job.first
    <2>1. job' = [job EXCEPT !.pc = p, !.result = x] BY <1>1
    <2>2. job \in JobType BY Typed
    <2> QED BY ONLY <1>2, <2>1, <2>2, JobShown
  <1>4. StaysTyped BY <1>3, Typed DEF StaysTyped, Ran
  <1>5. StaysProven BY DEF StaysProven, Ran
  <1>6. Repo' = Repo /\ job.at \in 1 .. Len(Repos) BY <1>3 DEF Repo, IInv, Placed
  <1> QED BY <1>1, <1>3, <1>4, <1>5, <1>6, StepKeeps

-----------------------------------------------------------------------------
(* The walk and the verdict. *)

LEMMA TickKeeps == ASSUME IInv, Tick PROVE IInv'
  <1> DEFINE k == [NoJob EXCEPT !.pc = "walk", !.at = 1, !.current = TRUE]
  <1>1. k \in JobType /\ k.pc = "walk" /\ k.at = 1 BY RepoCount, JobWalks
  <1>2. job' = k BY DEF Tick
  <1> HIDE DEF k
  <1> QED BY <1>1, <1>2, RepoCount, Typed, QuietKeeps DEF Tick

LEMMA NextRepoType ==
  ASSUME IInv, job.pc # "idle"
  PROVE  /\ NextRepo(job) \in JobType /\ NextRepo(job).pc \in {"idle", "walk"}
         /\ NextRepo(job).pc # "idle" => NextRepo(job).at \in 1 .. Len(Repos)
  <1>1. job.at \in 1 .. Len(Repos) BY DEF IInv, Placed
  <1>2. CASE job.at < Len(Repos)
    <2> DEFINE a == job.at + 1
               k == [NoJob EXCEPT !.pc = "walk", !.at = a, !.current = TRUE]
    <2>1. a \in 1 .. Len(Repos) BY <1>1, <1>2, RepoCount
    <2>2. NextRepo(job) = k BY <1>2 DEF NextRepo
    <2> HIDE DEF a
    <2>3. k \in JobType /\ k.pc = "walk" /\ k.at = a BY <2>1, JobWalks
    <2> HIDE DEF k
    <2> QED BY <2>1, <2>2, <2>3
  <1>3. CASE ~(job.at < Len(Repos))
    <2>1. NextRepo(job) = NoJob BY <1>3 DEF NextRepo
    <2> QED BY <2>1, NoJobType
  <1> QED BY <1>2, <1>3

(* The job goes on with a confirmation of failure f. *)
LEMMA ConfirmsType ==
  ASSUME IInv, job.pc # "idle", NEW f \in Failures, job' = [job EXCEPT !.pc = "confirm", !.first = f]
  PROVE  job' \in JobType /\ job'.pc = "confirm" /\ job'.at \in 1 .. Len(Repos)
  <1> DEFINE k == [job EXCEPT !.pc = "confirm", !.first = f]
  <1>1. job \in JobType BY Typed
  <1>2. k \in JobType /\ k.pc = "confirm" /\ k.at = job.at BY <1>1, JobConfirms
  <1>3. job' = k OBVIOUS
  <1> HIDE DEF k
  <1> QED BY <1>2, <1>3 DEF IInv, Placed

(* The job goes to place p. *)
LEMMA GotoType ==
  ASSUME IInv, job.pc # "idle", NEW p \in Pcs, Goto(p)
  PROVE  /\ job' \in JobType /\ job'.pc = p /\ job'.at = job.at /\ job'.at \in 1 .. Len(Repos)
         /\ Repo' = Repo
  <1> DEFINE k == [job EXCEPT !.pc = p]
  <1>1. job \in JobType BY Typed
  <1>2. k \in JobType /\ k.pc = p /\ k.at = job.at BY <1>1, JobMoved
  <1>3. job' = k BY DEF Goto
  <1> HIDE DEF k
  <1> QED BY <1>2, <1>3 DEF IInv, Placed, Repo

LEMMA WalkKeeps == ASSUME IInv, Walk PROVE IInv'
  <1> DEFINE k == known[Repo]
  <1>1. /\ job.pc = "walk" /\ UNCHANGED <<health, known, open, missed, pushes, faults>>
    BY DEF Walk
  <1>2. CASE job' = NextRepo(job) /\ UNCHANGED <<cache, proven, disturbed>>
    BY <1>1, <1>2, NextRepoType, Typed, QuietKeeps
  <1>3. CASE /\ job' = [job EXCEPT !.pc = "confirm", !.first = k.failure]
             /\ UNCHANGED <<cache, proven, disturbed>>
    <2>1. Repo \in RepoSet BY <1>1, Typed
    <2>2. k.failure \in Failures BY <2>1, Typed DEF KnownType
    <2>3. job' \in JobType /\ job'.pc = "confirm" /\ job'.at \in 1 .. Len(Repos)
      BY <1>1, <1>3, <2>2, ConfirmsType
    <2> QED BY <1>1, <1>3, <2>3, Typed, QuietKeeps
  <1>4. CASE Probe("judge")
    <2>1. Ran("judge") BY <1>1, <1>4, ProbeRan
    <2> QED BY <1>1, <2>1, RanKeeps
  <1> QED BY <1>2, <1>3, <1>4 DEF Walk

LEMMA ConfirmKeeps == ASSUME IInv, Confirm PROVE IInv'
  <1>1. job.pc = "confirm" /\ RunGates("verdict") BY DEF Confirm
  <1>2. Ran("verdict") BY <1>1, RunGatesRan
  <1> QED BY <1>1, <1>2, RanKeeps DEF Confirm

(* A step that changes what is known of the repository at hand.            *)
LEMMA LearnKeeps ==
  ASSUME IInv, job.pc # "idle", NEW k \in KnownType, known' = [known EXCEPT ![Repo] = k],
         k.reported => known[Repo].reported,
         UNCHANGED <<health, cache, open, missed, proven, pushes, disturbed, faults>>,
         job' \in JobType, job'.pc \in {"idle", "walk", "confirm", "green", "close", "red"},
         job'.pc # "idle" => job'.at = job.at,
         job'.pc = "red" => proven[Repo]
  PROVE  IInv'
  <1>1. Repo \in RepoSet /\ job.at \in 1 .. Len(Repos) BY Typed DEF IInv, Placed
  <1>2. known' \in [RepoSet -> KnownType] BY <1>1, Typed
  <1>3. StaysTyped BY <1>2, Typed DEF StaysTyped
  <1>4. \A r \in RepoSet : known'[r] = IF r = Repo THEN k ELSE known[r] BY <1>1, Typed
  <1>5. StaysProven BY <1>1, <1>4 DEF StaysProven
  <1>6. job'.pc # "idle" => Repo' = Repo BY DEF Repo
  <1> QED BY <1>1, <1>3, <1>5, <1>6, StepKeeps

LEMMA JudgeKeeps == ASSUME IInv, Judge PROVE IInv'
  <1> DEFINE k == known[Repo]
             next == Red(k, job.result)
  <1>1. job.pc = "judge" /\ UNCHANGED <<health, cache, open, missed, proven, pushes, disturbed, faults>>
    BY DEF Judge
  <1>2. Repo \in RepoSet /\ k \in KnownType /\ job \in JobType BY <1>1, Typed
  <1>3. CASE job' = NoJob /\ UNCHANGED known BY <1>1, <1>3, NoJobType, Typed, QuietKeeps
  <1>4. ASSUME NEW s \in {"environment", "error"}, Learn(Seen(s)), job' = NoJob PROVE IInv'
    BY <1>1, <1>2, <1>4, NoJobType, SeenType, LearnKeeps DEF Learn
  <1>5. CASE Learn(Seen("green")) /\ Goto("green")
    <2>1. Seen("green") \in KnownType /\ ~Seen("green").reported BY <1>2, SeenType
    <2>2. job' \in JobType /\ job'.pc = "green" /\ job'.at = job.at
      BY <1>1, <1>5, GotoType DEF Pcs
    <2> QED BY <1>1, <1>5, <2>1, <2>2, LearnKeeps DEF Learn
  <1>6. CASE /\ job.result \notin {"aborted", "deferred", "environment", "error", "green"}
             /\ Learn(next)
             /\ \/ next.reported /\ job' = [job EXCEPT !.pc = "red"]
                \/ job' = [job EXCEPT !.pc = "confirm", !.first = job.result]
                \/ job' = NoJob
    <2>1. job.result \in Failures
      <3>1. job.result \in Results /\ job.result # "none" BY <1>1, <1>2 DEF IInv, Placed, JobType
      <3> QED BY <1>6, <3>1 DEF Results, Disturbances
    <2>2. next \in KnownType /\ (next.reported => k.reported) BY <1>2, <2>1, RedType
    <2> HIDE DEF next
    <2>3. CASE next.reported /\ job' = [job EXCEPT !.pc = "red"]
      <3>1. job' \in JobType /\ job'.pc = "red" /\ job'.at = job.at
        BY <1>1, <2>3, GotoType DEF Goto, Pcs
      <3>2. proven[Repo] BY <1>2, <2>2, <2>3 DEF IInv, Grounded
      <3> QED BY <1>1, <1>6, <2>2, <3>1, <3>2, LearnKeeps DEF Learn
    <2>4. CASE job' = [job EXCEPT !.pc = "confirm", !.first = job.result]
      <3>1. job' \in JobType /\ job'.pc = "confirm" BY <1>1, <2>1, <2>4, ConfirmsType
      <3>2. job'.at = job.at BY <1>2, <2>1, <2>4 DEF JobType
      <3> QED BY <1>1, <1>6, <2>2, <3>1, <3>2, LearnKeeps DEF Learn
    <2>5. CASE job' = NoJob BY <1>1, <1>6, <2>2, <2>5, NoJobType, LearnKeeps DEF Learn
    <2> QED BY <1>6, <2>3, <2>4, <2>5
  <1> QED BY <1>3, <1>4, <1>5, <1>6 DEF Judge

LEMMA VerdictKeeps == ASSUME IInv, Verdict PROVE IInv'
  <1>1. job.pc = "verdict" /\ UNCHANGED <<health, cache, open, missed, proven, pushes, disturbed, faults>>
    BY DEF Verdict
  <1>2. Repo \in RepoSet /\ job \in JobType BY <1>1, Typed
  <1>3. CASE job' = NoJob /\ UNCHANGED known BY <1>1, <1>3, NoJobType, Typed, QuietKeeps
  <1>4. CASE Learn(Seen("environment")) /\ job' = NoJob
    <2>1. Seen("environment") \in KnownType /\ ~Seen("environment").reported BY <1>2, SeenType
    <2> QED BY <1>1, <1>4, <2>1, NoJobType, LearnKeeps DEF Learn
  <1>5. CASE Learn(Seen("green")) /\ Goto("green")
    <2>1. Seen("green") \in KnownType /\ ~Seen("green").reported BY <1>2, SeenType
    <2>2. job' \in JobType /\ job'.pc = "green" /\ job'.at = job.at
      BY <1>1, <1>5, GotoType DEF Pcs
    <2> QED BY <1>1, <1>5, <2>1, <2>2, LearnKeeps DEF Learn
  <1>6. CASE job.result \in Failures /\ Confirmed(job.first, job.result) /\ Goto("red") /\ UNCHANGED known
    <2>1. /\ job' \in JobType /\ job'.pc = "red" /\ job'.at \in 1 .. Len(Repos) /\ Repo' = Repo
      BY <1>1, <1>6, GotoType DEF Pcs
    <2>2. proven'[Repo'] BY <1>1, <1>6, <2>1 DEF IInv, Grounded
    <2>3. StaysTyped BY <1>1, <1>6, <2>1, Typed DEF StaysTyped
    <2>4. StaysProven BY <1>1, <1>6 DEF StaysProven
    <2> QED BY <2>1, <2>2, <2>3, <2>4, StepKeeps
  <1> QED BY <1>3, <1>4, <1>5, <1>6 DEF Verdict

-----------------------------------------------------------------------------
(* The desk. *)

LEMMA UnheardType ==
  ASSUME IInv, job.pc # "idle", Unheard
  PROVE  missed' \in [RepoSet -> BOOLEAN] /\ faults' \in 0 .. MaxFaults
  BY Typed DEF Unheard

(* What is told is told of a failure that was proved. *)
LEMMA ToldType ==
  ASSUME IInv, job.pc \in {"red", "open"}, Told
  PROVE  /\ known' \in [RepoSet -> KnownType]
         /\ \A r \in RepoSet : known'[r].reported => known[r].reported \/ proven[r]
  <1> DEFINE k == [known[Repo] EXCEPT !.reported = TRUE]
  <1>1. Repo \in RepoSet /\ known \in [RepoSet -> KnownType] BY Typed
  <1>2. k \in KnownType BY <1>1, KnownReported
  <1>3. known' = [known EXCEPT ![Repo] = k] BY DEF Told
  <1>4. proven[Repo] BY DEF IInv, Grounded
  <1> HIDE DEF k
  <1>5. known' \in [RepoSet -> KnownType] BY <1>1, <1>2, <1>3
  <1>6. \A r \in RepoSet : r # Repo => known'[r] = known[r] BY <1>1, <1>3
  <1> QED BY <1>4, <1>5, <1>6

(* The failure was told, or there was no way to tell it. *)
LEMMA ToldKeeps ==
  ASSUME IInv, job.pc \in {"red", "open"}, Told, job' = NoJob,
         UNCHANGED <<health, cache, proven, pushes, disturbed>>,
         missed' \in [RepoSet -> BOOLEAN], faults' \in 0 .. MaxFaults,
         open' \in [RepoSet -> 0 .. 1], \A r \in RepoSet : open'[r] > 0 => open[r] > 0 \/ proven[r]
  PROVE  IInv'
  <1>1. StaysTyped BY NoJobType, ToldType, Typed DEF StaysTyped
  <1>2. StaysProven BY ToldType DEF StaysProven
  <1> QED BY <1>1, <1>2, NoJobType, StepKeeps

LEMMA FindRedKeeps == ASSUME IInv, FindRed PROVE IInv'
  <1>1. job.pc = "red" /\ UNCHANGED <<health, cache, open, proven, pushes, disturbed>> BY DEF FindRed
  <1>2. CASE Told /\ job' = NoJob /\ (UNCHANGED <<missed, faults>> \/ Unheard)
    BY <1>1, <1>2, UnheardType, ToldKeeps, Typed
  <1>3. CASE ~(open[Repo] > 0) /\ Goto("open") /\ UNCHANGED known /\ UNCHANGED <<missed, faults>>
    <2>1. Repo \in RepoSet /\ open[Repo] \in 0 .. 1 /\ proven[Repo]
      BY <1>1, Typed DEF IInv, Grounded
    <2>2. open[Repo] = 0 BY <1>3, <2>1
    <2>3. /\ job' \in JobType /\ job'.pc = "open" /\ job'.at \in 1 .. Len(Repos) /\ Repo' = Repo
      BY <1>1, <1>3, GotoType DEF Pcs
    <2>4. StaysTyped BY <1>1, <1>3, <2>3, Typed DEF StaysTyped
    <2>5. StaysProven BY <1>1, <1>3 DEF StaysProven
    <2> QED BY <1>1, <2>1, <2>2, <2>3, <2>4, <2>5, StepKeeps
  <1> QED BY <1>2, <1>3 DEF FindRed

LEMMA OpenRedKeeps == ASSUME IInv, OpenRed PROVE IInv'
  <1>1. /\ job.pc = "open" /\ Told /\ job' = NoJob /\ UNCHANGED <<health, cache, proven, pushes, disturbed>>
        /\ UNCHANGED <<missed, faults>> \/ Unheard
        /\ open' = open \/ open' = [open EXCEPT ![Repo] = open[Repo] + 1]
    BY DEF OpenRed
  <1>2. Repo \in RepoSet /\ open[Repo] = 0 /\ proven[Repo]
    BY <1>1, Typed DEF IInv, Placed, Grounded
  <1>3. open' \in [RepoSet -> 0 .. 1] /\ \A r \in RepoSet : open'[r] > 0 => open[r] > 0 \/ proven[r]
    <2>1. CASE open' = open BY <2>1, Typed
    <2>2. CASE open' = [open EXCEPT ![Repo] = open[Repo] + 1]
      <3>1. open' = [open EXCEPT ![Repo] = 1] BY <1>2, <2>2
      <3> QED BY <1>2, <3>1, Typed
    <2> QED BY <1>1, <2>1, <2>2
  <1>4. missed' \in [RepoSet -> BOOLEAN] /\ faults' \in 0 .. MaxFaults BY <1>1, UnheardType, Typed
  <1> QED BY <1>1, <1>3, <1>4, ToldKeeps

LEMMA FindGreenKeeps == ASSUME IInv, FindGreen PROVE IInv'
  <1>1. job.pc = "green" /\ UNCHANGED <<health, cache, known, open, proven, pushes, disturbed>>
    BY DEF FindGreen
  <1>2. missed' \in [RepoSet -> BOOLEAN] /\ faults' \in 0 .. MaxFaults
    BY <1>1, UnheardType, Typed DEF FindGreen
  <1>3. CASE job' = NoJob BY <1>1, <1>2, <1>3, NoJobType, Typed, QuietKeeps
  <1>4. CASE Goto("close")
    <2>1. job' \in JobType /\ job'.pc = "close" /\ job'.at \in 1 .. Len(Repos)
      BY <1>1, <1>4, GotoType DEF Pcs
    <2> QED BY <1>1, <1>2, <2>1, Typed, QuietKeeps
  <1> QED BY <1>3, <1>4 DEF FindGreen

LEMMA CloseGreenKeeps == ASSUME IInv, CloseGreen PROVE IInv'
  <1>1. job.pc = "close" /\ job' = NoJob /\ UNCHANGED <<health, cache, known, proven, pushes, disturbed>>
    BY DEF CloseGreen
  <1>2. missed' \in [RepoSet -> BOOLEAN] /\ faults' \in 0 .. MaxFaults
    BY <1>1, UnheardType, Typed DEF CloseGreen
  <1>3. Repo \in RepoSet /\ open[Repo] \in 0 .. 1 BY <1>1, Typed
  <1>4. open' \in [RepoSet -> 0 .. 1] /\ \A r \in RepoSet : open'[r] > 0 => open[r] > 0
    <2>1. CASE open' = open BY <2>1, Typed
    <2>2. CASE open' = [open EXCEPT ![Repo] = IF open[Repo] > 0 THEN open[Repo] - 1 ELSE 0]
      <3> DEFINE n == IF open[Repo] > 0 THEN open[Repo] - 1 ELSE 0
      <3>1. n = 0 BY <1>3
      <3>2. open' = [open EXCEPT ![Repo] = n] BY <2>2
      <3> HIDE DEF n
      <3>3. open' = [open EXCEPT ![Repo] = 0] BY <3>1, <3>2
      <3> QED BY <1>3, <3>3, Typed
    <2> QED BY <2>1, <2>2 DEF CloseGreen
  <1>5. StaysTyped BY <1>1, <1>2, <1>4, NoJobType, Typed DEF StaysTyped
  <1>6. StaysProven BY <1>1, <1>4 DEF StaysProven
  <1> QED BY <1>1, <1>5, <1>6, NoJobType, StepKeeps

-----------------------------------------------------------------------------
(* The world. *)

LEMMA PushKeeps == ASSUME IInv, NEW r \in RepoSet, Push(r) PROVE IInv'
  <1>1. /\ pushes < MaxPushes /\ pushes' = pushes + 1
        /\ cache' = [cache EXCEPT ![r] = [entry |-> "none", expired |-> FALSE]]
        /\ known' = [known EXCEPT ![r] = [known[r] EXCEPT !.current = FALSE]]
        /\ job' = [job EXCEPT !.current = FALSE] \/ job' = job
        /\ missed' = [missed EXCEPT ![r] = FALSE]
        /\ UNCHANGED <<open, proven, disturbed, faults>>
    BY DEF Push
  <1>2. PICK h \in Healths(r) : health' = [health EXCEPT ![r] = h] BY DEF Push
  <1>3. (\A q \in RepoSet : health'[q] \in Healths(q)) /\ health' \in [RepoSet -> AllHealths]
    <2>1. h \in AllHealths BY DEF AllHealths
    <2> QED BY <1>2, <2>1, Typed
  <1>4. cache' \in [RepoSet -> EntryType]
    <2>1. [entry |-> "none", expired |-> FALSE] \in EntryType BY DEF EntryType
    <2> QED BY <1>1, <2>1, Typed
  <1>5. known' \in [RepoSet -> KnownType] /\ \A q \in RepoSet : known'[q].reported = known[q].reported
    <2> DEFINE k == [known[r] EXCEPT !.current = FALSE]
    <2>1. known[r] \in KnownType BY Typed
    <2>2. k \in KnownType BY <2>1, KnownCurrent
    <2>3. k.reported = known[r].reported BY <2>1, KnownKeepsReported
    <2>4. known' = [known EXCEPT ![r] = k] BY <1>1
    <2> HIDE DEF k
    <2> QED BY <2>2, <2>3, <2>4, Typed
  <1>6. /\ job' \in JobType /\ job'.pc = job.pc /\ job'.at = job.at /\ job'.result = job.result
        /\ job'.first = job.first
    <2>1. job \in JobType BY Typed
    <2>2. CASE job' = job BY <2>1, <2>2
    <2>3. CASE job' = [job EXCEPT !.current = FALSE]
      <3>1. job' \in JobType BY <2>1, <2>3, JobCurrent
      <3> QED BY <2>1, <2>3, <3>1 DEF JobType
    <2> QED BY <1>1, <2>2, <2>3
  <1>7. StaysTyped BY <1>1, <1>3, <1>4, <1>5, <1>6, Typed DEF StaysTyped
  <1>8. StaysProven BY <1>1, <1>5 DEF StaysProven
  <1>9. Repo' = Repo BY <1>6 DEF Repo
  <1> QED BY <1>1, <1>6, <1>7, <1>8, <1>9, StepKeeps DEF IInv, Placed, Grounded

LEMMA TimeIsUpKeeps == ASSUME IInv, NEW r \in RepoSet, TimeIsUp(r) PROVE IInv'
  <1>1. UNCHANGED <<health, job, open, missed, proven, pushes, disturbed, faults>> BY DEF TimeIsUp
  <1>2. known' \in [RepoSet -> KnownType] /\ \A q \in RepoSet : known'[q].reported = known[q].reported
    <2> DEFINE k == [known[r] EXCEPT !.overdue = TRUE]
    <2>1. known[r] \in KnownType BY Typed
    <2>2. k \in KnownType BY <2>1, KnownOverdue
    <2>3. k.reported = known[r].reported BY <2>1, KnownKeepsReported
    <2>4. known' = known \/ known' = [known EXCEPT ![r] = k] BY DEF TimeIsUp
    <2> HIDE DEF k
    <2> QED BY <2>2, <2>3, <2>4, Typed
  <1>3. cache' \in [RepoSet -> EntryType]
    <2> DEFINE e == [cache[r] EXCEPT !.expired = TRUE]
    <2>1. e \in EntryType BY Typed DEF EntryType
    <2>2. cache' = cache \/ cache' = [cache EXCEPT ![r] = e] BY DEF TimeIsUp
    <2> HIDE DEF e
    <2> QED BY <2>1, <2>2, Typed
  <1>4. StaysTyped BY <1>1, <1>2, <1>3, Typed DEF StaysTyped
  <1>5. StaysProven BY <1>1, <1>2 DEF StaysProven
  <1>6. Repo' = Repo BY <1>1 DEF Repo
  <1> QED BY <1>1, <1>4, <1>5, <1>6, StepKeeps DEF IInv, Placed, Grounded

LEMMA PersonClosesKeeps == ASSUME IInv, NEW r \in RepoSet, PersonCloses(r) PROVE IInv'
  <1>1. /\ open[r] > 0 /\ open' = [open EXCEPT ![r] = open[r] - 1]
        /\ missed' = [missed EXCEPT ![r] = TRUE] /\ faults < MaxFaults /\ faults' = faults + 1
        /\ UNCHANGED <<health, cache, known, job, proven, pushes, disturbed>>
    BY DEF PersonCloses
  <1>2. open' = [open EXCEPT ![r] = 0]
    <2> DEFINE n == open[r] - 1
    <2>1. open[r] \in 0 .. 1 BY Typed
    <2>2. n = 0 BY <1>1, <2>1
    <2>3. open' = [open EXCEPT ![r] = n] BY <1>1
    <2> HIDE DEF n
    <2> QED BY <2>2, <2>3
  <1>3. open' \in [RepoSet -> 0 .. 1] /\ \A q \in RepoSet : open'[q] > 0 => open[q] > 0
    BY <1>2, Typed
  <1>4. job.pc = "open" => open'[Repo] = 0
    <2>1. ASSUME job.pc = "open" PROVE Repo \in RepoSet /\ open[Repo] = 0
      BY <2>1, Typed DEF IInv, Placed
    <2> QED BY <1>2, <2>1, Typed
  <1>5. StaysTyped BY <1>1, <1>3, Typed DEF StaysTyped
  <1>6. StaysProven BY <1>1, <1>3 DEF StaysProven
  <1>7. Repo' = Repo BY <1>1 DEF Repo
  <1> QED BY <1>1, <1>4, <1>5, <1>6, <1>7, StepKeeps DEF IInv, Placed, Grounded

LEMMA RestartKeeps == ASSUME IInv, Restart PROVE IInv'
  <1>1. /\ faults < MaxFaults /\ faults' = faults + 1
        /\ known' = [r \in RepoSet |-> Nothing] /\ job' = NoJob
        /\ missed' = [r \in RepoSet |-> FALSE]
        /\ UNCHANGED <<health, cache, open, proven, pushes, disturbed>>
    BY DEF Restart
  <1>2. StaysTyped BY <1>1, NoJobType, NothingType, Typed DEF StaysTyped
  <1>3. StaysProven BY <1>1, NothingType DEF StaysProven
  <1> QED BY <1>1, <1>2, <1>3, NoJobType, StepKeeps

LEMMA StutterKeeps == ASSUME IInv, UNCHANGED vars PROVE IInv'
  <1>1. StaysTyped BY Typed DEF StaysTyped, vars
  <1>2. StaysProven BY DEF StaysProven, vars
  <1>3. Repo' = Repo BY DEF Repo, vars
  <1> QED BY <1>1, <1>2, <1>3, StepKeeps DEF vars, IInv, Placed, Grounded

-----------------------------------------------------------------------------
(* The theorems. *)

LEMMA InitHolds == Init => IInv
  <1> SUFFICES ASSUME Init PROVE IInv OBVIOUS
  <1>1. /\ \A r \in RepoSet : known[r] = Nothing /\ open[r] = 0 /\ cache[r] = [entry |-> "none", expired |-> FALSE]
        /\ job = NoJob
    BY DEF Init
  <1>2. [entry |-> "none", expired |-> FALSE] \in EntryType BY DEF EntryType
  <1>3. (\A r \in RepoSet : health[r] \in Healths(r)) /\ health \in [RepoSet -> AllHealths]
    BY DEF Init, AllHealths
  <1>4. cache \in [RepoSet -> EntryType] /\ known \in [RepoSet -> KnownType] /\ job \in JobType
    BY <1>2, NothingType, NoJobType DEF Init
  <1>5. open \in [RepoSet -> 0 .. MaxPushes + MaxFaults + 1]
    <2>1. 0 \in 0 .. MaxPushes + MaxFaults + 1 OBVIOUS
    <2> QED BY <2>1 DEF Init
  <1>6. /\ {missed, proven} \subseteq [RepoSet -> BOOLEAN]
        /\ pushes \in 0 .. MaxPushes /\ disturbed \in 0 .. MaxDisturbed /\ faults \in 0 .. MaxFaults
    BY DEF Init
  <1>7. TypeOK BY <1>3, <1>4, <1>5, <1>6 DEF TypeOK, EntryType, KnownType, JobType, Pcs
  <1>8. Placed /\ Grounded BY <1>1, <1>3, NoJobType, NothingType DEF Placed, Grounded
  <1>9. OneMainRed /\ OpenedOnlyConfirmed BY <1>1 DEF OneMainRed, OpenedOnlyConfirmed
  <1> QED BY <1>7, <1>8, <1>9 DEF IInv

LEMMA NextKeeps == IInv /\ [Next]_vars => IInv'
  <1> SUFFICES ASSUME IInv, [Next]_vars PROVE IInv' OBVIOUS
  <1>1. CASE Guard
    BY <1>1, TickKeeps, WalkKeeps, JudgeKeeps, ConfirmKeeps, VerdictKeeps, FindRedKeeps, OpenRedKeeps,
       FindGreenKeeps, CloseGreenKeeps
       DEF Guard
  <1>2. CASE Restart BY <1>2, RestartKeeps
  <1>3. ASSUME NEW r \in RepoSet, TimeIsUp(r) \/ Push(r) \/ PersonCloses(r) PROVE IInv'
    BY <1>3, TimeIsUpKeeps, PushKeeps, PersonClosesKeeps
  <1>4. CASE UNCHANGED vars BY <1>4, StutterKeeps
  <1> QED BY <1>1, <1>2, <1>3, <1>4 DEF Next

(* The inductive invariant holds of every guardian. *)
THEOREM Invariance == Spec => []IInv
  BY InitHolds, NextKeeps, PTL DEF Spec

(* Every variable keeps its type; with it the walk stays inside the list   *)
(* of the repositories and the open tasks within what was ever pushed.     *)
THEOREM TypeCorrect == Spec => []TypeOK
  <1>1. IInv => TypeOK BY DEF IInv
  <1> QED BY <1>1, Invariance, PTL

(* reportMainRed: a repository never has two open MAIN RED tasks, although *)
(* the answer of the desk is lost, people close them and the worker dies   *)
(* at any step.                                                            *)
THEOREM OneMainRedAtATime == Spec => []OneMainRed
  <1>1. IInv => OneMainRed BY DEF IInv
  <1> QED BY <1>1, Invariance, PTL

(* confirmMainRed and reportConfirmedMainRed: no MAIN RED task is opened   *)
(* for a failure that two runs did not both show, by name.                 *)
THEOREM OnlyConfirmedIsOpened == Spec => []OpenedOnlyConfirmed
  <1>1. IInv => OpenedOnlyConfirmed BY DEF IInv
  <1> QED BY <1>1, Invariance, PTL
=============================================================================
