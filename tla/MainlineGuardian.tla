---------------------------- MODULE MainlineGuardian ----------------------------
(***************************************************************************)
(* The guardian of the mainlines (release-worker.js, guardMainlines): in   *)
(* its idle time the release worker runs the gates of every repository on  *)
(* its main branch, opens a task 'MAIN RED' for a failure that lasts and   *)
(* closes it when main is green again.                                     *)
(*                                                                         *)
(* Abstracted: of a repository only the SHA that main is at is followed    *)
(* (what is known of an older one is marked as not current); a failing     *)
(* gate is known by its check and the names of its failing tests; times    *)
(* are whether they are over; titles and comments are left out.  The notes *)
(* of a MAIN RED task are taken to have room for the SHAs they name.       *)
(***************************************************************************)
EXTENDS Integers, Sequences

CONSTANTS Repos,        \* the repositories, in the order they are walked through
          Failures,     \* what a red gate shows: sets of failing tests
          Unnamed,      \* the one of them without any name
          CheckOf(_),   \* the check that shows it
          Healths(_),   \* what main of a repository can be like: green, flaky or a failure
          MaxPushes,    \* bound: new SHAs on main
          MaxDisturbed, \* bound: runs that say nothing of the code
          MaxFaults     \* bound: crashes, failed calls to the desk, tasks closed by people

RepoSet == {Repos[i] : i \in DOMAIN Repos}
Disturbances == {"aborted", "deferred", "environment", "error"}

ASSUME GuardianAssumption ==
    /\ Repos \in Seq(RepoSet) \ {<<>>}
    /\ Unnamed \in Failures
    /\ Failures \intersect ({"none", "green", "flaky"} \union Disturbances) = {}
    /\ \A r \in RepoSet : Healths(r) \subseteq {"green", "flaky"} \union Failures
    /\ {MaxPushes, MaxDisturbed, MaxFaults} \subseteq Nat

VARIABLES health,   \* repository -> what its main is like
          cache,    \* repository -> what the cache holds for main
          known,    \* repository -> this.guardianState
          job,      \* what the guardian is doing
          open,     \* repository -> open MAIN RED tasks
          missed,   \* repository -> the desk was not told, or people closed the task
          proven,   \* repository -> two runs showed one failure on one SHA
          pushes, disturbed, faults
vars == <<health, cache, known, job, open, missed, proven, pushes, disturbed, faults>>

Nothing == [current |-> FALSE, status |-> "none", failure |-> Unnamed, overdue |-> FALSE,
            reported |-> FALSE]
NoJob == [pc |-> "idle", at |-> 0, current |-> FALSE, result |-> "none", first |-> Unnamed]

Results == {"none", "green"} \union Disturbances \union Failures

TypeOK ==
    /\ \A r \in RepoSet : health[r] \in Healths(r)
    /\ cache \in [RepoSet -> [entry : {"none", "green"} \union Failures, expired : BOOLEAN]]
    /\ known \in [RepoSet -> [current : BOOLEAN,
                              status : {"none", "green", "red", "environment", "error"},
                              failure : Failures, overdue : BOOLEAN, reported : BOOLEAN]]
    /\ job \in [pc : {"idle", "walk", "judge", "confirm", "verdict", "red", "open", "green", "close"},
                at : 0 .. Len(Repos), current : BOOLEAN, result : Results, first : Failures]
    /\ open \in [RepoSet -> 0 .. MaxPushes + MaxFaults + 1]
    /\ {missed, proven} \subseteq [RepoSet -> BOOLEAN]
    /\ pushes \in 0 .. MaxPushes /\ disturbed \in 0 .. MaxDisturbed /\ faults \in 0 .. MaxFaults

Init ==
    /\ health \in {h \in [RepoSet -> UNION {Healths(r) : r \in RepoSet}] :
                     \A r \in RepoSet : h[r] \in Healths(r)}
    /\ cache = [r \in RepoSet |-> [entry |-> "none", expired |-> FALSE]]
    /\ known = [r \in RepoSet |-> Nothing]
    /\ job = NoJob
    /\ open = [r \in RepoSet |-> 0]
    /\ missed = [r \in RepoSet |-> FALSE]
    /\ proven = [r \in RepoSet |-> FALSE]
    /\ pushes = 0 /\ disturbed = 0 /\ faults = 0

Repo == Repos[job.at]
Goto(pc) == job' = [job EXCEPT !.pc = pc]

-----------------------------------------------------------------------------
(* probeMainlineGate. *)

(* What running the gates shows: the failure of a red main, anything on a  *)
(* flaky one.                                                              *)
Shows(h) == CASE h = "flaky" -> {"green"} \union Failures
              [] OTHER       -> {h}

(* A run of the gates on the SHA of the job; a result that says something  *)
(* of the code is cached.                                                  *)
Before == IF job.pc = "confirm" THEN job.first ELSE IF job.current THEN cache[Repo].entry ELSE "none"
Shown(result) ==
    proven' = [proven EXCEPT ![Repo] = @ \/ (result \in Failures \ {Unnamed} /\ Before = result)]
RunGates(pc) ==
    \/ /\ job.current
       /\ \E result \in Shows(health[Repo]) :
             /\ job' = [job EXCEPT !.pc = pc, !.result = result]
             /\ cache' = [cache EXCEPT ![Repo] = [entry |-> result, expired |-> FALSE]]
             /\ Shown(result)
       /\ UNCHANGED disturbed
    \/ /\ ~job.current
       /\ \E result \in {"green"} \union Failures :
             /\ job' = [job EXCEPT !.pc = pc, !.result = result]
             /\ Shown(result)
       /\ UNCHANGED <<cache, disturbed>>
    \/ /\ disturbed < MaxDisturbed /\ disturbed' = disturbed + 1
       /\ \E result \in Disturbances : job' = [job EXCEPT !.pc = pc, !.result = result]
       /\ UNCHANGED <<cache, proven>>

(* A green result is good for ever, a red one for mainlineRedTtlMs. *)
Cached(r) == cache[r].entry = "green" \/ (cache[r].entry \in Failures /\ ~cache[r].expired)
Probe(pc) ==
    IF job.current /\ Cached(Repo)
    THEN job' = [job EXCEPT !.pc = pc, !.result = cache[Repo].entry] /\ UNCHANGED <<cache, proven, disturbed>>
    ELSE RunGates(pc)

-----------------------------------------------------------------------------
(* guardMainlines: one walk over the repositories. *)

Tick ==
    /\ job.pc = "idle"
    /\ job' = [NoJob EXCEPT !.pc = "walk", !.at = 1, !.current = TRUE]
    /\ UNCHANGED <<health, cache, known, open, missed, proven, pushes, disturbed, faults>>

(* What is known of this SHA leaves nothing to do, before the time is up. *)
Confirms(k) == k.current /\ k.status = "red" /\ ~k.reported /\ k.overdue
(* Mutant of Skips: what is red waits for the next SHA. *)
SkipsLasting(k) == k.current /\ (k.status \in {"environment", "error"} => ~k.overdue)
Skips(k) ==
    /\ k.current /\ ~Confirms(k)
    /\ k.status \in {"environment", "error"} => ~k.overdue

(* Mutant of NextRepo: the walk goes one repository too far. *)
NextRepoPastEnd(j) ==
    IF j.at <= Len(Repos) THEN [NoJob EXCEPT !.pc = "walk", !.at = j.at + 1, !.current = TRUE]
                          ELSE NoJob
NextRepo(j) == IF j.at < Len(Repos) THEN [NoJob EXCEPT !.pc = "walk", !.at = j.at + 1, !.current = TRUE]
                                    ELSE NoJob
Walk ==
    /\ job.pc = "walk"
    /\ LET k == known[Repo]
       IN  \/ /\ Skips(k)
              /\ job' = NextRepo(job)
              /\ UNCHANGED <<cache, proven, disturbed>>
           \/ /\ Confirms(k)
              /\ job' = [job EXCEPT !.pc = "confirm", !.first = k.failure]
              /\ UNCHANGED <<cache, proven, disturbed>>
           \/ ~Skips(k) /\ ~Confirms(k) /\ Probe("judge")
    /\ UNCHANGED <<health, known, open, missed, pushes, faults>>

(* The result of the walk's probe.  A red one is told at once when the     *)
(* same check was red and told before, and confirmed when it was red       *)
(* before: then it is the second in a row, and older than the others.      *)
Learn(k) == known' = [known EXCEPT ![Repo] = k]
Seen(status) == [Nothing EXCEPT !.current = job.current, !.status = status]
SameFailure(k, failure) == k.status = "red" /\ CheckOf(k.failure) = CheckOf(failure)
Red(k, failure) ==
    LET same == SameFailure(k, failure)
    IN  [current |-> job.current, status |-> "red", failure |-> failure,
         overdue |-> same /\ k.overdue, reported |-> same /\ k.reported]
Judge ==
    /\ job.pc = "judge"
    /\ LET k == known[Repo]
       IN  CASE job.result \in {"aborted", "deferred"} ->
                    job' = NoJob /\ UNCHANGED known
             [] job.result \in {"environment", "error"} ->
                    Learn(Seen(job.result)) /\ job' = NoJob
             [] job.result = "green" ->
                    Learn(Seen("green")) /\ Goto("green")
             [] OTHER ->
                    LET next == Red(k, job.result)
                    IN  /\ Learn(next)
                        /\ job' = CASE next.reported -> [job EXCEPT !.pc = "red"]
                                    [] ~next.reported /\ SameFailure(k, job.result) ->
                                         [job EXCEPT !.pc = "confirm", !.first = job.result]
                                    [] OTHER -> NoJob
    /\ UNCHANGED <<health, cache, open, missed, proven, pushes, disturbed, faults>>

(* confirmMainRed: the gates run once more, whatever the cache holds. *)
Confirm ==
    /\ job.pc = "confirm"
    /\ RunGates("verdict")
    /\ UNCHANGED <<health, known, open, missed, pushes, faults>>

(* Two runs show the same failure: at least half of the names of one are   *)
(* in the other.  Without names nothing is confirmed.                      *)
(* Mutant of Confirmed: any second failure will do. *)
ConfirmedByAny(before, after) == after # Unnamed
Confirmed(before, after) == before = after /\ before # Unnamed

(* reportConfirmedMainRed. *)
Verdict ==
    /\ job.pc = "verdict"
    /\ CASE job.result \in {"aborted", "deferred", "error"} ->
                job' = NoJob /\ UNCHANGED known
         [] job.result = "green" ->
                Learn(Seen("green")) /\ Goto("green")
         [] job.result \in Failures /\ Confirmed(job.first, job.result) ->
                Goto("red") /\ UNCHANGED known
         [] OTHER ->
                Learn(Seen("environment")) /\ job' = NoJob
    /\ UNCHANGED <<health, cache, open, missed, proven, pushes, disturbed, faults>>

-----------------------------------------------------------------------------
(* The desk. *)

(* The failure counts as told once it was tried to tell it. *)
Told == known' = [known EXCEPT ![Repo].reported = TRUE]
Unheard ==
    /\ faults < MaxFaults /\ faults' = faults + 1
    /\ missed' = [missed EXCEPT ![Repo] = TRUE]

(* Mutant of FindRed: a task is opened for every SHA. *)
FindNothing ==
    /\ job.pc = "red"
    /\ Goto("open")
    /\ UNCHANGED <<health, cache, known, open, missed, proven, pushes, disturbed, faults>>

(* reportMainRed: a task that is open already is only brought up to date. *)
FindRed ==
    /\ job.pc = "red"
    /\ \/ /\ IF open[Repo] > 0 THEN Told /\ job' = NoJob
                               ELSE Goto("open") /\ UNCHANGED known
          /\ UNCHANGED <<missed, faults>>
       \/ Unheard /\ Told /\ job' = NoJob
    /\ UNCHANGED <<health, cache, open, proven, pushes, disturbed>>

(* The task is opened; the answer, or the call itself, may be lost. *)
OpenRed ==
    /\ job.pc = "open"
    /\ \/ open' = [open EXCEPT ![Repo] = @ + 1] /\ UNCHANGED <<missed, faults>>
       \/ Unheard /\ open' \in {open, [open EXCEPT ![Repo] = @ + 1]}
    /\ Told /\ job' = NoJob
    /\ UNCHANGED <<health, cache, proven, pushes, disturbed>>

(* reportMainGreen *)
FindGreen ==
    /\ job.pc = "green"
    /\ \/ /\ IF open[Repo] > 0 THEN Goto("close") ELSE job' = NoJob
          /\ UNCHANGED <<missed, faults>>
       \/ Unheard /\ job' = NoJob
    /\ UNCHANGED <<health, cache, known, open, proven, pushes, disturbed>>
CloseGreen ==
    /\ job.pc = "close"
    /\ \/ /\ open' = [open EXCEPT ![Repo] = IF @ > 0 THEN @ - 1 ELSE 0]
          /\ UNCHANGED <<missed, faults>>
       \/ Unheard /\ UNCHANGED open
    /\ job' = NoJob
    /\ UNCHANGED <<health, cache, known, proven, pushes, disturbed>>

-----------------------------------------------------------------------------
(* The world. *)

(* main gets a new SHA. *)
Push(r) ==
    /\ pushes < MaxPushes /\ pushes' = pushes + 1
    /\ \E h \in Healths(r) : health' = [health EXCEPT ![r] = h]
    /\ cache' = [cache EXCEPT ![r] = [entry |-> "none", expired |-> FALSE]]
    /\ known' = [known EXCEPT ![r].current = FALSE]
    /\ job' = IF job.at # 0 /\ Repos[job.at] = r THEN [job EXCEPT !.current = FALSE] ELSE job
    /\ missed' = [missed EXCEPT ![r] = FALSE]
    /\ UNCHANGED <<open, proven, disturbed, faults>>

(* guardianRedGraceMs, guardianEnvironmentRetryMs, mainlineRedTtlMs: each  *)
(* is longer than a walk takes to come from one repository to the next.    *)
TimeIsUp(r) ==
    /\ job.at # 0 /\ Repos[job.at] # r
    /\ \/ /\ ~known[r].overdue /\ known[r].status \in {"red", "environment", "error"}
          /\ known' = [known EXCEPT ![r].overdue = TRUE]
          /\ UNCHANGED cache
       \/ /\ ~cache[r].expired /\ cache[r].entry \in Failures
          /\ cache' = [cache EXCEPT ![r].expired = TRUE]
          /\ UNCHANGED known
    /\ UNCHANGED <<health, job, open, missed, proven, pushes, disturbed, faults>>

(* A person closes the task. *)
PersonCloses(r) ==
    /\ open[r] > 0
    /\ faults < MaxFaults /\ faults' = faults + 1
    /\ open' = [open EXCEPT ![r] = @ - 1]
    /\ missed' = [missed EXCEPT ![r] = TRUE]
    /\ UNCHANGED <<health, cache, known, job, proven, pushes, disturbed>>

(* The release worker dies: what the guardian knows is gone, the cache is  *)
(* on disk.                                                                *)
Restart ==
    /\ faults < MaxFaults /\ faults' = faults + 1
    /\ known' = [r \in RepoSet |-> Nothing]
    /\ job' = NoJob
    /\ missed' = [r \in RepoSet |-> FALSE]
    /\ UNCHANGED <<health, cache, open, proven, pushes, disturbed>>

Guard == Tick \/ Walk \/ Judge \/ Confirm \/ Verdict \/ FindRed \/ OpenRed \/ FindGreen \/ CloseGreen

Next ==
    \/ Guard \/ Restart
    \/ \E r \in RepoSet : TimeIsUp(r) \/ Push(r) \/ PersonCloses(r)

Spec == Init /\ [][Next]_vars

(* The release worker ticks, and time passes. *)
FairSpec == Spec /\ WF_vars(Guard) /\ \A r \in RepoSet : SF_vars(TimeIsUp(r))

-----------------------------------------------------------------------------
(* A repository has one MAIN RED task at a time, although the worker dies  *)
(* after opening it or never hears that it was opened.                     *)
OneMainRed == \A r \in RepoSet : open[r] <= 1

(* No task is opened by a run that failed once: the first one is preceded  *)
(* by two runs that showed the same failing tests on one SHA, and failures *)
(* that nobody can name open none.                                         *)
OpenedOnlyConfirmed == \A r \in RepoSet : open[r] > 0 => proven[r]

(* The task follows main: a failure that lasts is opened and a task whose  *)
(* main is green is closed, in every repository, unless main moves on, the *)
(* desk was not reached or a person closed the task; a report that was     *)
(* missed is made up for by the next SHA or a restart.                     *)
Astray(r) ==
    /\ ~missed[r]
    /\ \/ health[r] \in Failures \ {Unnamed} /\ open[r] = 0
       \/ health[r] = "green" /\ open[r] > 0
MainRedFollowsMain == \A r \in RepoSet : Astray(r) ~> ~Astray(r)
=============================================================================
