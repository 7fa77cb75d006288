---------------------------- MODULE LiveVerification ----------------------------
(***************************************************************************)
(* What happens to a deployed (or audit-only) result: the release worker   *)
(* checks the scenario on DEV through the proxy, and a scenario that does  *)
(* not hold returns the task to Codex.  One task, its agent runs in their  *)
(* order, the release worker that verifies the newest one, and the proxy   *)
(* of DevApiProxy with the agents of other tasks as its other clients.     *)
(*                                                                         *)
(* Abstracted: the way of a run to its deployment (AgentRuns and           *)
(* ReleasePipeline model it); a live spec is a number of GET checks, and   *)
(* whether DEV fulfils them is decided with the result (scenario).         *)
(***************************************************************************)
EXTENDS DevApiProxy, Sequences, SequencesExt

CONSTANTS Checks,        \* checks of a live spec
          Attempts,      \* verificationAttempts
          MaxVerification,  \* MAX_VERIFICATION_ATTEMPTS
          AutoContinue,  \* CODEX_AUTO_CONTINUE
          MaxRuns,       \* bound: runs of the task
          MaxFaults      \* bound: crashes of the release worker, failed calls to the desk

ASSUME LiveAssumption ==
    /\ {Checks, Attempts, MaxVerification} \subseteq Nat \ {0}
    /\ AutoContinue \in BOOLEAN /\ {MaxRuns, MaxFaults} \subseteq Nat

VARIABLES run,       \* the runs of the task, oldest first
          state,     \* how far the newest of them is
          status,    \* the task's status
          scenario,  \* what DEV makes of the newest result
          verify,    \* the release worker
          blind,     \* a history could not be read since the last manual run
          faults
taskVars == <<run, state, status, scenario, verify, blind, faults>>
vars == <<proxyVars, taskVars>>

Reasons == {"manual", "verification_failed", "auto_continue"}
RunStates == {"none", "queued", "pending", "verifying", "retrying", "released", "blocked",
              "parked"}

(* works: every check holds; broken: some check does not; refused: the     *)
(* proxy does not let a path of the spec pass.  A spec that is missing is  *)
(* treated like an invalid one, unless the run is older than the contract. *)
Scenarios == [api : {"works", "broken", "refused"}, spec : {"valid"}]
             \union [api : {"works", "broken"}, spec : {"legacy"}]
             \union [api : {"works"}, spec : {"invalid"}]
NoScenario == [api |-> "works", spec |-> "valid"]
Works == scenario.api = "works" /\ scenario.spec \in {"valid", "legacy"}

NotVerifying == [pc |-> "idle", attempt |-> 0, check |-> 0, failed |-> FALSE, infra |-> FALSE,
                 down |-> FALSE, chain |-> 0]

TypeOK ==
    /\ ProxyTypeOK
    /\ run \in Seq([reason : Reasons, followUp : {"none", "requested", "exhausted"}])
    /\ Len(run) <= MaxRuns
    /\ state \in RunStates
    /\ status \in {"new", "in_progress", "blocked", "ready_for_retest"}
    /\ scenario \in Scenarios
    /\ verify \in [pc : {"idle", "smoke", "live", "asked", "ui", "history", "record", "enqueue"},
                   attempt : 0 .. Attempts, check : 0 .. Checks, failed : BOOLEAN,
                   infra : BOOLEAN, down : BOOLEAN, chain : 0 .. MaxRuns]
    /\ blind \in BOOLEAN /\ faults \in 0 .. MaxFaults

Init ==
    /\ ProxyInit
    /\ run = <<>>
    /\ state = "none"
    /\ status = "new"
    /\ scenario = NoScenario
    /\ verify = NotVerifying
    /\ blind = FALSE
    /\ faults = 0

-----------------------------------------------------------------------------
(* The queue of the desk. *)

Newest == Last(run)
(* What enqueueAgentRun refuses: an active run, an active release. *)
Accepts == state \notin {"queued", "pending", "verifying", "retrying"}
Enqueue(reason) ==
    /\ Len(run) < MaxRuns
    /\ run' = Append(run, [reason |-> reason, followUp |-> "none"])
    /\ state' = "queued"

(* Somebody starts the AI by hand. *)
Start ==
    /\ Accepts
    /\ Enqueue("manual")
    /\ status' = "in_progress"
    /\ blind' = FALSE
    /\ UNCHANGED <<proxyVars, scenario, verify, faults>>

(* Codex ends its run.  A result that was accepted goes to its release; a  *)
(* result that the quality gate rejects is continued once, unless the run  *)
(* was such a continuation itself.                                         *)
MayContinue(r) == AutoContinue /\ r.reason # "auto_continue"
CodexEnds ==
    /\ state = "queued"
    /\ \/ /\ state' = "pending"
          /\ scenario' \in Scenarios
          /\ UNCHANGED <<run, status>>
       \/ /\ MayContinue(Newest)
          /\ Enqueue("auto_continue")
          /\ UNCHANGED <<status, scenario>>
       \/ /\ ~MayContinue(Newest)
          /\ state' = "parked" /\ status' = "blocked"
          /\ UNCHANGED <<run, scenario>>
    /\ UNCHANGED <<proxyVars, verify, blind, faults>>

-----------------------------------------------------------------------------
(* verifyScenario: the plain checks, the live spec, the UI spec. *)

(* The result is deployed, or adopted by a new tick after a crash. *)
BeginVerify ==
    /\ state \in {"pending", "verifying", "retrying"}
    /\ verify.pc = "idle"
    /\ state' = "verifying"
    /\ verify' = [NotVerifying EXCEPT !.pc = "smoke"]
    /\ UNCHANGED <<proxyVars, run, status, scenario, blind, faults>>

(* The deploy was refused or undone by the gates (ReleasePipeline). *)
NotDeployed ==
    /\ state = "pending" /\ verify.pc = "idle"
    /\ state' = "blocked"
    /\ status' = "blocked"
    /\ scenario' = NoScenario
    /\ UNCHANGED <<proxyVars, run, verify, blind, faults>>

(* The environment is at fault: the release is tried again later. *)
Transient ==
    /\ state' = "retrying"
    /\ verify' = NotVerifying
    /\ UNCHANGED <<status, scenario>>
(* The scenario does not hold. *)
Charge ==
    /\ verify' = [verify EXCEPT !.pc = "history"]
    /\ UNCHANGED <<state, status, scenario>>

(* classifyPostDeployCheckFailure: no answer and a server error are the    *)
(* environment's, any other unexpected answer is the scenario's.           *)
SmokeKind(code, answer) == IF code # 0 \/ answer = "5xx" THEN "transient" ELSE "scenario"
(* The contract of the run: a spec is validated before its checks run, and *)
(* a run that is older than the contract has none to check.                *)
Contract(spec) ==
    CASE spec = "valid"  -> [verify EXCEPT !.pc = "live", !.attempt = 1, !.check = 1]
      [] spec = "legacy" -> [verify EXCEPT !.pc = "ui"]
      [] OTHER           -> [verify EXCEPT !.pc = "history"]
Smoke ==
    /\ verify.pc = "smoke"
    /\ \/ verify' = Contract(scenario.spec) /\ UNCHANGED <<state, status, scenario>>
       \/ \E code \in {0, 1}, answer \in {"other", "5xx"} :
             /\ Works => SmokeKind(code, answer) = "transient"
             /\ IF SmokeKind(code, answer) = "transient" THEN Transient ELSE Charge
    /\ UNCHANGED <<proxyVars, run, blind, faults>>

(* runVerificationSpec: one check after the other, each a GET through the  *)
(* proxy; a check that fails does not end the attempt.                     *)
Route == IF scenario.api = "refused" THEN "policy" ELSE "allowed"
AskDev ==
    /\ verify.pc = "live"
    /\ Arrive(Verifier, Route)
    /\ verify' = [verify EXCEPT !.pc = "asked"]
    /\ UNCHANGED <<run, state, status, scenario, blind, faults>>

(* The proxy's own refusals of the request are the spec's fault, its other *)
(* errors and a rejected credential are the environment's.                 *)
(* Mutant of Infrastructure: a rejected credential is DEV's answer. *)
InfrastructureOfProxy(answer) == answer \in ProxyErrors \ {"policy", "method"}
Infrastructure(answer) ==
    answer \in (ProxyErrors \ {"policy", "method"}) \union {"rejected"}

(* The last check of an attempt was read: infrastructure counts only in an *)
(* attempt that has not passed, an attempt that has not passed is repeated *)
(* and the last one decides.                                               *)
NextAttempt(v) ==
    [v EXCEPT !.pc = "live", !.attempt = @ + 1, !.check = 1,
              !.failed = FALSE, !.infra = FALSE, !.down = FALSE]
(* Mutant of NextStep: one check too many. *)
NextStepPastEnd(v) ==
    CASE v.check <= Checks -> [v EXCEPT !.pc = "live", !.check = @ + 1]
      [] OTHER             -> [v EXCEPT !.pc = "ui"]
NextStep(v) ==
    CASE v.check < Checks                                   -> [v EXCEPT !.pc = "live", !.check = @ + 1]
      [] v.check = Checks /\ ~v.failed                      -> [v EXCEPT !.pc = "ui"]
      [] v.check = Checks /\ v.failed /\ v.attempt < Attempts -> NextAttempt(v)
      [] OTHER                                              -> [v EXCEPT !.pc = "history"]
Fails(answer) == answer # "match"
ReadDev ==
    /\ verify.pc = "asked" /\ req[Verifier].pc = "done"
    /\ Read
    /\ LET answer == req[Verifier].answer
           v == [verify EXCEPT !.failed = @ \/ Fails(answer),
                               !.infra = @ \/ Infrastructure(answer),
                               !.down = @ \/ answer = "5xx"]
       IN  IF NextStep(v).pc = "history" /\ v.infra
           THEN Transient
           ELSE verify' = NextStep(v) /\ UNCHANGED <<state, status, scenario>>
    /\ UNCHANGED <<inFlight, provider, pending, dev, run, blind, faults>>

(* runUiVerification.  What validateUiSpec makes of the UI spec: there is  *)
(* none, the verifier has no right to walk its flow, it is malformed, it   *)
(* can run.                                                                *)
UiSpecs == {"none", "unverifiable", "invalid", "valid"}

(* A spec that can run and a runner that is there: exit 1 and 2 charge the *)
(* task unless the verifier was not allowed to see what failed (unseen),   *)
(* anything but 0 beyond them is the environment.                          *)
UiKind(spec, exit, unseen) ==
    CASE spec \in {"none", "unverifiable"}   -> "ok"
      [] spec = "invalid"                    -> "scenario"
      [] exit = 0 \/ (exit = 1 /\ unseen)    -> "ok"
      [] exit = 2 \/ (exit = 1 /\ ~unseen)   -> "scenario"
      [] OTHER                               -> "transient"

(* The scenario is confirmed: the release is settled and the task goes to  *)
(* the retest.                                                             *)
Verified ==
    /\ state' = "released"
    /\ status' = "ready_for_retest"
    /\ scenario' = NoScenario
    /\ verify' = NotVerifying
Ui ==
    /\ verify.pc = "ui"
    /\ \E spec \in UiSpecs, exit \in 0 .. 3, unseen \in BOOLEAN :
          LET kind == UiKind(spec, exit, unseen)
          IN  /\ Works => kind # "scenario"
              /\ \/ kind = "ok" /\ Verified
                 \/ kind = "scenario" /\ Charge
                 \/ kind = "transient" /\ Transient
    /\ UNCHANGED <<proxyVars, run, blind, faults>>

-----------------------------------------------------------------------------
(* handleScenarioFailure. *)

(* The runs at the end of the history that a failed verification started. *)
Chain ==
    LET others == {i \in DOMAIN run : run[i].reason # "verification_failed"}
    IN  Len(run) - (IF others = {} THEN 0 ELSE CHOOSE i \in others : \A j \in others : j <= i)

(* A history that cannot be read is empty. *)
ReadHistory ==
    /\ verify.pc = "history"
    /\ \/ /\ verify' = [verify EXCEPT !.pc = "record", !.chain = Chain]
          /\ UNCHANGED <<blind, faults>>
       \/ /\ faults < MaxFaults
          /\ verify' = [verify EXCEPT !.pc = "record", !.chain = 0]
          /\ blind' = TRUE /\ faults' = faults + 1
    /\ UNCHANGED <<proxyVars, run, state, status, scenario>>

(* Mutant of Exhausted: the failure at hand is not counted. *)
ExhaustedLate(chain) == chain >= MaxVerification
Exhausted(chain) == chain + 1 >= MaxVerification
RecordFailure ==
    /\ verify.pc = "record"
    /\ LET out == Exhausted(verify.chain)
       IN  /\ run' = [run EXCEPT ![Len(run)].followUp = IF out THEN "exhausted" ELSE "requested"]
           /\ state' = "blocked"
           /\ status' = IF out THEN "blocked" ELSE "in_progress"
           /\ verify' = IF out THEN NotVerifying ELSE [NotVerifying EXCEPT !.pc = "enqueue"]
    /\ scenario' = NoScenario
    /\ UNCHANGED <<proxyVars, blind, faults>>

(* POST /agent-runs with the reason verification_failed: the desk may not  *)
(* be reached, or its answer may be lost; a run that is there already is   *)
(* an answer like any other.                                               *)
PostFollowUp ==
    \/ Accepts /\ Enqueue("verification_failed") /\ faults' \in {faults, faults + 1}
       /\ faults' <= MaxFaults
    \/ ~Accepts /\ UNCHANGED <<run, state, faults>>
    \/ faults < MaxFaults /\ faults' = faults + 1 /\ UNCHANGED <<run, state>>
EnqueueFollowUp ==
    /\ verify.pc = "enqueue"
    /\ PostFollowUp
    /\ verify' = NotVerifying
    /\ UNCHANGED <<proxyVars, status, scenario, blind>>

(* recoverVerificationFollowUps, at the head of every tick. *)
(* Mutant of Owed: any run of the task may have asked for it, whatever came of it. *)
OwedEver == \E i \in DOMAIN run : run[i].followUp = "requested"
Owed == state = "blocked" /\ Newest.followUp = "requested" /\ status = "in_progress"
Recover ==
    /\ verify.pc = "idle" /\ Owed
    /\ PostFollowUp
    /\ UNCHANGED <<proxyVars, status, scenario, verify, blind>>

(* The release worker dies; an answer it waited for is nobody's. *)
Crash ==
    /\ verify.pc # "idle" /\ faults < MaxFaults
    /\ req[Verifier].pc \in {"idle", "done"}
    /\ verify' = NotVerifying
    /\ req' = [req EXCEPT ![Verifier] = NoRequest]
    /\ faults' = faults + 1
    /\ UNCHANGED <<inFlight, provider, pending, dev, run, state, status, scenario, blind>>

-----------------------------------------------------------------------------
(* The other clients ask while the scenario is verified: at other times    *)
(* they only meet each other.                                              *)
OthersAsk ==
    /\ verify.pc \in {"live", "asked"}
    /\ \E c \in Clients \ {Verifier} : Arrive(c, "allowed")
    /\ UNCHANGED taskVars

(* What DEV may answer the verifier; a server error is possible always. *)
FromDev(c) ==
    IF c # Verifier THEN {"match"}
    ELSE IF scenario.api = "works" THEN {"match", "5xx"} ELSE {"match", "mismatch", "5xx"}
LoginEnds == (LoggedIn \/ LoginFails) /\ UNCHANGED taskVars
CallEnds(c) ==
    /\ Breaks(c) \/ Answers200(c, FromDev(c)) \/ Rejected(c) \/ RejectedAgain(c)
    /\ UNCHANGED taskVars
DevChanges == (Expire \/ Forget) /\ verify.pc \in {"live", "asked"} /\ UNCHANGED taskVars

Releaser == BeginVerify \/ Smoke \/ AskDev \/ ReadDev \/ Ui
            \/ ReadHistory \/ RecordFailure \/ EnqueueFollowUp \/ Recover

Next ==
    \/ Start \/ CodexEnds \/ NotDeployed
    \/ Releaser \/ Crash
    \/ LoginEnds \/ OthersAsk \/ DevChanges
    \/ \E c \in Clients : CallEnds(c)

Spec == Init /\ [][Next]_vars

(* The release worker keeps ticking and every call of the proxy ends: each *)
(* has a timeout (timeoutMs).                                              *)
FairSpec ==
    /\ Spec
    /\ WF_vars(Releaser) /\ WF_vars(LoginEnds)
    /\ WF_vars(CallEnds(Verifier))

-----------------------------------------------------------------------------
(* tests/release-live.test.js: an unavailable proxy makes the release wait *)
(* and does not charge the task.  Whoever else uses the proxy, whatever    *)
(* happens to its token and however DEV fails to answer, a scenario that   *)
(* works is charged only if DEV itself answered with a server error.       *)
EnvironmentNotCharged ==
    verify.pc \in {"history", "record"} => ~Works \/ verify.down

(* A failure is followed up once: not twice although the answer to the     *)
(* POST was lost, the worker died or a person was quicker.                 *)
OneFollowUpPerFailure ==
    \A i \in DOMAIN run :
        run[i].reason = "verification_failed" =>
            Cardinality({j \in 1 .. i : run[j].reason = "verification_failed"})
              <= Cardinality({j \in 1 .. i - 1 : run[j].followUp = "requested"})

(* The limit of handleScenarioFailure, as it counts: the newest runs are   *)
(* never that many returns in a row, unless the history could not be read. *)
DirectReturnsBounded ==
    (~blind /\ Len(run) >= MaxVerification) =>
        \E j \in Len(run) - MaxVerification + 1 .. Len(run) :
            run[j].reason # "verification_failed"

(* Whoever holds the proxy's slots and its login, a verification ends; and *)
(* a failure that was recorded is followed up although the worker died or  *)
(* the desk was not reached.                                               *)
Unsettled == verify.pc = "asked" \/ (Owed /\ Len(run) < MaxRuns)
VerificationSettles == Unsettled ~> ~Unsettled
=============================================================================
