------------------------- MODULE MCAgentEnvironments -------------------------
(***************************************************************************)
(* AgentRuns for TLC in two environments, of which the initial state picks *)
(* one: the constants of the configuration describe the harsh one, with a  *)
(* worker that outlives its lease beside its successor; in the calm one a  *)
(* single worker crashes and is started again, while people stop its runs  *)
(* and switch AI off and on.                                               *)
(***************************************************************************)
EXTENDS AgentRuns

CONSTANTS Alone    \* the only slot of the calm environment

MCAreaOf == [t \in Tasks |-> "area"]

Calm == INSTANCE AgentRuns WITH
    Workers <- Alone, SentinelTasks <- Tasks,
    PatchStatuses <- {}, PatchAi <- BOOLEAN, StopControls <- {"stop_revert"},
    MayStall <- {}, MayCrash <- Alone, ChildrenOutlive <- TRUE

(* The table of processes tells in which environment a behaviour is. *)
Harsh == DOMAIN proc = Workers

(* Only the calm one has orphans: their end, a step of Calm!Next, is       *)
(* written out here, so that the coverage TLC reports by action shows it.  *)
EnvNext ==
    \/ Harsh /\ Next
    \/ ~Harsh /\ Calm!Next
    \/ \E r \in RunIds : OrphanExit(r)

(* The fairness of AgentRuns, in either environment. *)
HarshFairness ==
    \A w \in Workers :
        /\ WF_vars(Harsh /\ Start(w))
        /\ WF_vars(Harsh /\ Turn(w) /\ StopEnd(w))
        /\ \A r \in RunIds :
            /\ WF_vars(Harsh /\ JobStep(w, r))
            /\ WF_vars(Harsh /\ Turn(w) /\ CleanedUp(w, r))

CalmFairness ==
    \A w \in Alone :
        /\ WF_vars(~Harsh /\ Calm!Start(w))
        /\ WF_vars(~Harsh /\ Calm!Turn(w) /\ Calm!StopEnd(w))
        /\ \A r \in RunIds :
            /\ WF_vars(~Harsh /\ Calm!JobStep(w, r))
            /\ WF_vars(~Harsh /\ Calm!Turn(w) /\ Calm!CleanedUp(w, r))

EnvSpec ==
    /\ Init \/ Calm!Init
    /\ [][EnvNext]_vars
    /\ HarshFairness /\ CalmFairness
==============================================================================
