----------------------------- MODULE MCAgentRuns -----------------------------
(***************************************************************************)
(* AgentRuns for TLC: every task is in one area, which is where the claims *)
(* of different tasks interact.                                            *)
(***************************************************************************)
EXTENDS AgentRuns, TLC

MCAreaOf == [t \in Tasks |-> "area"]

(* Tasks are interchangeable as long as none is singled out (SentinelTasks *)
(* is empty or all of Tasks).                                              *)
MCSymmetry == Permutations(Tasks)
==============================================================================
