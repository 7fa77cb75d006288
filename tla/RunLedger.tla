------------------------------ MODULE RunLedger ------------------------------
(***************************************************************************)
(* What the desk promises of the runs of a task, whoever writes the table: *)
(* they never overlap, the next one is inserted only when the one before   *)
(* is closed, and a closed run is closed for good.  A run may go back to   *)
(* the queue as often as a worker stops or crashes.                        *)
(*                                                                         *)
(* One step may move several rows: a worker that starts recovers all rows  *)
(* its predecessor left behind, and a stale run is closed and followed by  *)
(* a new one in one request.                                               *)
(***************************************************************************)
EXTENDS Naturals

CONSTANTS Tasks, MaxRuns, NoTask

VARIABLES
    owner,    \* the task of each run, NoTask before it is inserted
    life      \* the life of each run

RunIds == 1..MaxRuns
Life == {"absent", "queued", "running", "closed"}
Opened(s) == s \in {"queued", "running"}

Init ==
    /\ owner = [r \in RunIds |-> NoTask]
    /\ life = [r \in RunIds |-> "absent"]

(* One row: nothing, an insertion, or a move that keeps its task.          *)
Inserted(r) ==
    /\ owner[r] = NoTask /\ life[r] = "absent"
    /\ owner'[r] \in Tasks /\ life'[r] = "queued"

Moved(r) ==
    /\ owner'[r] = owner[r]
    /\ \/ life'[r] = life[r]
       \/ Opened(life[r]) /\ life'[r] \in {"queued", "running", "closed"}

(* Two runs of a task are never open together, and no run is open that is  *)
(* older than another run of its task.                                     *)
NewestOnly(own, lif) ==
    \A q, r \in RunIds :
        own[q] = own[r] /\ own[r] # NoTask /\ Opened(lif[q]) => r <= q

Next ==
    /\ owner' \in [RunIds -> Tasks \cup {NoTask}]
    /\ life' \in [RunIds -> Life]
    /\ \A r \in RunIds : Inserted(r) \/ Moved(r)
    /\ NewestOnly(owner', life')

Spec == Init /\ [][Next]_<<owner, life>>
==============================================================================
