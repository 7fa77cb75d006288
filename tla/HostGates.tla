------------------------------- MODULE HostGates -------------------------------
(***************************************************************************)
(* The slots of the host for heavy gates (server/host-gates.js): runners   *)
(* in processes of their own share one directory of lock files.  A full    *)
(* vitest takes the whole host ('js-1' and every 'dotnet-N') and announces *)
(* itself with the marker 'js-pending', every other gate takes one slot.   *)
(*                                                                         *)
(* A lock file is created by open('wx') and gets the pid of its creator by *)
(* a second call, so for a moment it is empty; a file that is empty or     *)
(* names a dead process is removed by whoever meets it; a release removes  *)
(* the file whoever created it.                                            *)
(*                                                                         *)
(* Abstracted: pids are the processes themselves, a process that died is   *)
(* Dead (pids are not reused); the wait is counted in polls; the load of   *)
(* the host is free.  A process makes one request at a time.               *)
(***************************************************************************)
EXTENDS Integers, FiniteSets

CONSTANTS Procs,        \* processes that run gates
          Free, Dead,   \* owners of a file that is not there, or whose creator is gone
          Asks,         \* the requests made: <<gate kind, whether in the background>>
          MaxDotnet, MaxDotnetTestsForVitest,
          MaxPolls,     \* bound: polls after which a wait surely exceeds maxWaitMs
          MaxFaults     \* bound: processes that die, calls that fail with another error

ASSUME GateAssumption ==
    /\ Free \notin Procs /\ Dead \notin Procs /\ Free # Dead
    /\ Asks \subseteq {"vitest", "vitest-related", "js-build", "dotnet-test", "dotnet-build"}
                         \X BOOLEAN
    /\ MaxDotnet \in Nat \ {0} /\ MaxDotnetTestsForVitest \in Nat
    /\ MaxPolls \in Nat /\ MaxFaults \in Nat

VARIABLES owner,    \* lock file -> its creator, Dead or Free
          signed,   \* the files that hold the pid of their creator
          gate,     \* process -> its request and how far it is
          held,     \* process -> the files it believes it holds
          robbed,   \* <<process, file>>: the file was removed under its living holder
          faults    \* deaths and errors so far
vars == <<owner, signed, gate, held, robbed, faults>>

-----------------------------------------------------------------------------
(* The directory. *)

Pending == <<"pending", 0>>
JsSlot  == <<"js", 1>>
DotnetSlots == {"dotnet"} \X (1 .. MaxDotnet)
Slots == {JsSlot} \union DotnetSlots
Files == Slots \union {Pending}

Dotnet(kind) == kind \in {"dotnet-test", "dotnet-build"}

(* The slots a gate may take, and the order it tries them in: js-1 first,   *)
(* then dotnet-1, dotnet-2 and so on.                                      *)
SlotsOf(kind) ==
    CASE kind = "vitest" -> Slots
      [] Dotnet(kind)    -> DotnetSlots
      [] OTHER           -> {JsSlot}
Rank(f) == IF f \in DotnetSlots THEN f[2] ELSE 0
FirstOf(files) == CHOOSE f \in files : \A g \in files : Rank(f) <= Rank(g)

(* What a reader makes of a file: an empty one has no owner. *)
NamesLiving(f) == owner[f] \in Procs /\ f \in signed

Idle == [pc |-> "idle", kind |-> "none", background |-> FALSE,
         polls |-> 0, todo |-> {}, tries |-> 0]

PCs == {"idle", "pending", "sweep", "scan", "open", "sign", "look", "remove",
        "marker", "wait", "giveup", "throw", "run", "release"}

Kinds == {a[1] : a \in Asks} \union {"none"}
Request == [pc : PCs, kind : Kinds, background : BOOLEAN,
            polls : 0 .. MaxPolls, todo : SUBSET Files, tries : 0 .. 1]

TypeOK ==
    /\ owner \in [Files -> Procs \union {Free, Dead}]
    /\ signed \subseteq Files
    /\ gate \in [Procs -> Request]
    /\ held \in [Procs -> SUBSET Files]
    /\ robbed \subseteq Procs \X Files
    /\ faults \in 0 .. MaxFaults

Init ==
    /\ owner = [f \in Files |-> Free]
    /\ signed = {}
    /\ gate = [p \in Procs |-> Idle]
    /\ held = [p \in Procs |-> {}]
    /\ robbed = {}
    /\ faults = 0

-----------------------------------------------------------------------------
(* rm(file, { force: true }) by p, whoever created the file. *)
Creating(q, f) == gate[q].pc = "sign" /\ FirstOf(gate[q].todo) = f
Unlink(p, f) ==
    /\ owner' = [owner EXCEPT ![f] = Free]
    /\ signed' = signed \ {f}
    /\ robbed' = (robbed \ {<<p, f>>})
          \union {q \in Procs \ {p} :
                      owner[f] = q /\ (f \in held[q] \/ Creating(q, f))} \X {f}

Goto(p, pc) == gate' = [gate EXCEPT ![p].pc = pc]
At(p, pc) == gate[p].pc = pc
Target(p) == FirstOf(gate[p].todo)

(* The head of the loop: a full vitest that may wait announces itself, a   *)
(* dotnet gate looks for the announcement of another process.              *)
Begin(g, mine) ==
    LET announce == g.kind = "vitest" /\ ~g.background /\ Pending \notin mine
    IN  [g EXCEPT !.tries = 0, !.todo = IF announce THEN {Pending} ELSE {},
             !.pc = CASE announce -> "open"
                      [] ~announce /\ (g.kind = "vitest" \/ Dotnet(g.kind)) -> "pending"
                      [] OTHER -> "scan"]

(* withGateSlot: a request for a slot; in the background it does not wait. *)
Ask(p, kind, background) ==
    /\ At(p, "idle")
    /\ gate' = [gate EXCEPT ![p] =
           Begin([Idle EXCEPT !.kind = kind, !.background = background], {})]
    /\ UNCHANGED <<owner, signed, held, robbed, faults>>

(* The pass over the slots of the kind that are not held yet. *)
TrySlots(g, mine) ==
    LET rest == SlotsOf(g.kind) \ mine
    IN  [g EXCEPT !.pc = IF rest = {} THEN "scan" ELSE "open", !.todo = rest, !.tries = 0]

(* No foreign announcement stands in the way. *)
Admitted(g, mine) == IF g.kind = "vitest" THEN TrySlots(g, mine) ELSE [g EXCEPT !.pc = "scan"]

(* foreignExclusivePending: the marker of a living process stops the       *)
(* request, that of a dead one is removed.  Its own marker stops nobody.   *)
CheckPending(p) ==
    /\ At(p, "pending")
    /\ gate' = [gate EXCEPT ![p] =
           CASE Pending \in held[p] \/ owner[Pending] = Free \/ Pending \notin signed
                     \/ owner[Pending] = p -> Admitted(gate[p], held[p])
             [] owner[Pending] \in Procs \ {p} /\ Pending \in signed /\ Pending \notin held[p]
                    -> [gate[p] EXCEPT !.pc = "wait"]
             [] OTHER -> [gate[p] EXCEPT !.pc = "sweep"]]
    /\ UNCHANGED <<owner, signed, held, robbed, faults>>

Sweep(p) ==
    /\ At(p, "sweep")
    /\ Unlink(p, Pending)
    /\ gate' = [gate EXCEPT ![p] = Admitted(gate[p], held[p])]
    /\ UNCHANGED <<held, faults>>

-----------------------------------------------------------------------------
(* acquireLockFile, one call on the file system per step. *)

(* The attempt on the first file of the pass is over. *)
Missed(g, mine) ==
    LET tried == FirstOf(g.todo)
        rest == g.todo \ {tried}
    IN  [g EXCEPT !.todo = rest, !.tries = 0,
             !.pc = CASE tried = Pending -> "pending"
                      [] tried # Pending /\ rest # {} -> "open"
                      [] OTHER -> "wait"]
Got(g, mine) ==
    LET tried == FirstOf(g.todo)
        rest == g.todo \ {tried}
        all == Slots \subseteq mine \union {tried}
    IN  [g EXCEPT !.todo = IF g.kind = "vitest" THEN rest ELSE {}, !.tries = 0,
             !.pc = CASE tried = Pending -> "pending"
                      [] tried # Pending /\ g.kind # "vitest" -> "run"
                      [] tried # Pending /\ g.kind = "vitest" /\ rest # {} -> "open"
                      [] OTHER -> IF all THEN "scan" ELSE "wait"]

(* Mutant of Open: the file is opened with 'w', not 'wx'. *)
OpenExisting(p) ==
    /\ At(p, "open")
    /\ owner' = [owner EXCEPT ![Target(p)] = p]
    /\ Goto(p, "sign")
    /\ UNCHANGED <<signed, held, robbed, faults>>

Open(p) ==
    /\ At(p, "open")
    /\ LET f == Target(p)
       IN  IF owner[f] = Free
           THEN /\ owner' = [owner EXCEPT ![f] = p]
                /\ Goto(p, "sign")
           ELSE Goto(p, "look") /\ UNCHANGED owner
    /\ UNCHANGED <<signed, held, robbed, faults>>

(* The pid goes into the file p created, which may be gone from the directory. *)
Sign(p) ==
    /\ At(p, "sign")
    /\ LET f == Target(p)
       IN  /\ signed' = IF owner[f] = p THEN signed \union {f} ELSE signed
           /\ held' = [held EXCEPT ![p] = @ \union {f}]
           /\ gate' = [gate EXCEPT ![p] = Got(gate[p], held[p])]
    /\ UNCHANGED <<owner, robbed, faults>>

Look(p) ==
    /\ At(p, "look")
    /\ IF NamesLiving(Target(p))
       THEN gate' = [gate EXCEPT ![p] = Missed(gate[p], held[p])]
       ELSE Goto(p, "remove")
    /\ UNCHANGED <<owner, signed, held, robbed, faults>>

(* Mutant of Remove: the attempt is repeated without end. *)
RemoveAgain(p) ==
    /\ At(p, "remove")
    /\ Unlink(p, Target(p))
    /\ gate' = [gate EXCEPT ![p].pc = "open", ![p].tries = @ + 1]
    /\ UNCHANGED <<held, faults>>

(* The judgement of Look may be old by now: the file is removed all the same. *)
Remove(p) ==
    /\ At(p, "remove")
    /\ Unlink(p, Target(p))
    /\ gate' = [gate EXCEPT ![p] =
           IF gate[p].tries = 0 THEN [gate[p] EXCEPT !.pc = "open", !.tries = 1]
                                ELSE Missed(gate[p], held[p])]
    /\ UNCHANGED <<held, faults>>

-----------------------------------------------------------------------------
(* admissible: what scanHeavyProcesses finds running, whoever started it.  *)
Running(kinds) == Cardinality({p \in Procs : At(p, "run") /\ gate[p].kind \in kinds})
Admissible(kind) ==
    /\ Dotnet(kind) => Running({"dotnet-test", "dotnet-build"}) < MaxDotnet
    /\ kind = "vitest" => /\ Running({"dotnet-test"}) <= MaxDotnetTestsForVitest
                          /\ Running({"vitest", "vitest-related"}) = 0

(* The load average may forbid any gate.  The full vitest scans with every *)
(* slot in its hands, any other gate before it takes one.                  *)
Scan(p) ==
    /\ At(p, "scan")
    /\ \/ /\ Admissible(gate[p].kind)
          /\ gate' = [gate EXCEPT ![p] = IF gate[p].kind = "vitest"
                                         THEN [gate[p] EXCEPT !.pc = "marker"]
                                         ELSE TrySlots(gate[p], {})]
       \/ Goto(p, "wait")
    /\ UNCHANGED <<owner, signed, held, robbed, faults>>

(* Mutant of Grant: the announcement stays. *)
GrantAnnounced(p) ==
    /\ At(p, "marker")
    /\ Goto(p, "run")
    /\ UNCHANGED <<owner, signed, held, robbed, faults>>

(* The whole host is granted: the announcement is withdrawn. *)
Grant(p) ==
    /\ At(p, "marker")
    /\ IF Pending \in held[p]
       THEN Unlink(p, Pending) /\ held' = [held EXCEPT ![p] = @ \ {Pending}]
       ELSE UNCHANGED <<owner, signed, robbed, held>>
    /\ Goto(p, "run")
    /\ UNCHANGED faults

(* Mutant of TimeUp: a request that has a part of what it needs goes on. *)
TimeUpEmptyHanded(g, mine) == (g.background \/ g.polls = MaxPolls) /\ mine = {}

(* The end of a round: out of time, or a pause and another round. *)
TimeUp(g, mine) == g.background \/ g.polls = MaxPolls
SleepsOn(p) ==
    /\ At(p, "wait")
    /\ ~TimeUp(gate[p], held[p])
    /\ gate' = [gate EXCEPT ![p] =
           Begin([gate[p] EXCEPT !.polls = IF @ < MaxPolls THEN @ + 1 ELSE @], held[p])]
    /\ UNCHANGED <<owner, signed, held, robbed, faults>>

(* What follows when nothing is held any more: a gate that had to give up  *)
(* runs without a slot unless it is a background one, which is deferred.   *)
Ended(g) ==
    IF g.pc = "giveup" /\ ~g.background THEN [Idle EXCEPT !.pc = "run", !.kind = g.kind] ELSE Idle
GiveAllBack(p, why) ==
    gate' = [gate EXCEPT ![p] = LET g == [gate[p] EXCEPT !.pc = why, !.todo = {}]
                                IN  IF held[p] = {} THEN Ended(g) ELSE g]

GivesUp(p) ==
    /\ At(p, "wait")
    /\ TimeUp(gate[p], held[p]) \/ gate[p].polls > 0
    /\ GiveAllBack(p, "giveup")
    /\ UNCHANGED <<owner, signed, held, robbed, faults>>

(* The gate ends, well or badly, and its slot is released. *)
Finish(p) ==
    /\ At(p, "run")
    /\ GiveAllBack(p, "release")
    /\ UNCHANGED <<owner, signed, held, robbed, faults>>

(* Any error but EEXIST leaves acquire: what is held is given back and the *)
(* request ends with the error; an empty file, which nobody will sign any  *)
(* more, may stay behind.                                                  *)
Fail(p) ==
    /\ faults < MaxFaults
    /\ gate[p].pc \in {"open", "sign"}
    /\ GiveAllBack(p, "throw")
    /\ owner' = [f \in Files |-> IF owner[f] = p /\ Creating(p, f) THEN Dead ELSE owner[f]]
    /\ robbed' = {r \in robbed : r[1] = p => r[2] \in held[p]}
    /\ faults' = faults + 1
    /\ UNCHANGED <<signed, held>>

(* releaseHeld and the marker after it, one file at a time: the slots in   *)
(* the order they were got in, which depends on the passes.                *)
NextBack(mine) ==
    IF mine \intersect Slots # {} THEN mine \intersect Slots ELSE {Pending}
GiveBack(p) ==
    /\ gate[p].pc \in {"giveup", "throw", "release"}
    /\ \E f \in NextBack(held[p]) :
           /\ Unlink(p, f)
           /\ held' = [held EXCEPT ![p] = @ \ {f}]
           /\ gate' = [gate EXCEPT ![p] = IF held[p] = {f} THEN Ended(@) ELSE @]
    /\ UNCHANGED faults

(* The process dies and is started again. *)
Crash(p) ==
    /\ faults < MaxFaults
    /\ ~At(p, "idle")
    /\ owner' = [f \in Files |-> IF owner[f] = p THEN Dead ELSE owner[f]]
    /\ gate' = [gate EXCEPT ![p] = Idle]
    /\ held' = [held EXCEPT ![p] = {}]
    /\ robbed' = {r \in robbed : r[1] # p}
    /\ faults' = faults + 1
    /\ UNCHANGED signed

-----------------------------------------------------------------------------
Step(p) ==
    \/ CheckPending(p) \/ Sweep(p)
    \/ Open(p) \/ Sign(p) \/ Look(p) \/ Remove(p)
    \/ Scan(p) \/ Grant(p) \/ GivesUp(p) \/ SleepsOn(p)
    \/ GiveBack(p) \/ Finish(p)

Next ==
    \E p \in Procs :
        \/ \E a \in Asks : Ask(p, a[1], a[2])
        \/ Step(p)
        \/ Fail(p)
        \/ Crash(p)

Spec == Init /\ [][Next]_vars
FairSpec == Spec /\ \A p \in Procs : WF_vars(Step(p))

-----------------------------------------------------------------------------
(* What two processes believe of one file they can only both believe when  *)
(* the file of one of them was removed while it was alive: creation itself *)
(* never gives a file to two (acquireLockFile).                            *)
HeldTwiceOnlyIfRobbed ==
    \A p, q \in Procs : p # q =>
        \A f \in held[p] \intersect held[q] : <<p, f>> \in robbed \/ <<q, f>> \in robbed

(* A request that is over, however it ended, leaves no file with its pid   *)
(* behind; a gate runs with the whole host, with one slot or with nothing, *)
(* and the announcement is gone by then.                                   *)
NothingLeftBehind ==
    \A p \in Procs :
        /\ At(p, "idle") => held[p] = {} /\ \A f \in signed : owner[f] # p
        /\ At(p, "run") => /\ Pending \notin held[p]
                           /\ \/ Cardinality(held[p]) <= 1
                              \/ gate[p].kind = "vitest" /\ held[p] = Slots

(* Whoever waits for whom (a full vitest keeps the slots it has while it   *)
(* waits for the others), every request is answered, unless its process    *)
(* dies: with a slot, without one, or by a deferral.                       *)
EveryRequestAnswered ==
    \A p \in Procs : gate[p].pc \notin {"run", "idle"} ~> gate[p].pc \in {"run", "idle"}

(* tests/host-gates.test.js: a full vitest takes the host exclusively.  A  *)
(* gate that was granted every slot runs with no other holder of a slot.   *)
ExclusiveHost ==
    \A p, q \in Procs :
        (p # q /\ At(p, "run") /\ held[p] = Slots) => held[q] \intersect Slots = {} 
=============================================================================
