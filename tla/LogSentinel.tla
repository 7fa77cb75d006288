------------------------------- MODULE LogSentinel -------------------------------
(***************************************************************************)
(* The log sentinel (server/log-sentinel.js): it reads the log of a        *)
(* container, groups error records, and files a task per fingerprint on    *)
(* the desk.  What it has filed it keeps in memory and, written after      *)
(* every group, in a file that is read when it starts.                     *)
(*                                                                         *)
(* Abstracted: one container; a line is known by what the patterns say of  *)
(* it; a fingerprint is the first two lines of a group as they are after   *)
(* normalisation; times are ages in ticks of a clock that stands still     *)
(* while a group is handled, and an age that no comparison tells from a    *)
(* greater one stays at MaxAge.                                            *)
(***************************************************************************)
EXTENDS Integers, Sequences, FiniteSets

CONSTANTS Errors,       \* lines that match, as records of level ERROR
          Others,       \* other lines: "below" (WARN..), "ignored", "more" (no record start)
          MaxLines,     \* maxLines of a group
          MaxPerHour, Hour, Recur, Backoff, Cooldown,  \* the limits, in ticks
          MaxTasks,     \* bound: ids of tasks
          MaxEdits,     \* bound: reopened tasks, deleted tasks, edited notes, tasks of people
          MaxFaults     \* bound: crashes and failed calls

ASSUME SentinelAssumption ==
    /\ Others \subseteq {"below", "ignored", "more"} /\ Errors \intersect Others = {}
    /\ {MaxLines, MaxPerHour, MaxTasks} \subseteq Nat \ {0}
    /\ {Cooldown, Backoff, Hour, Recur} \subseteq Nat \ {0}
    /\ {MaxEdits, MaxFaults} \subseteq Nat

VARIABLES pending,  \* the group the collector has open
          queue,    \* the groups not handled yet
          handler,  \* the group that is handled, and how far it is
          mem,      \* this.state
          disk,     \* log-sentinel-state.json
          desk,     \* task id -> row
          edits, faults,
          forgot    \* a task was filed and the file does not say so
vars == <<pending, queue, handler, mem, disk, desk, edits, faults, forgot>>

Lines == Errors \union Others
(* A second line that starts a record or is ignored never gets into a fingerprint. *)
Fingerprints == {<<e>> : e \in Errors} \union {<<e, "more">> : e \in Errors}
MaxAge == CHOOSE n \in {Cooldown, Backoff, Hour, Recur} :
              \A m \in {Cooldown, Backoff, Hour, Recur} : m <= n
Ages == 0 .. MaxAge
Ids == 1 .. MaxTasks

Unknown == [seen |-> FALSE, task |-> 0, lastCreated |-> MaxAge, suppressed |-> FALSE, at |-> MaxAge]
NoState == [known |-> [f \in Fingerprints |-> Unknown], created |-> {}, last |-> MaxAge]
NoTask == [status |-> "none", mark |-> <<>>, age |-> 0, touched |-> FALSE]
Rest == [pc |-> "idle", group |-> <<>>]

Entries == [seen : BOOLEAN, task : Ids \union {0}, lastCreated : Ages,
            suppressed : BOOLEAN, at : Ages]
(* Creations are a Cooldown apart: their ages differ, and are a set. *)
States == [known : [Fingerprints -> Entries], created : SUBSET (0 .. Hour - 1), last : Ages]
Handlers == [pc : {"idle", "marker", "byid", "create", "save"},
             group : Fingerprints \union {<<>>}]
Rows == [status : {"none", "open", "done"}, mark : Fingerprints \union {<<>>},
         age : Ages, touched : BOOLEAN]

TypeOK ==
    /\ pending \in Seq(Lines) /\ Len(pending) <= MaxLines
    /\ queue \in Seq(Seq(Lines) \ {<<>>})
    /\ handler \in Handlers
    /\ mem \in States /\ disk \in States
    /\ Cardinality(mem.created) <= MaxPerHour
    /\ desk \in [Ids -> Rows]
    /\ edits \in 0 .. MaxEdits /\ faults \in 0 .. MaxFaults /\ forgot \in BOOLEAN

Init ==
    /\ pending = <<>>
    /\ queue = <<>>
    /\ handler = Rest
    /\ mem = NoState /\ disk = NoState
    /\ desk = [i \in Ids |-> NoTask]
    /\ edits = 0 /\ faults = 0 /\ forgot = FALSE

-----------------------------------------------------------------------------
(* ErrorGroupCollector. *)

Starts(line) == line \in Errors
RecordStart(line) == line \in Errors \union {"below"}
Ignore(group) == \E i \in DOMAIN group : group[i] = "ignored"
(* The group that a flush hands over. *)
Flushed(group) == IF group = <<>> \/ Ignore(group) THEN queue ELSE Append(queue, group)

(* Groups are handled one after the other, in their order: the next line   *)
(* is read when the groups before it are handled (a bound on the queue).   *)
Reading == queue = <<>> /\ handler.pc = "idle"

(* Mutant of Feed: one line more than maxLines. *)
FeedPastEnd(line) ==
    /\ Reading
    /\ IF pending # <<>> /\ Len(pending) <= MaxLines /\ ~RecordStart(line)
       THEN pending' = Append(pending, line) /\ UNCHANGED queue
       ELSE /\ queue' = Flushed(pending)
            /\ pending' = IF Starts(line) THEN <<line>> ELSE <<>>
    /\ UNCHANGED <<handler, mem, disk, desk, edits, faults, forgot>>

(* A line joins the open group, or ends it and perhaps opens the next. *)
Feed(line) ==
    /\ Reading
    /\ IF pending # <<>> /\ Len(pending) < MaxLines /\ ~RecordStart(line)
       THEN pending' = Append(pending, line) /\ UNCHANGED queue
       ELSE /\ queue' = Flushed(pending)
            /\ pending' = IF Starts(line) THEN <<line>> ELSE <<>>
    /\ UNCHANGED <<handler, mem, disk, desk, edits, faults, forgot>>

(* The log is quiet for quietMs. *)
Quiet ==
    /\ Reading /\ pending # <<>>
    /\ queue' = Flushed(pending)
    /\ pending' = <<>>
    /\ UNCHANGED <<handler, mem, disk, desk, edits, faults, forgot>>

-----------------------------------------------------------------------------
(* evaluateMaintenance: what docker says of the watched containers; when   *)
(* docker cannot be asked there is no maintenance.                         *)
Worlds == [docker : BOOLEAN, flag : BOOLEAN, fence : {"up", "down", "absent"},
           dependency : {"up", "fresh", "down", "absent"}]
Maintenance(w) == w.docker /\ (w.flag \/ w.fence # "up" \/ w.dependency # "up")

(* handleGroup, one await after the other.  A fingerprint that was put off *)
(* is only counted until its backoff is over.                              *)
Fingerprint(group) == SubSeq(group, 1, IF Len(group) < 2 THEN Len(group) ELSE 2)
Known(f) == mem.known[f]
PutOff(k) == k.suppressed /\ k.at < Backoff
Begin ==
    /\ handler.pc = "idle" /\ queue # <<>>
    /\ queue' = Tail(queue)
    /\ \E w \in Worlds :
          handler' = CASE Maintenance(w) -> Rest
                       [] ~Maintenance(w) ->
                            [pc |-> IF PutOff(Known(Fingerprint(Head(queue)))) THEN "save" ELSE "marker",
                             group |-> Fingerprint(Head(queue))]
    /\ UNCHANGED <<pending, mem, disk, desk, edits, faults, forgot>>

(* The tasks are listed from the newest; the first with the marker counts. *)
Marked(f) == {i \in Ids : desk[i].status # "none" /\ desk[i].mark = f}
Newest(s) == CHOOSE i \in s : \A j \in s : j <= i

Goto(pc) == handler' = [handler EXCEPT !.pc = pc]
Postpone(f) ==
    mem' = [mem EXCEPT !.known[f].seen = TRUE, !.known[f].suppressed = TRUE, !.known[f].at = 0]

(* What follows when the task of the fingerprint (0: there is none) is     *)
(* known: nothing new, or one limit after the other.                       *)
Recent == {age \in mem.created : age < Hour}
(* Mutant of Decide: the limit is checked one too late. *)
DecideLate(f, task) ==
    CASE task # 0 /\ desk[task].status # "done"                   -> Goto("save") /\ UNCHANGED mem
      [] task # 0 /\ desk[task].status = "done" /\ Known(f).lastCreated < Recur
                                                                  -> Goto("save") /\ UNCHANGED mem
      [] OTHER -> IF Cardinality(Recent) > MaxPerHour \/ mem.last < Cooldown
                  THEN Goto("save") /\ Postpone(f)
                  ELSE Goto("create") /\ UNCHANGED mem

(* Mutant of Decide: a closed task does not count. *)
DecideOpen(f, task) ==
    IF task # 0 /\ desk[task].status # "done" THEN Goto("save") /\ UNCHANGED mem
    ELSE IF Cardinality(Recent) >= MaxPerHour \/ mem.last < Cooldown
         THEN Goto("save") /\ Postpone(f)
         ELSE Goto("create") /\ UNCHANGED mem
Decide(f, task) ==
    CASE task # 0 /\ desk[task].status # "done"                   -> Goto("save") /\ UNCHANGED mem
      [] task # 0 /\ desk[task].status = "done" /\ Known(f).lastCreated < Recur
                                                                  -> Goto("save") /\ UNCHANGED mem
      [] OTHER -> IF Cardinality(Recent) >= MaxPerHour \/ mem.last < Cooldown
                  THEN Goto("save") /\ Postpone(f)
                  ELSE Goto("create") /\ UNCHANGED mem

(* Mutant of FindByMarker: the task the sentinel remembers is enough. *)
FindRemembered ==
    /\ handler.pc = "marker"
    /\ IF Known(handler.group).task # 0
       THEN Goto("byid") /\ UNCHANGED mem
       ELSE Decide(handler.group, 0)
    /\ UNCHANGED <<pending, queue, disk, desk, edits, faults, forgot>>

(* findTaskByMarker, and findTaskById when nothing bears the marker. *)
FindByMarker ==
    /\ handler.pc = "marker"
    /\ LET f == handler.group
       IN  CASE Marked(f) # {}                          -> Decide(f, Newest(Marked(f)))
             [] Marked(f) = {} /\ Known(f).task # 0     -> Goto("byid") /\ UNCHANGED mem
             [] OTHER                                   -> Decide(f, 0)
    /\ UNCHANGED <<pending, queue, disk, desk, edits, faults, forgot>>

(* An answer that is not ok counts as no task. *)
FindById ==
    /\ handler.pc = "byid"
    /\ LET f == handler.group
           t == Known(f).task
       IN  \/ Decide(f, IF desk[t].status = "none" THEN 0 ELSE t) /\ UNCHANGED faults
           \/ faults < MaxFaults /\ faults' = faults + 1 /\ Decide(f, 0)
    /\ UNCHANGED <<pending, queue, disk, desk, edits, forgot>>

(* The id of a new task: one more than the greatest there is. *)
NextId ==
    LET used == {i \in Ids : desk[i].status # "none"} IN IF used = {} THEN 1 ELSE Newest(used) + 1
Insert(f) == desk' = [desk EXCEPT ![NextId] = [NoTask EXCEPT !.status = "open", !.mark = f]]

(* The task is filed and the memory says so. *)
Create ==
    /\ handler.pc = "create" /\ NextId \in Ids
    /\ LET f == handler.group
       IN  /\ Insert(f)
           /\ mem' = [mem EXCEPT
                        !.created = Recent \union {0}, !.last = 0,
                        !.known[f] = [Unknown EXCEPT !.seen = TRUE, !.task = NextId, !.lastCreated = 0]]
    /\ Goto("save")
    /\ UNCHANGED <<pending, queue, disk, edits, faults, forgot>>

(* The task is filed and the answer is lost: the group ends with an error. *)
CreateUnheard ==
    /\ handler.pc = "create" /\ NextId \in Ids /\ faults < MaxFaults
    /\ Insert(handler.group)
    /\ handler' = Rest
    /\ faults' = faults + 1 /\ forgot' = TRUE
    /\ UNCHANGED <<pending, queue, mem, disk, edits>>

SaveState ==
    /\ handler.pc = "save"
    /\ disk' = mem
    /\ handler' = Rest
    /\ UNCHANGED <<pending, queue, mem, desk, edits, faults, forgot>>

(* A call to the desk or to the disk fails: the group is dropped. *)
CallFails ==
    /\ handler.pc # "idle" /\ faults < MaxFaults
    /\ handler' = Rest
    /\ faults' = faults + 1
    /\ UNCHANGED <<pending, queue, mem, disk, desk, edits, forgot>>

(* What the state tells of the tasks that were filed. *)
Filings(s) == <<s.created, s.last, [f \in Fingerprints |-> s.known[f].lastCreated]>>

(* The process dies and starts again from its file, which a crash in the   *)
(* middle of a write leaves unreadable: then it starts from nothing.       *)
Crash ==
    /\ faults < MaxFaults
    /\ \E left \in (IF handler.pc = "save" THEN {disk, mem, NoState} ELSE {disk}) :
          /\ mem' = left
          /\ disk' = left
          /\ forgot' = (forgot \/ Filings(left) # Filings(mem))
    /\ handler' = Rest
    /\ pending' = <<>> /\ queue' = <<>>
    /\ faults' = faults + 1
    /\ UNCHANGED <<desk, edits>>

-----------------------------------------------------------------------------
(* The desk and the clock. *)

(* The release worker or a person closes a task. *)
Close(i) ==
    /\ desk[i].status = "open"
    /\ desk' = [desk EXCEPT ![i].status = "done"]
    /\ UNCHANGED <<pending, queue, handler, mem, disk, edits, faults, forgot>>

(* People reopen a task, edit the marker away, delete a task, file another. *)
Edit(i) ==
    /\ edits < MaxEdits /\ edits' = edits + 1
    /\ \/ /\ desk[i].status = "done"
          /\ desk' = [desk EXCEPT ![i].status = "open", ![i].touched = TRUE]
       \/ /\ desk[i].status # "none" /\ desk[i].mark # <<>>
          /\ desk' = [desk EXCEPT ![i].mark = <<>>, ![i].touched = TRUE]
       \/ /\ desk[i].status # "none"
          /\ desk' = [desk EXCEPT ![i] = NoTask]
       \/ /\ i = NextId
          /\ desk' = [desk EXCEPT ![i] = [NoTask EXCEPT !.status = "open", !.touched = TRUE]]
    /\ UNCHANGED <<pending, queue, handler, mem, disk, faults, forgot>>

Older(age) == IF age < MaxAge THEN age + 1 ELSE age
Aged(s) ==
    [known |-> [f \in Fingerprints |-> [s.known[f] EXCEPT !.lastCreated = Older(@), !.at = Older(@)]],
     created |-> {age + 1 : age \in {a \in s.created : a + 1 < Hour}},
     last |-> Older(s.last)]
Tick ==
    /\ handler.pc = "idle"
    /\ mem' = Aged(mem) /\ disk' = Aged(disk)
    /\ desk' = [i \in Ids |-> [desk[i] EXCEPT !.age = IF desk[i].status = "none" THEN 0 ELSE Older(@)]]
    /\ UNCHANGED <<pending, queue, handler, edits, faults, forgot>>

Next ==
    \/ \E line \in Lines : Feed(line)
    \/ Quiet \/ Begin \/ FindByMarker \/ FindById
    \/ Create \/ CreateUnheard \/ SaveState \/ CallFails \/ Crash
    \/ \E i \in Ids : Close(i) \/ Edit(i)
    \/ Tick

Spec == Init /\ [][Next]_vars

-----------------------------------------------------------------------------
Filed == {i \in Ids : desk[i].status # "none" /\ ~desk[i].touched}

(* One error is one task: two open tasks never bear one fingerprint unless *)
(* a person reopened or edited one, although the sentinel dies after       *)
(* filing, never hears of the task it filed or loses its file (the marker  *)
(* in the notes stands in for the memory).                                 *)
NoSecondTask ==
    \A i, j \in Filed :
        (i # j /\ desk[i].mark = desk[j].mark) => "done" \in {desk[i].status, desk[j].status}

(* An error that comes back after its task was closed waits for the end of *)
(* the cooldown, and so does any error after the task before it; restarts  *)
(* do not shorten the wait unless the file does not tell of the task.      *)
CooldownsKept ==
    ~forgot => \A i, j \in Filed :
        i < j => LET apart == desk[i].age - desk[j].age
                 IN  \/ desk[i].age = MaxAge
                     \/ apart >= Cooldown /\ (desk[i].mark = desk[j].mark => apart >= Recur)

(* No hour sees more tasks than maxTasksPerHour: an hour is counted across *)
(* restarts as long as no creation was lost between the desk and the file. *)
HourlyLimit ==
    ~forgot => Cardinality({i \in Filed : desk[i].age < Hour}) <= MaxPerHour
=============================================================================
