-------------------------- MODULE LogSentinel_proofs --------------------------
(***************************************************************************)
(* Proofs about LogSentinel, for any lines, limits and cooldowns, and any  *)
(* number of tasks, edits and faults.                                      *)
(*                                                                         *)
(* The argument.  A task about an error is filed only when those before it *)
(* are done, which the desk is asked about (Asked); so of the tasks with   *)
(* one fingerprint all but the newest are done (Elders).  That tasks keep  *)
(* their distance needs the memory: while no creation was lost, it tells   *)
(* no less than the desk about the age of every task filed (Told).         *)
(***************************************************************************)
EXTENDS LogSentinel, FiniteSetTheorems, FunctionTheorems, SequenceTheorems,
        WellFoundedInduction, TLAPS

(* The groups that are handed over, by the lines that may be in them. *)
Groups == {g \in Seq(Lines) \ {<<>>} : g[1] \in Errors /\ \A n \in 2 .. Len(g) : g[n] = "more"}
Shape ==
    /\ pending # <<>> =>
          /\ pending[1] \in Errors
          /\ \A n \in 2 .. Len(pending) : pending[n] \in {"ignored", "more"}
    /\ queue \in Seq(Groups)
    /\ handler.pc # "idle" => handler.group \in Fingerprints

(* The file counts no more creations than the memory may. *)
Counted == Cardinality(disk.created) <= MaxPerHour

(* Of the tasks filed with one fingerprint those before the newest are done. *)
Elders ==
    \A i \in Filed :
        /\ desk[i].mark \in Fingerprints
        /\ \A k \in Ids : (i < k /\ desk[k].status # "none" /\ desk[k].mark = desk[i].mark)
                               => desk[i].status = "done"

(* What handleGroup has learnt at each await stays true until the next. *)
Asked ==
    /\ handler.pc = "byid" => \A i \in Filed : desk[i].mark # handler.group
    /\ handler.pc = "create" =>
          /\ \A i \in Filed : desk[i].mark = handler.group =>
                desk[i].status = "done" /\ (~forgot => desk[i].age >= Recur)
          /\ mem.last >= Cooldown /\ Cardinality(mem.created) < MaxPerHour

(* The memory tells of every task that was filed, and of no greater age. *)
Told ==
    ~forgot => \A i \in Filed :
        /\ mem.last <= desk[i].age
        /\ mem.known[desk[i].mark].lastCreated <= desk[i].age
        /\ desk[i].age < Hour => desk[i].age \in mem.created

IInv == TypeOK /\ Shape /\ Counted /\ Elders /\ Asked /\ Told /\ CooldownsKept

-----------------------------------------------------------------------------
(* The greatest age and the newest task. *)

LEMMA Bounds ==
  /\ MaxLines \in Nat \ {0} /\ MaxPerHour \in Nat \ {0} /\ MaxTasks \in Nat \ {0}
  /\ Cooldown \in Nat \ {0} /\ Backoff \in Nat \ {0} /\ Hour \in Nat \ {0} /\ Recur \in Nat \ {0}
  /\ MaxEdits \in Nat /\ MaxFaults \in Nat
  BY SentinelAssumption

LEMMA MaxAgeIs ==
  MaxAge \in Nat \ {0} /\ Cooldown <= MaxAge /\ Hour <= MaxAge /\ Recur <= MaxAge /\ Backoff <= MaxAge
  <1> DEFINE S == {Cooldown, Backoff, Hour, Recur}
  <1>1. \E n \in S : \A m \in S : m <= n BY Bounds
  <1>2. MaxAge \in S /\ \A m \in S : m <= MaxAge BY <1>1 DEF MaxAge
  <1> QED BY <1>2, Bounds

LEMMA AgesAre == Ages \subseteq Nat /\ 0 \in Ages /\ MaxAge \in Ages
  BY MaxAgeIs DEF Ages

LEMMA OlderIs ==
  ASSUME NEW a \in Ages
  PROVE  /\ Older(a) \in Ages /\ a <= Older(a)
         /\ a < MaxAge => Older(a) = a + 1
         /\ a = MaxAge => Older(a) = MaxAge
  BY MaxAgeIs DEF Ages, Older

LessThan == {pair \in Nat \X Nat : pair[1] < pair[2]}

LEMMA LeastNat ==
  ASSUME NEW T, T \subseteq Nat, T # {}
  PROVE  \E m \in T : \A n \in T : m <= n
  <1>1. IsWellFoundedOn(LessThan, Nat)
    <2>1. LessThan = OpToRel(<, Nat) BY DEF LessThan, OpToRel
    <2> QED BY <2>1, NatLessThanWellFounded
  <1>2. PICK m \in T : \A n \in T : <<n, m>> \notin LessThan BY <1>1, WFMin
  <1>3. ASSUME NEW n \in T PROVE m <= n
    <2>1. m \in Nat /\ n \in Nat OBVIOUS
    <2>2. ~(n < m) BY <1>2, <2>1 DEF LessThan
    <2> QED BY <2>1, <2>2
  <1> QED BY <1>3

LEMMA NewestIs ==
  ASSUME NEW s \in SUBSET Ids, s # {}
  PROVE  Newest(s) \in s /\ \A j \in s : j <= Newest(s)
  <1> DEFINE T == {n \in Nat : MaxTasks - n \in s}
  <1>1. s \subseteq 1 .. MaxTasks /\ MaxTasks \in Nat BY Bounds DEF Ids
  <1>2. \A j \in s : MaxTasks - j \in T BY <1>1
  <1>3. PICK m \in T : \A n \in T : m <= n BY <1>2, LeastNat
  <1>4. \A j \in s : j <= MaxTasks - m
    <2> TAKE j \in s
    <2>1. m <= MaxTasks - j BY <1>2, <1>3
    <2> QED BY <1>1, <2>1
  <1>5. \E i \in s : \A j \in s : j <= i BY <1>4
  <1> QED BY <1>5 DEF Newest

(* The id of the next task is above those of all there are. *)
LEMMA NextIdIs ==
  NextId \in Nat \ {0} /\ \A k \in Ids : desk[k].status # "none" => k < NextId
  <1> DEFINE used == {i \in Ids : desk[i].status # "none"}
  <1>1. CASE used = {} BY <1>1 DEF NextId
  <1>2. CASE used # {}
    <2>1. Newest(used) \in used /\ \A j \in used : j <= Newest(used) BY <1>2, NewestIs
    <2>2. NextId = Newest(used) + 1 BY <1>2 DEF NextId
    <2>3. Newest(used) \in Nat \ {0} BY <2>1 DEF Ids
    <2>4. \A k \in Ids : desk[k].status # "none" => k \in Nat /\ k <= Newest(used) BY <2>1 DEF Ids
    <2> QED BY <2>2, <2>3, <2>4
  <1> QED BY <1>1, <1>2

-----------------------------------------------------------------------------
(* The first lines of a group, and marks. *)

LEMMA FingerprintIs ==
  ASSUME NEW g \in Groups PROVE Fingerprint(g) \in Fingerprints
  <1> DEFINE n == IF Len(g) < 2 THEN Len(g) ELSE 2
  <1>1. g \in Seq(Lines) /\ Len(g) \in Nat \ {0} BY EmptySeq DEF Groups
  <1>2. n \in 1 .. 2 /\ n <= Len(g)
    <2>0. Len(g) \in Nat /\ Len(g) >= 1 BY <1>1
    <2>1. CASE Len(g) < 2
      <3>1. n = Len(g) BY <2>1
      <3> QED BY <2>0, <2>1, <3>1
    <2>2. CASE ~(Len(g) < 2)
      <3>1. n = 2 BY <2>2
      <3> QED BY <2>0, <2>2, <3>1
    <2> QED BY <2>1, <2>2
  <1>3. Fingerprint(g) = SubSeq(g, 1, n) BY DEF Fingerprint
  <1> HIDE DEF n
  <1>4. /\ SubSeq(g, 1, n) \in Seq(Lines) /\ Len(SubSeq(g, 1, n)) = n
        /\ \A i \in 1 .. n : SubSeq(g, 1, n)[i] = g[i]
    <2>1. \A i \in 1 .. n : g[i] \in Lines BY <1>1, <1>2, ElementOfSeq
    <2> QED BY <1>2, <2>1, SubSeqProperties
  <1>5. g[1] \in Errors /\ g[1] \in Lines BY <1>1 DEF Groups, Lines
  <1>6. CASE n = 1
    <2>1. <<g[1]>> \in Seq(Lines) /\ Len(<<g[1]>>) = 1 BY <1>5
    <2> DEFINE t == <<g[1]>>
    <2>3. t \in Seq(Lines) /\ Len(SubSeq(g, 1, n)) = Len(t) BY <1>4, <1>6, <2>1
    <2>4. \A i \in 1 .. Len(SubSeq(g, 1, n)) : SubSeq(g, 1, n)[i] = t[i] BY <1>4, <1>6
    <2> HIDE DEF t
    <2>5. SubSeq(g, 1, n) = t BY <1>4, <2>3, <2>4, SeqEqual
    <2>2. SubSeq(g, 1, n) = <<g[1]>> BY <2>5 DEF t
    <2> QED BY <1>3, <1>5, <2>2 DEF Fingerprints
  <1>7. CASE n = 2
    <2>1. g[2] = "more" BY <1>1, <1>2, <1>7 DEF Groups
    <2>2. "more" \in Lines BY <1>1, <1>2, <1>7, <2>1, ElementOfSeq
    <2>3. <<g[1], "more">> \in Seq(Lines) /\ Len(<<g[1], "more">>) = 2 BY <1>5, <2>2
    <2> DEFINE t == <<g[1], "more">>
    <2>5. t \in Seq(Lines) /\ Len(SubSeq(g, 1, n)) = Len(t) BY <1>4, <1>7, <2>3
    <2>6. \A i \in 1 .. Len(SubSeq(g, 1, n)) : SubSeq(g, 1, n)[i] = t[i] BY <1>4, <1>7, <2>1
    <2> HIDE DEF t
    <2>7. SubSeq(g, 1, n) = t BY <1>4, <2>5, <2>6, SeqEqual
    <2>4. SubSeq(g, 1, n) = <<g[1], "more">> BY <2>7 DEF t
    <2> QED BY <1>3, <1>5, <2>4 DEF Fingerprints
  <1> QED BY <1>2, <1>6, <1>7

LEMMA NoEmptyMark == <<>> \notin Fingerprints
  BY DEF Fingerprints

-----------------------------------------------------------------------------
(* The types of what the steps write. *)

LEMMA UnknownTyped == Unknown \in Entries
  BY AgesAre DEF Unknown, Entries

LEMMA NoStateTyped == NoState \in States /\ Cardinality(NoState.created) = 0
  BY AgesAre, UnknownTyped, FS_EmptySet DEF NoState, States

LEMMA NoTaskTyped == NoTask \in Rows
  BY AgesAre DEF NoTask, Rows

LEMMA RestTyped == Rest \in Handlers /\ Rest.pc = "idle"
  BY DEF Rest, Handlers

LEMMA Counting ==
  ASSUME NEW s \in States
  PROVE  /\ s.created \subseteq Nat /\ IsFiniteSet(s.created)
         /\ Cardinality(s.created) \in Nat
         /\ \A a \in s.created : a < Hour
  <1>1. s.created \in SUBSET (0 .. Hour - 1) BY DEF States
  <1>2. Hour \in Nat /\ IsFiniteSet(0 .. Hour - 1) BY Bounds, FS_Interval
  <1>3. IsFiniteSet(s.created) BY <1>1, <1>2, FS_Subset
  <1>4. s.created \subseteq Nat /\ \A a \in s.created : a < Hour BY <1>1, <1>2
  <1>5. Cardinality(s.created) \in Nat BY <1>3, FS_CardinalityType
  <1> QED BY <1>3, <1>4, <1>5

LEMMA RecentIs == TypeOK => Recent = mem.created
  BY Counting DEF Recent, TypeOK

-----------------------------------------------------------------------------
(* What the memory is after a group was put off and after a task was filed. *)

SameTimes(s, t) ==
    /\ t \in States /\ t.created = s.created /\ t.last = s.last
    /\ \A g \in Fingerprints : t.known[g].lastCreated = s.known[g].lastCreated

LEMMA SeenIs ==
  ASSUME NEW s \in States, NEW f \in Fingerprints
  PROVE  SameTimes(s, [s EXCEPT !.known[f].seen = TRUE])
  <1> DEFINE e == [s.known[f] EXCEPT !.seen = TRUE]
  <1>1. s.known \in [Fingerprints -> Entries] /\ s.known[f] \in Entries BY DEF States
  <1>2. e \in Entries BY <1>1 DEF Entries
  <1>3. e.lastCreated = s.known[f].lastCreated BY <1>1 DEF Entries
  <1>4. [s EXCEPT !.known[f].seen = TRUE] = [s EXCEPT !.known = [s.known EXCEPT ![f] = e]] OBVIOUS
  <1> HIDE DEF e
  <1> QED BY <1>1, <1>2, <1>3, <1>4 DEF States, SameTimes

LEMMA SuppressedIs ==
  ASSUME NEW s \in States, NEW f \in Fingerprints
  PROVE  SameTimes(s, [s EXCEPT !.known[f].suppressed = TRUE])
  <1> DEFINE e == [s.known[f] EXCEPT !.suppressed = TRUE]
  <1>1. s.known \in [Fingerprints -> Entries] /\ s.known[f] \in Entries BY DEF States
  <1>2. e \in Entries BY <1>1 DEF Entries
  <1>3. e.lastCreated = s.known[f].lastCreated BY <1>1 DEF Entries
  <1>4. [s EXCEPT !.known[f].suppressed = TRUE] = [s EXCEPT !.known = [s.known EXCEPT ![f] = e]] OBVIOUS
  <1> HIDE DEF e
  <1> QED BY <1>1, <1>2, <1>3, <1>4 DEF States, SameTimes

LEMMA AtIs ==
  ASSUME NEW s \in States, NEW f \in Fingerprints
  PROVE  SameTimes(s, [s EXCEPT !.known[f].at = 0])
  <1> DEFINE e == [s.known[f] EXCEPT !.at = 0]
  <1>1. s.known \in [Fingerprints -> Entries] /\ s.known[f] \in Entries BY DEF States
  <1>2. e \in Entries BY <1>1, AgesAre DEF Entries
  <1>3. e.lastCreated = s.known[f].lastCreated BY <1>1 DEF Entries
  <1>4. [s EXCEPT !.known[f].at = 0] = [s EXCEPT !.known = [s.known EXCEPT ![f] = e]] OBVIOUS
  <1> HIDE DEF e
  <1> QED BY <1>1, <1>2, <1>3, <1>4 DEF States, SameTimes

LEMMA PostponeIs ==
  ASSUME mem \in States, NEW f \in Fingerprints, Postpone(f)
  PROVE  SameTimes(mem, mem')
  <1> DEFINE a == [mem EXCEPT !.known[f].seen = TRUE]
  <1> DEFINE b == [a EXCEPT !.known[f].suppressed = TRUE]
  <1> DEFINE c == [b EXCEPT !.known[f].at = 0]
  <1>1. mem' = c BY DEF Postpone
  <1>2. SameTimes(mem, a) BY SeenIs
  <1> HIDE DEF a
  <1>3. SameTimes(a, b) BY <1>2, SuppressedIs DEF SameTimes
  <1> HIDE DEF b
  <1>4. SameTimes(b, c) BY <1>3, AtIs DEF SameTimes
  <1> HIDE DEF c
  <1> QED BY <1>1, <1>2, <1>3, <1>4 DEF SameTimes

LEMMA GotoIs ==
  ASSUME handler \in Handlers, NEW pc \in {"idle", "marker", "byid", "create", "save"}, Goto(pc)
  PROVE  handler' \in Handlers /\ handler'.pc = pc /\ handler'.group = handler.group
  BY DEF Goto, Handlers

(* Decide goes on to file a task only within the limits and, when there is *)
(* a task, when it is done and its cooldown over.                          *)
LEMMA DecideIs ==
  ASSUME TypeOK, NEW f \in Fingerprints, NEW task \in Ids \union {0}, Decide(f, task)
  PROVE  /\ handler' \in Handlers /\ handler'.group = handler.group
         /\ handler'.pc \in {"save", "create"}
         /\ SameTimes(mem, mem')
         /\ handler'.pc = "create" =>
               /\ Cardinality(mem.created) < MaxPerHour /\ mem.last >= Cooldown
               /\ task # 0 => desk[task].status = "done" /\ mem.known[f].lastCreated >= Recur
  <1>1. mem \in States /\ handler \in Handlers BY DEF TypeOK
  <1>2. mem' = mem => SameTimes(mem, mem') BY <1>1 DEF SameTimes
  <1>3. Recent = mem.created BY RecentIs
  <1>4. CASE Goto("save") /\ UNCHANGED mem
    BY <1>1, <1>2, <1>4, GotoIs
  <1>5. CASE Goto("save") /\ Postpone(f)
    BY <1>1, <1>5, GotoIs, PostponeIs
  <1>6. CASE /\ Goto("create") /\ UNCHANGED mem
             /\ ~(Cardinality(Recent) >= MaxPerHour \/ mem.last < Cooldown)
             /\ ~(task # 0 /\ desk[task].status # "done")
             /\ ~(task # 0 /\ desk[task].status = "done" /\ Known(f).lastCreated < Recur)
    <2>1. Cardinality(mem.created) \in Nat /\ mem.last \in Nat /\ mem.known[f].lastCreated \in Nat
      BY <1>1, Counting, AgesAre DEF States, Entries
    <2>2. Cardinality(mem.created) < MaxPerHour /\ mem.last >= Cooldown
      BY <1>3, <1>6, <2>1, Bounds
    <2>3. task # 0 => desk[task].status = "done" /\ mem.known[f].lastCreated >= Recur
      BY <1>6, <2>1, Bounds DEF Known
    <2>4. handler' \in Handlers /\ handler'.group = handler.group /\ handler'.pc = "create"
      BY <1>1, <1>6, GotoIs
    <2> QED BY <1>2, <1>6, <2>2, <2>3, <2>4
  <1> QED BY <1>4, <1>5, <1>6 DEF Decide

-----------------------------------------------------------------------------
(* What a step must leave for the invariant, whatever it is about. *)

(* Nothing is filed or touched, and the memory of what was filed stays. *)
Remembering ==
    ~forgot' => ~forgot /\ mem'.created = mem.created /\ mem'.last = mem.last
                /\ \A f \in Fingerprints : mem'.known[f].lastCreated = mem.known[f].lastCreated

LEMMA DeskStays ==
  ASSUME IInv, UNCHANGED desk, Remembering
  PROVE  Elders' /\ Told' /\ CooldownsKept'
  <1>1. Filed' = Filed BY DEF Filed
  <1>2. Elders' BY <1>1 DEF IInv, Elders
  <1>3. CooldownsKept' BY <1>1 DEF IInv, CooldownsKept, Remembering
  <1>4. ASSUME ~forgot', NEW i \in Filed
        PROVE  /\ mem'.last <= desk[i].age
               /\ mem'.known[desk[i].mark].lastCreated <= desk[i].age
               /\ desk[i].age < Hour => desk[i].age \in mem'.created
    BY <1>4 DEF IInv, Elders, Told, Remembering
  <1>5. Told' BY <1>1, <1>4 DEF Told
  <1> QED BY <1>2, <1>3, <1>5

(* People only finish, touch and delete what was filed. *)
Settling ==
    /\ \A i \in Filed' : i \in Filed /\ desk'[i].mark = desk[i].mark /\ desk'[i].age = desk[i].age
                         /\ (desk[i].status = "done" => desk'[i].status = "done")
    /\ \A k \in Ids : (desk'[k].status # "none" /\ desk'[k].mark # <<>>)
                          => desk[k].status # "none" /\ desk[k].mark = desk'[k].mark

LEMMA DeskSettles ==
  ASSUME IInv, UNCHANGED <<mem, handler, forgot>>, Settling
  PROVE  Elders' /\ Told' /\ CooldownsKept' /\ Asked'
  <1>1. Elders' BY NoEmptyMark DEF IInv, Elders, Settling
  <1>2. Told' BY DEF IInv, Told, Settling
  <1>3. CooldownsKept' BY DEF IInv, CooldownsKept, Settling
  <1>4. Asked' BY DEF IInv, Asked, Settling
  <1> QED BY <1>1, <1>2, <1>3, <1>4

-----------------------------------------------------------------------------
(* The collector of lines. *)

LEMMA GroupsAreLines == Seq(Groups) \subseteq Seq(Seq(Lines) \ {<<>>})
  <1> SUFFICES ASSUME NEW q \in Seq(Groups) PROVE q \in Seq(Seq(Lines) \ {<<>>})
    OBVIOUS
  <1>1. Groups \subseteq Seq(Lines) \ {<<>>} BY DEF Groups
  <1> QED BY <1>1

LEMMA FlushedIs ==
  ASSUME TypeOK, Shape, queue = <<>>
  PROVE  Flushed(pending) \in Seq(Groups)
  <1>1. CASE pending = <<>> \/ Ignore(pending) BY <1>1 DEF Flushed, Shape
  <1>2. CASE ~(pending = <<>> \/ Ignore(pending))
    <2>1. pending \in Seq(Lines) /\ pending # <<>> BY <1>2 DEF TypeOK
    <2>2. \A n \in 1 .. Len(pending) : pending[n] # "ignored" BY <1>2, <2>1 DEF Ignore
    <2>3. \A n \in 2 .. Len(pending) : pending[n] = "more"
      <3> TAKE n \in 2 .. Len(pending)
      <3>1. pending[n] \in {"ignored", "more"} BY <2>1 DEF Shape
      <3>2. n \in 1 .. Len(pending) BY <2>1
      <3> QED BY <2>2, <3>1, <3>2
    <2>4. pending \in Groups BY <2>1, <2>3 DEF Groups, Shape
    <2>5. Flushed(pending) = Append(queue, pending) BY <1>2 DEF Flushed
    <2> QED BY <2>4, <2>5 DEF Shape
  <1> QED BY <1>1, <1>2

LEMMA FeedKeeps ==
  ASSUME IInv, NEW line \in Lines, Feed(line)
  PROVE  IInv'
  <1>1. handler.pc = "idle" /\ queue = <<>> BY DEF Feed, Reading
  <1>2. UNCHANGED <<handler, mem, disk, desk, edits, faults, forgot>> BY DEF Feed
  <1>3. /\ pending' \in Seq(Lines) /\ Len(pending') <= MaxLines
        /\ queue' \in Seq(Groups)
        /\ pending' # <<>> => /\ pending'[1] \in Errors
                              /\ \A n \in 2 .. Len(pending') : pending'[n] \in {"ignored", "more"}
    <2>1. CASE pending # <<>> /\ Len(pending) < MaxLines /\ ~RecordStart(line)
      <3>1. pending' = Append(pending, line) /\ queue' = queue BY <2>1 DEF Feed
      <3>2. pending \in Seq(Lines) /\ Len(pending) \in Nat \ {0} BY <2>1, EmptySeq DEF IInv, TypeOK
      <3>3. /\ pending' \in Seq(Lines) /\ Len(pending') = Len(pending) + 1
            /\ \A n \in 1 .. Len(pending) : pending'[n] = pending[n]
            /\ pending'[Len(pending) + 1] = line
        BY <3>1, <3>2, AppendProperties
      <3>4. line \in {"ignored", "more"}
        BY <2>1, SentinelAssumption DEF RecordStart, Lines
      <3>5. pending[1] \in Errors /\ \A n \in 2 .. Len(pending) : pending[n] \in {"ignored", "more"}
        BY <2>1 DEF IInv, Shape
      <3>6. ASSUME NEW n \in 2 .. Len(pending') PROVE pending'[n] \in {"ignored", "more"}
        <4>1. CASE n = Len(pending) + 1 BY <3>3, <3>4, <4>1
        <4>2. CASE n # Len(pending) + 1
          <5>1. n \in 2 .. Len(pending) /\ n \in 1 .. Len(pending) BY <3>2, <3>3, <4>2
          <5> QED BY <3>3, <3>5, <5>1
        <4> QED BY <4>1, <4>2
      <3>7. Len(pending') <= MaxLines BY <2>1, <3>2, <3>3, Bounds
      <3>8. pending'[1] \in Errors
        <4>1. 1 \in 1 .. Len(pending) BY <3>2
        <4> QED BY <3>3, <3>5, <4>1
      <3>9. queue' \in Seq(Groups) BY <3>1 DEF IInv, Shape
      <3> QED BY <3>3, <3>6, <3>7, <3>8, <3>9
    <2>2. CASE ~(pending # <<>> /\ Len(pending) < MaxLines /\ ~RecordStart(line))
      <3>1. queue' = Flushed(pending) /\ pending' = IF Starts(line) THEN <<line>> ELSE <<>>
        BY <2>2 DEF Feed
      <3>2. queue' \in Seq(Groups) BY <1>1, <3>1, FlushedIs DEF IInv
      <3>3. CASE Starts(line)
        <4>1. pending' = <<line>> BY <3>1, <3>3
        <4>2. Len(<<line>>) = 1 /\ <<line>> \in Seq(Lines) /\ <<line>>[1] = line OBVIOUS
        <4> QED BY <3>2, <3>3, <4>1, <4>2, Bounds DEF Starts
      <3>4. CASE ~Starts(line)
        <4>1. pending' = <<>> BY <3>1, <3>4
        <4> QED BY <3>2, <4>1, Bounds
      <3> QED BY <3>3, <3>4
    <2> QED BY <2>1, <2>2
  <1>4. TypeOK' BY <1>2, <1>3, GroupsAreLines DEF IInv, TypeOK
  <1>5. Shape' BY <1>1, <1>2, <1>3 DEF Shape
  <1>6. Elders' /\ Told' /\ CooldownsKept' BY <1>2, DeskStays DEF Remembering
  <1>7. Asked' BY <1>1, <1>2 DEF Asked
  <1> QED BY <1>2, <1>4, <1>5, <1>6, <1>7 DEF IInv, Counted

LEMMA QuietKeeps ==
  ASSUME IInv, Quiet
  PROVE  IInv'
  <1>1. handler.pc = "idle" /\ queue = <<>> BY DEF Quiet, Reading
  <1>2. UNCHANGED <<handler, mem, disk, desk, edits, faults, forgot>> BY DEF Quiet
  <1>3. pending' = <<>> /\ queue' \in Seq(Groups) BY <1>1, FlushedIs DEF Quiet, IInv
  <1>4. TypeOK' BY <1>2, <1>3, GroupsAreLines, Bounds DEF IInv, TypeOK
  <1>5. Shape' BY <1>1, <1>2, <1>3 DEF Shape
  <1>6. Elders' /\ Told' /\ CooldownsKept' BY <1>2, DeskStays DEF Remembering
  <1>7. Asked' BY <1>1, <1>2 DEF Asked
  <1> QED BY <1>2, <1>4, <1>5, <1>6, <1>7 DEF IInv, Counted

-----------------------------------------------------------------------------
(* handleGroup. *)

LEMMA BeginKeeps ==
  ASSUME IInv, Begin
  PROVE  IInv'
  <1>1. UNCHANGED <<pending, mem, disk, desk, edits, faults, forgot>> BY DEF Begin
  <1>2. queue \in Seq(Groups) /\ queue # <<>> /\ queue' = Tail(queue) BY DEF Begin, IInv, Shape
  <1>3. queue' \in Seq(Groups) /\ Head(queue) \in Groups BY <1>2, HeadTailProperties
  <1> DEFINE f == Fingerprint(Head(queue))
  <1>4. f \in Fingerprints BY <1>3, FingerprintIs
  <1>5. handler' = Rest \/ handler' = [pc |-> IF PutOff(Known(f)) THEN "save" ELSE "marker", group |-> f]
    BY DEF Begin
  <1> HIDE DEF f
  <1>6. /\ handler' \in Handlers /\ handler'.pc \in {"idle", "save", "marker"}
        /\ handler'.pc # "idle" => handler'.group \in Fingerprints
    <2>1. CASE handler' = Rest BY <2>1, RestTyped
    <2>2. CASE handler' # Rest
      <3>1. handler' = [pc |-> "save", group |-> f] \/ handler' = [pc |-> "marker", group |-> f]
        BY <1>5, <2>2
      <3> QED BY <1>4, <3>1 DEF Handlers
    <2> QED BY <2>1, <2>2
  <1>7. TypeOK' BY <1>1, <1>3, <1>6, GroupsAreLines DEF IInv, TypeOK
  <1>8. Shape' BY <1>1, <1>3, <1>6 DEF IInv, Shape
  <1>9. Elders' /\ Told' /\ CooldownsKept' BY <1>1, DeskStays DEF Remembering
  <1>10. Asked' BY <1>6 DEF Asked
  <1> QED BY <1>1, <1>7, <1>8, <1>9, <1>10 DEF IInv, Counted

(* A decision keeps the invariant when nothing older than the task it is   *)
(* about can still be open.                                                *)
LEMMA DecideKeeps ==
  ASSUME IInv, NEW task \in Ids \union {0}, handler.pc # "idle",
         Decide(handler.group, task),
         UNCHANGED <<pending, queue, disk, desk, edits, forgot>>, faults' \in 0 .. MaxFaults,
         task = 0 => \A i \in Filed : desk[i].mark # handler.group,
         task # 0 => \A i \in Filed : desk[i].mark = handler.group =>
                        (desk[task].status = "done" => desk[i].status = "done")
  PROVE  IInv'
  <1> DEFINE f == handler.group
  <1>1. f \in Fingerprints BY DEF IInv, Shape
  <1>2. TypeOK BY DEF IInv
  <1>3. /\ handler' \in Handlers /\ handler'.group = f
        /\ handler'.pc \in {"save", "create"}
        /\ SameTimes(mem, mem')
        /\ handler'.pc = "create" =>
              /\ Cardinality(mem.created) < MaxPerHour /\ mem.last >= Cooldown
              /\ task # 0 => desk[task].status = "done" /\ mem.known[f].lastCreated >= Recur
    BY <1>1, <1>2, DecideIs
  <1>4. TypeOK' BY <1>2, <1>3 DEF TypeOK, SameTimes
  <1>5. Shape' BY <1>1, <1>3 DEF IInv, Shape
  <1>6. Elders' /\ Told' /\ CooldownsKept' BY <1>3, DeskStays DEF Remembering, SameTimes
  <1>7. Asked'
    <2>1. Filed' = Filed BY DEF Filed
    <2>2. ASSUME handler'.pc = "create", NEW i \in Filed, desk[i].mark = f
          PROVE  desk[i].status = "done" /\ (~forgot => desk[i].age >= Recur)
      <3>1. task # 0 BY <2>2
      <3>2. desk[task].status = "done" /\ mem.known[f].lastCreated >= Recur BY <1>3, <2>2, <3>1
      <3>3. desk[i].status = "done" BY <2>2, <3>1, <3>2
      <3>4. ASSUME ~forgot PROVE desk[i].age >= Recur
        <4>1. mem.known[f].lastCreated <= desk[i].age BY <2>2, <3>4 DEF IInv, Told
        <4>2. mem.known[f].lastCreated \in Nat /\ desk[i].age \in Nat
          BY <1>1, <1>2, AgesAre DEF TypeOK, States, Entries, Rows, Filed
        <4> QED BY <3>2, <4>1, <4>2, Bounds
      <3> QED BY <3>3, <3>4
    <2>3. handler'.pc = "create" =>
             mem'.last >= Cooldown /\ Cardinality(mem'.created) < MaxPerHour
      BY <1>3 DEF SameTimes
    <2> QED BY <1>3, <2>1, <2>2, <2>3 DEF Asked
  <1> QED BY <1>4, <1>5, <1>6, <1>7 DEF IInv, Counted

LEMMA FindByMarkerKeeps ==
  ASSUME IInv, FindByMarker
  PROVE  IInv'
  <1> DEFINE f == handler.group
  <1>1. handler.pc = "marker" /\ UNCHANGED <<pending, queue, disk, desk, edits, faults, forgot>>
    BY DEF FindByMarker
  <1>2. f \in Fingerprints /\ faults' \in 0 .. MaxFaults /\ handler \in Handlers
    BY <1>1 DEF IInv, Shape, TypeOK
  <1>3. \A i \in Filed : desk[i].mark = f => i \in Marked(f) BY DEF Filed, Marked
  <1>4. CASE Marked(f) # {} /\ Decide(f, Newest(Marked(f)))
    <2> DEFINE t == Newest(Marked(f))
    <2>1. Marked(f) \in SUBSET Ids BY DEF Marked
    <2>2. t \in Marked(f) /\ \A j \in Marked(f) : j <= t BY <1>4, <2>1, NewestIs
    <2> HIDE DEF t
    <2>3. t \in Ids /\ t # 0 /\ desk[t].status # "none" /\ desk[t].mark = f
      BY <2>2, Bounds DEF Marked, Ids
    <2>4. ASSUME NEW i \in Filed, desk[i].mark = f, desk[t].status = "done"
          PROVE  desk[i].status = "done"
      <3>1. CASE i = t BY <2>4, <3>1
      <3>2. CASE i # t
        <4>1. i \in Ids /\ i <= t BY <1>3, <2>2, <2>4 DEF Filed
        <4>2. i < t BY <2>3, <3>2, <4>1 DEF Ids
        <4> QED BY <2>3, <2>4, <4>2 DEF IInv, Elders
      <3> QED BY <3>1, <3>2
    <2>5. Decide(f, t) BY <1>4 DEF t
    <2> QED BY <1>1, <1>2, <2>3, <2>4, <2>5, DecideKeeps
  <1>5. CASE Marked(f) = {} /\ Known(f).task # 0 /\ Goto("byid") /\ UNCHANGED mem
    <2>1. handler' \in Handlers /\ handler'.pc = "byid" /\ handler'.group = f
      BY <1>2, <1>5, GotoIs
    <2>2. Filed' = Filed BY <1>1 DEF Filed
    <2>3. Asked' BY <1>1, <1>3, <1>5, <2>1, <2>2 DEF Asked
    <2>4. Elders' /\ Told' /\ CooldownsKept' BY <1>1, <1>5, DeskStays DEF Remembering
    <2>5. TypeOK' BY <1>1, <1>5, <2>1 DEF IInv, TypeOK
    <2>6. Shape' BY <1>1, <1>2, <2>1 DEF IInv, Shape
    <2> QED BY <1>1, <2>3, <2>4, <2>5, <2>6 DEF IInv, Counted
  <1>6. CASE Marked(f) = {} /\ Decide(f, 0)
    <2>1. \A i \in Filed : desk[i].mark # f BY <1>3, <1>6
    <2> QED BY <1>1, <1>2, <1>6, <2>1, DecideKeeps
  <1> QED BY <1>4, <1>5, <1>6 DEF FindByMarker

LEMMA FindByIdKeeps ==
  ASSUME IInv, FindById
  PROVE  IInv'
  <1> DEFINE f == handler.group
  <1> DEFINE t == Known(f).task
  <1>1. handler.pc = "byid" /\ UNCHANGED <<pending, queue, disk, desk, edits, forgot>>
    BY DEF FindById
  <1>2. f \in Fingerprints BY <1>1 DEF IInv, Shape
  <1>3. \A i \in Filed : desk[i].mark # f BY <1>1 DEF IInv, Asked
  <1>4. t \in Ids \union {0} BY <1>2 DEF IInv, TypeOK, States, Entries, Known
  <1>5. faults' \in 0 .. MaxFaults BY Bounds DEF FindById, IInv, TypeOK
  <1>6. Decide(f, t) \/ Decide(f, 0)
    BY DEF FindById
  <1> HIDE DEF t
  <1>7. CASE Decide(f, t) BY <1>1, <1>3, <1>4, <1>5, <1>7, DecideKeeps
  <1>8. CASE Decide(f, 0) BY <1>1, <1>3, <1>5, <1>8, DecideKeeps
  <1> QED BY <1>6, <1>7, <1>8

(* The new task is the newest, and those with its fingerprint are done. *)
LEMMA InsertIs ==
  ASSUME TypeOK, NEW f \in Fingerprints, NextId \in Ids, Insert(f)
  PROVE  /\ desk' \in [Ids -> Rows]
         /\ desk'[NextId].status = "open" /\ desk'[NextId].mark = f
         /\ desk'[NextId].age = 0 /\ ~desk'[NextId].touched
         /\ \A i \in Ids \ {NextId} : desk'[i] = desk[i]
         /\ Filed' = Filed \union {NextId}
         /\ \A i \in Filed : i \in Ids /\ i < NextId /\ desk'[i] = desk[i]
         /\ \A k \in Ids : NextId < k => desk'[k].status = "none"
  <1> DEFINE a == [NoTask EXCEPT !.status = "open"]
  <1> DEFINE b == [a EXCEPT !.mark = f]
  <1>1. a \in Rows /\ a.status = "open" /\ a.age = 0 /\ ~a.touched
    BY NoTaskTyped DEF NoTask, Rows
  <1> HIDE DEF a
  <1>2. b \in Rows /\ b.status = "open" /\ b.age = 0 /\ ~b.touched /\ b.mark = f
    BY <1>1 DEF Rows
  <1>3. desk' = [desk EXCEPT ![NextId] = b] BY DEF Insert, a
  <1> HIDE DEF b
  <1> DEFINE n == NextId
  <1>4. n \in Nat /\ \A k \in Ids : desk[k].status # "none" => k < n BY NextIdIs
  <1>5. desk' = [desk EXCEPT ![n] = b] /\ n \in Ids BY <1>3
  <1> HIDE DEF n
  <1>6. desk' \in [Ids -> Rows] /\ desk'[n] = b /\ \A i \in Ids \ {n} : desk'[i] = desk[i]
    BY <1>2, <1>5 DEF TypeOK
  <1>7. \A i \in Filed : i \in Ids /\ i < n /\ i # n BY <1>4 DEF Filed, Ids
  <1>8. Filed' = Filed \union {n}
    <2>1. n \in Filed' BY <1>2, <1>5, <1>6 DEF Filed
    <2>2. \A i \in Ids \ {n} : i \in Filed' <=> i \in Filed BY <1>6 DEF Filed
    <2>3. Filed' \subseteq Ids /\ Filed \subseteq Ids BY DEF Filed
    <2> QED BY <1>5, <2>1, <2>2, <2>3
  <1>9. \A k \in Ids : n < k => desk'[k].status = "none"
    <2> TAKE k \in Ids
    <2> HAVE n < k
    <2>1. k # n /\ k \in Nat BY <1>4 DEF Ids
    <2>2. desk[k].status = "none" BY <1>4, <2>1
    <2> QED BY <1>6, <2>1, <2>2
  <1> QED BY <1>2, <1>6, <1>7, <1>8, <1>9 DEF n

LEMMA InsertKeepsElders ==
  ASSUME IInv, handler.pc = "create", NextId \in Ids, Insert(handler.group)
  PROVE  Elders'
  <1> DEFINE f == handler.group
  <1>1. f \in Fingerprints /\ TypeOK BY DEF IInv, Shape
  <1> DEFINE n == NextId
  <1>2. /\ desk'[n].status = "open" /\ desk'[n].mark = f
        /\ \A i \in Ids \ {n} : desk'[i] = desk[i]
        /\ Filed' = Filed \union {n}
        /\ \A i \in Filed : i \in Ids /\ i < n /\ desk'[i] = desk[i]
        /\ \A k \in Ids : n < k => desk'[k].status = "none"
    BY <1>1, InsertIs
  <1> HIDE DEF n
  <1>3. \A i \in Filed : desk[i].mark = f => desk[i].status = "done" BY DEF IInv, Asked
  <1>4. ASSUME NEW i \in Filed
        PROVE  /\ desk'[i].mark \in Fingerprints
               /\ \A k \in Ids : (i < k /\ desk'[k].status # "none" /\ desk'[k].mark = desk'[i].mark)
                                     => desk'[i].status = "done"
    <2>1. desk'[i] = desk[i] BY <1>2
    <2>2. desk[i].mark \in Fingerprints BY DEF IInv, Elders
    <2>3. ASSUME NEW k \in Ids, i < k, desk'[k].status # "none", desk'[k].mark = desk'[i].mark
          PROVE  desk'[i].status = "done"
      <3>1. CASE k = n BY <1>2, <1>3, <2>1, <2>3, <3>1
      <3>2. CASE k # n
        <4>1. desk'[k] = desk[k] BY <1>2, <3>2
        <4> QED BY <2>1, <2>3, <4>1 DEF IInv, Elders
      <3> QED BY <3>1, <3>2
    <2> QED BY <2>1, <2>2, <2>3
  <1>5. /\ desk'[n].mark \in Fingerprints
        /\ \A k \in Ids : n < k => desk'[k].status = "none"
    BY <1>1, <1>2
  <1> QED BY <1>2, <1>4, <1>5 DEF Elders

LEMMA CreateKeeps ==
  ASSUME IInv, Create
  PROVE  IInv'
  <1> DEFINE f == handler.group
  <1>1. /\ handler.pc = "create" /\ NextId \in Ids /\ Insert(f)
        /\ UNCHANGED <<pending, queue, disk, edits, faults, forgot>>
    BY DEF Create
  <1>2. f \in Fingerprints /\ TypeOK /\ mem \in States /\ handler \in Handlers
    BY <1>1 DEF IInv, Shape, TypeOK
  <1>3. handler' \in Handlers /\ handler'.pc = "save" /\ handler'.group = f
    BY <1>2, GotoIs DEF Create
  <1> DEFINE n == NextId
  <1>4. /\ desk' \in [Ids -> Rows]
        /\ desk'[n].mark = f /\ desk'[n].age = 0
        /\ Filed' = Filed \union {n}
        /\ \A i \in Filed : i \in Ids /\ i < n /\ desk'[i] = desk[i]
    BY <1>1, <1>2, InsertIs
  <1>5. n \in Ids /\ n \in Nat BY <1>1, NextIdIs
  <1> DEFINE C == Recent \union {0}
  <1> DEFINE a == [Unknown EXCEPT !.seen = TRUE]
  <1> DEFINE b == [a EXCEPT !.task = n]
  <1> DEFINE e == [b EXCEPT !.lastCreated = 0]
  <1> DEFINE k == [mem EXCEPT !.created = C, !.last = 0, !.known[f] = e]
  <1>6. mem' = k BY DEF Create
  <1> HIDE DEF n
  <1>7. e \in Entries /\ e.lastCreated = 0
    <2>1. a \in Entries BY UnknownTyped DEF Entries
    <2> HIDE DEF a
    <2>2. b \in Entries BY <1>5, <2>1 DEF Entries
    <2> HIDE DEF b
    <2>3. e \in Entries BY <2>2, AgesAre DEF Entries
    <2>4. e.lastCreated = 0 BY <2>2 DEF Entries
    <2> QED BY <2>3, <2>4
  <1> HIDE DEF a, b, e
  <1>8. /\ C = mem.created \union {0} /\ C \in SUBSET (0 .. Hour - 1)
        /\ Cardinality(C) <= MaxPerHour
    <2>1. Recent = mem.created BY <1>2, RecentIs
    <2>2. mem.created \in SUBSET (0 .. Hour - 1) BY <1>2 DEF States
    <2>3. IsFiniteSet(mem.created) /\ Cardinality(mem.created) \in Nat BY <1>2, Counting
    <2>4. Cardinality(mem.created) < MaxPerHour BY <1>1 DEF IInv, Asked
    <2> DEFINE S == mem.created
    <2> HIDE DEF S
    <2>8. C = S \union {0} /\ IsFiniteSet(S) /\ Cardinality(S) \in Nat BY <2>1, <2>3 DEF S
    <2>9. Cardinality(C) \in {Cardinality(S), Cardinality(S) + 1} BY <2>8, FS_AddElement
    <2>5. Cardinality(C) <= Cardinality(mem.created) + 1 BY <2>8, <2>9 DEF S
    <2>6. Cardinality(C) \in Nat BY <2>8, <2>9
    <2>7. 0 \in 0 .. Hour - 1 BY Bounds
    <2> QED BY <2>1, <2>2, <2>3, <2>4, <2>5, <2>6, <2>7, Bounds
  <1> HIDE DEF C
  <1>9. k.created = C /\ k.last = 0 /\ k.known = [mem.known EXCEPT ![f] = e]
    BY <1>2 DEF States
  <1>10. k \in States BY <1>2, <1>7, <1>8, AgesAre DEF States
  <1> HIDE DEF k
  <1>11. TypeOK' BY <1>1, <1>2, <1>3, <1>4, <1>6, <1>8, <1>9, <1>10 DEF TypeOK
  <1>12. Shape' BY <1>1, <1>2, <1>3 DEF IInv, Shape
  <1>13. Elders' BY <1>1, InsertKeepsElders
  <1>14. Asked' BY <1>3 DEF Asked
  <1>15. \A i \in Filed : desk[i].age \in Ages /\ desk[i].mark \in Fingerprints
    BY <1>2 DEF TypeOK, Rows, Filed, IInv, Elders
  <1>16. Told'
    <2>1. ASSUME ~forgot, NEW i \in Filed
          PROVE  /\ mem'.last <= desk[i].age
                 /\ mem'.known[desk[i].mark].lastCreated <= desk[i].age
                 /\ desk[i].age < Hour => desk[i].age \in mem'.created
      <3>1. desk[i].age \in Nat /\ desk[i].mark \in Fingerprints BY <1>15, AgesAre
      <3>2. /\ mem.known[desk[i].mark].lastCreated <= desk[i].age
            /\ desk[i].age < Hour => desk[i].age \in mem.created
        BY <2>1 DEF IInv, Told
      <3>3. mem'.known[desk[i].mark].lastCreated \in {0, mem.known[desk[i].mark].lastCreated}
        BY <1>2, <1>6, <1>7, <1>9, <3>1 DEF States
      <3> QED BY <1>6, <1>8, <1>9, <3>1, <3>2, <3>3
    <2>2. /\ mem'.last <= 0 /\ mem'.known[f].lastCreated <= 0 /\ 0 \in mem'.created
      BY <1>2, <1>6, <1>7, <1>8, <1>9 DEF States
    <2> QED BY <1>1, <1>4, <2>1, <2>2 DEF Told
  <1>17. CooldownsKept'
    <2>1. ASSUME ~forgot, NEW i \in Filed
          PROVE  /\ desk[i].age - 0 >= Cooldown
                 /\ desk[i].mark = f => desk[i].age - 0 >= Recur
      <3>1. desk[i].age \in Nat /\ mem.last \in Nat BY <1>2, <1>15, AgesAre DEF States
      <3>2. mem.last <= desk[i].age BY <2>1 DEF IInv, Told
      <3>3. mem.last >= Cooldown /\ (desk[i].mark = f => desk[i].age >= Recur)
        BY <1>1, <2>1 DEF IInv, Asked
      <3> QED BY <3>1, <3>2, <3>3, Bounds
    <2>2. ASSUME ~forgot', NEW i \in Filed', NEW j \in Filed', i < j
          PROVE  \/ desk'[i].age = MaxAge
                 \/ /\ desk'[i].age - desk'[j].age >= Cooldown
                    /\ desk'[i].mark = desk'[j].mark => desk'[i].age - desk'[j].age >= Recur
      <3>1. ~forgot BY <1>1, <2>2
      <3>2. i \in Filed
        <4>1. CASE i = n
          <5>1. j \in Filed BY <1>4, <2>2, <4>1, <1>5
          <5>2. j < n /\ j \in Nat BY <1>4, <5>1 DEF Ids
          <5> QED BY <1>5, <2>2, <4>1, <5>2
        <4> QED BY <1>4, <2>2, <4>1
      <3>3. desk'[i] = desk[i] BY <1>4, <3>2
      <3>4. CASE j = n BY <1>4, <2>1, <3>1, <3>2, <3>3, <3>4
      <3>5. CASE j # n
        <4>1. j \in Filed /\ desk'[j] = desk[j] BY <1>4, <2>2, <3>5
        <4>2. LET apart == desk[i].age - desk[j].age
              IN  \/ desk[i].age = MaxAge
                  \/ apart >= Cooldown /\ (desk[i].mark = desk[j].mark => apart >= Recur)
          BY <2>2, <3>1, <3>2, <4>1 DEF IInv, CooldownsKept
        <4> QED BY <3>3, <4>1, <4>2
      <3> QED BY <3>4, <3>5
    <2> QED BY <2>2 DEF CooldownsKept
  <1> QED BY <1>1, <1>11, <1>12, <1>13, <1>14, <1>16, <1>17 DEF IInv, Counted

LEMMA CreateUnheardKeeps ==
  ASSUME IInv, CreateUnheard
  PROVE  IInv'
  <1> DEFINE f == handler.group
  <1>1. /\ handler.pc = "create" /\ NextId \in Ids /\ Insert(f)
        /\ handler' = Rest /\ forgot' = TRUE /\ faults < MaxFaults /\ faults' = faults + 1
        /\ UNCHANGED <<pending, queue, mem, disk, edits>>
    BY DEF CreateUnheard
  <1>2. f \in Fingerprints /\ TypeOK BY <1>1 DEF IInv, Shape
  <1>3. desk' \in [Ids -> Rows] BY <1>1, <1>2, InsertIs
  <1>4. faults' \in 0 .. MaxFaults BY <1>1, <1>2, Bounds DEF TypeOK
  <1>5. TypeOK' BY <1>1, <1>2, <1>3, <1>4, RestTyped DEF TypeOK
  <1>6. Shape' BY <1>1, RestTyped DEF IInv, Shape
  <1>7. Elders' BY <1>1, InsertKeepsElders
  <1>8. Asked' BY <1>1, RestTyped DEF Asked
  <1>9. Told' /\ CooldownsKept' BY <1>1 DEF Told, CooldownsKept
  <1> QED BY <1>1, <1>5, <1>6, <1>7, <1>8, <1>9 DEF IInv, Counted

LEMMA SaveStateKeeps ==
  ASSUME IInv, SaveState
  PROVE  IInv'
  <1>1. /\ disk' = mem /\ handler' = Rest
        /\ UNCHANGED <<pending, queue, mem, desk, edits, faults, forgot>>
    BY DEF SaveState
  <1>2. TypeOK' BY <1>1, RestTyped DEF IInv, TypeOK
  <1>3. Shape' BY <1>1, RestTyped DEF IInv, Shape
  <1>4. Elders' /\ Told' /\ CooldownsKept' BY <1>1, DeskStays DEF Remembering
  <1>5. Asked' BY <1>1, RestTyped DEF Asked
  <1>6. Counted' BY <1>1 DEF IInv, TypeOK, Counted
  <1> QED BY <1>2, <1>3, <1>4, <1>5, <1>6 DEF IInv

LEMMA CallFailsKeeps ==
  ASSUME IInv, CallFails
  PROVE  IInv'
  <1>1. /\ handler' = Rest /\ faults < MaxFaults /\ faults' = faults + 1
        /\ UNCHANGED <<pending, queue, mem, disk, desk, edits, forgot>>
    BY DEF CallFails
  <1>2. TypeOK' BY <1>1, RestTyped, Bounds DEF IInv, TypeOK
  <1>3. Shape' BY <1>1, RestTyped DEF IInv, Shape
  <1>4. Elders' /\ Told' /\ CooldownsKept' BY <1>1, DeskStays DEF Remembering
  <1>5. Asked' BY <1>1, RestTyped DEF Asked
  <1> QED BY <1>1, <1>2, <1>3, <1>4, <1>5 DEF IInv, Counted

LEMMA CrashKeeps ==
  ASSUME IInv, Crash
  PROVE  IInv'
  <1>1. PICK left \in (IF handler.pc = "save" THEN {disk, mem, NoState} ELSE {disk}) :
          mem' = left /\ disk' = left /\ forgot' = (forgot \/ Filings(left) # Filings(mem))
    BY DEF Crash
  <1>2. /\ handler' = Rest /\ pending' = <<>> /\ queue' = <<>>
        /\ faults < MaxFaults /\ faults' = faults + 1 /\ UNCHANGED <<desk, edits>>
    BY DEF Crash
  <1>3. left \in {disk, mem, NoState} BY <1>1
  <1>4. left \in States /\ Cardinality(left.created) <= MaxPerHour
    BY <1>3, NoStateTyped, Bounds DEF IInv, TypeOK, Counted
  <1>5. forgot' \in BOOLEAN BY <1>1 DEF IInv, TypeOK
  <1>6. faults' \in 0 .. MaxFaults BY <1>2, Bounds DEF IInv, TypeOK
  <1>7. TypeOK' BY <1>1, <1>2, <1>4, <1>5, <1>6, RestTyped, Bounds DEF IInv, TypeOK
  <1>8. Shape' BY <1>2, RestTyped DEF Shape
  <1>9. Remembering
    <2> SUFFICES ASSUME ~forgot' PROVE
            ~forgot /\ mem'.created = mem.created /\ mem'.last = mem.last
            /\ \A f \in Fingerprints : mem'.known[f].lastCreated = mem.known[f].lastCreated
      BY DEF Remembering
    <2>1. ~forgot /\ Filings(mem') = Filings(mem) BY <1>1
    <2> DEFINE at(s) == [f \in Fingerprints |-> s.known[f].lastCreated]
    <2>2. mem'.created = mem.created /\ mem'.last = mem.last /\ at(mem') = at(mem)
      BY <2>1 DEF Filings
    <2>3. ASSUME NEW f \in Fingerprints
          PROVE  mem'.known[f].lastCreated = mem.known[f].lastCreated
      <3>1. at(mem')[f] = mem'.known[f].lastCreated /\ at(mem)[f] = mem.known[f].lastCreated
        OBVIOUS
      <3> HIDE DEF at
      <3> QED BY <2>2, <3>1
    <2> QED BY <2>1, <2>2, <2>3
  <1>10. Elders' /\ Told' /\ CooldownsKept' BY <1>2, <1>9, DeskStays
  <1>11. Asked' BY <1>2, RestTyped DEF Asked
  <1>12. Counted' BY <1>1, <1>4 DEF Counted
  <1> QED BY <1>7, <1>8, <1>10, <1>11, <1>12 DEF IInv

-----------------------------------------------------------------------------
(* The desk. *)

LEMMA DeskKeeps ==
  ASSUME IInv, UNCHANGED <<pending, queue, handler, mem, disk, faults, forgot>>,
         edits' \in 0 .. MaxEdits, desk' \in [Ids -> Rows], Settling
  PROVE  IInv'
  <1>1. TypeOK' BY DEF IInv, TypeOK
  <1>2. Shape' BY DEF IInv, Shape
  <1>3. Elders' /\ Told' /\ CooldownsKept' /\ Asked' BY DeskSettles
  <1> QED BY <1>1, <1>2, <1>3 DEF IInv, Counted

LEMMA CloseKeeps ==
  ASSUME IInv, NEW i \in Ids, Close(i)
  PROVE  IInv'
  <1>1. /\ desk[i].status = "open" /\ desk' = [desk EXCEPT ![i].status = "done"]
        /\ UNCHANGED <<pending, queue, handler, mem, disk, edits, faults, forgot>>
    BY DEF Close
  <1> DEFINE r == [desk[i] EXCEPT !.status = "done"]
  <1>2. desk \in [Ids -> Rows] /\ desk[i] \in Rows /\ edits' \in 0 .. MaxEdits
    BY <1>1 DEF IInv, TypeOK
  <1>3. /\ r \in Rows /\ r.status = "done" /\ r.mark = desk[i].mark /\ r.age = desk[i].age
        /\ r.touched = desk[i].touched
    BY <1>2 DEF Rows
  <1>4. desk' = [desk EXCEPT ![i] = r] BY <1>1
  <1> HIDE DEF r
  <1>5. /\ desk' \in [Ids -> Rows] /\ desk'[i] = r
        /\ \A k \in Ids : k # i => desk'[k] = desk[k]
    BY <1>2, <1>3, <1>4
  <1>6. Settling BY <1>1, <1>3, <1>5 DEF Settling, Filed
  <1> QED BY <1>1, <1>2, <1>5, <1>6, DeskKeeps

LEMMA EditKeeps ==
  ASSUME IInv, NEW i \in Ids, Edit(i)
  PROVE  IInv'
  <1>1. /\ edits < MaxEdits /\ edits' = edits + 1
        /\ UNCHANGED <<pending, queue, handler, mem, disk, faults, forgot>>
    BY DEF Edit
  <1>2. desk \in [Ids -> Rows] /\ desk[i] \in Rows /\ edits' \in 0 .. MaxEdits
    BY <1>1, Bounds DEF IInv, TypeOK
  (* The row is touched or gone; whatever mark it bears it bore before. *)
  <1> SUFFICES ASSUME NEW r \in Rows, desk' = [desk EXCEPT ![i] = r],
                      r.status = "none" \/ r.touched,
                      (r.status # "none" /\ r.mark # <<>>) =>
                          desk[i].status # "none" /\ desk[i].mark = r.mark
               PROVE  IInv'
    <2>1. CASE /\ desk[i].status = "done"
               /\ desk' = [desk EXCEPT ![i].status = "open", ![i].touched = TRUE]
      <3> DEFINE a == [desk[i] EXCEPT !.status = "open"]
      <3> DEFINE b == [a EXCEPT !.touched = TRUE]
      <3>1. a \in Rows /\ a.mark = desk[i].mark BY <1>2 DEF Rows
      <3>2. desk' = [desk EXCEPT ![i] = b] BY <1>2, <2>1
      <3> HIDE DEF a
      <3>3. b \in Rows /\ b.mark = desk[i].mark /\ b.touched BY <3>1 DEF Rows
      <3> HIDE DEF b
      <3> QED BY <2>1, <3>2, <3>3
    <2>2. CASE /\ desk[i].status # "none" /\ desk[i].mark # <<>>
               /\ desk' = [desk EXCEPT ![i].mark = <<>>, ![i].touched = TRUE]
      <3> DEFINE a == [desk[i] EXCEPT !.mark = <<>>]
      <3> DEFINE b == [a EXCEPT !.touched = TRUE]
      <3>1. a \in Rows /\ a.mark = <<>> BY <1>2 DEF Rows
      <3>2. desk' = [desk EXCEPT ![i] = b] BY <1>2, <2>2
      <3> HIDE DEF a
      <3>3. b \in Rows /\ b.mark = <<>> /\ b.touched BY <3>1 DEF Rows
      <3> HIDE DEF b
      <3> QED BY <3>2, <3>3
    <2>3. CASE desk' = [desk EXCEPT ![i] = NoTask]
      <3>1. NoTask.status = "none" BY DEF NoTask
      <3> QED BY <2>3, <3>1, NoTaskTyped
    <2>4. CASE desk' = [desk EXCEPT ![i] = [NoTask EXCEPT !.status = "open", !.touched = TRUE]]
      <3> DEFINE a == [NoTask EXCEPT !.status = "open"]
      <3> DEFINE b == [a EXCEPT !.touched = TRUE]
      <3>1. a \in Rows /\ a.mark = <<>> BY NoTaskTyped DEF NoTask, Rows
      <3>2. desk' = [desk EXCEPT ![i] = b] BY <2>4
      <3> HIDE DEF a
      <3>3. b \in Rows /\ b.mark = <<>> /\ b.touched BY <3>1 DEF Rows
      <3> HIDE DEF b
      <3> QED BY <3>2, <3>3
    <2> QED BY <2>1, <2>2, <2>3, <2>4 DEF Edit
  <1>3. /\ desk' \in [Ids -> Rows] /\ desk'[i] = r
        /\ \A k \in Ids : k # i => desk'[k] = desk[k]
    BY <1>2
  <1>4. Settling BY <1>3 DEF Settling, Filed
  <1> QED BY <1>1, <1>2, <1>3, <1>4, DeskKeeps

-----------------------------------------------------------------------------
(* The clock. *)

AgedEntry(e) == [e EXCEPT !.lastCreated = Older(@), !.at = Older(@)]
LEMMA AgedEntryIs ==
  ASSUME NEW e \in Entries
  PROVE  AgedEntry(e) \in Entries /\ AgedEntry(e).lastCreated = Older(e.lastCreated)
  <1>1. e.lastCreated \in Ages /\ e.at \in Ages BY DEF Entries
  <1> DEFINE x == Older(e.lastCreated)
  <1> DEFINE y == Older(e.at)
  <1> DEFINE a == [e EXCEPT !.lastCreated = x]
  <1> DEFINE b == [a EXCEPT !.at = y]
  <1>2. AgedEntry(e) = b BY DEF AgedEntry, Entries
  <1>3. x \in Ages /\ y \in Ages BY <1>1, OlderIs
  <1> HIDE DEF x, y
  <1>4. a \in Entries /\ a.lastCreated = x BY <1>3 DEF Entries
  <1> HIDE DEF a
  <1>5. b \in Entries /\ b.lastCreated = x BY <1>3, <1>4 DEF Entries
  <1> HIDE DEF b
  <1> QED BY <1>2, <1>5 DEF x

(* Creations grow older and drop out: never do there get more of them. *)
LEMMA AgedIs ==
  ASSUME NEW s \in States
  PROVE  /\ Aged(s) \in States
         /\ Cardinality(Aged(s).created) <= Cardinality(s.created)
         /\ Aged(s).last = Older(s.last)
         /\ \A f \in Fingerprints : Aged(s).known[f].lastCreated = Older(s.known[f].lastCreated)
         /\ \A a \in s.created : a + 1 < Hour => a + 1 \in Aged(s).created
  <1> DEFINE kn == [f \in Fingerprints |-> AgedEntry(s.known[f])]
  <1> DEFINE S == s.created
  <1> DEFINE T == {age + 1 : age \in {a \in S : a + 1 < Hour}}
  <1>1. Aged(s) = [known |-> kn, created |-> T, last |-> Older(s.last)] BY DEF Aged, AgedEntry
  <1>2. /\ s.known \in [Fingerprints -> Entries] /\ S \in SUBSET (0 .. Hour - 1) /\ s.last \in Ages
    BY DEF States
  <1>3. IsFiniteSet(S) /\ Cardinality(S) \in Nat /\ S \subseteq Nat BY Counting
  <1>4. kn \in [Fingerprints -> Entries]
        /\ \A f \in Fingerprints : kn[f].lastCreated = Older(s.known[f].lastCreated)
    BY <1>2, AgedEntryIs
  <1>5. \A a \in S : a + 1 < Hour => a + 1 \in T OBVIOUS
  <1>6. \A b \in T : b \in Nat /\ b - 1 \in S /\ b < Hour BY <1>3
  <1> HIDE DEF S, T, kn
  <1>7. T \in SUBSET (0 .. Hour - 1) BY <1>6, Bounds
  <1>8. Cardinality(T) <= Cardinality(S)
    <2> DEFINE g == [b \in T |-> b - 1]
    <2>1. g \in [T -> S] BY <1>6
    <2>2. \A b, c \in T : g[b] = g[c] => b = c BY <1>6
    <2> HIDE DEF g
    <2>3. g \in Injection(T, S) BY <2>1, <2>2, Fun_IsInj
    <2> QED BY <1>3, <2>3, FS_Injection
  <1>9. Older(s.last) \in Ages BY <1>2, OlderIs
  <1>10. Aged(s) \in States BY <1>1, <1>4, <1>7, <1>9 DEF States
  <1>11. Aged(s).known = kn /\ Aged(s).created = T /\ Aged(s).last = Older(s.last) BY <1>1
  <1> QED BY <1>4, <1>5, <1>8, <1>10, <1>11 DEF S

LEMMA OlderGrows ==
  ASSUME NEW a \in Ages, NEW b \in Ages, a <= b
  PROVE  Older(a) <= Older(b)
  BY MaxAgeIs DEF Older, Ages

LEMMA TickKeeps ==
  ASSUME IInv, Tick
  PROVE  IInv'
  <1>1. /\ handler.pc = "idle" /\ mem' = Aged(mem) /\ disk' = Aged(disk)
        /\ UNCHANGED <<pending, queue, handler, edits, faults, forgot>>
    BY DEF Tick
  <1>2. mem \in States /\ disk \in States /\ desk \in [Ids -> Rows] BY DEF IInv, TypeOK
  <1>3. /\ mem' \in States /\ disk' \in States
        /\ Cardinality(mem'.created) <= MaxPerHour /\ Cardinality(disk'.created) <= MaxPerHour
    <2>1. /\ Aged(mem) \in States /\ Aged(disk) \in States
          /\ Cardinality(Aged(mem).created) <= Cardinality(mem.created)
          /\ Cardinality(Aged(disk).created) <= Cardinality(disk.created)
      BY <1>2, AgedIs
    <2>2. /\ Cardinality(mem.created) \in Nat /\ Cardinality(disk.created) \in Nat
          /\ Cardinality(Aged(mem).created) \in Nat /\ Cardinality(Aged(disk).created) \in Nat
      BY <1>2, <2>1, Counting
    <2>3. Cardinality(mem.created) <= MaxPerHour /\ Cardinality(disk.created) <= MaxPerHour
      BY DEF IInv, TypeOK, Counted
    <2> QED BY <1>1, <2>1, <2>2, <2>3, Bounds
  <1>4. ASSUME NEW i \in Ids
        PROVE  /\ desk'[i] \in Rows /\ desk'[i].status = desk[i].status
               /\ desk'[i].mark = desk[i].mark /\ desk'[i].touched = desk[i].touched
               /\ desk[i].status # "none" => desk'[i].age = Older(desk[i].age)
    <2> DEFINE a == IF desk[i].status = "none" THEN 0 ELSE Older(desk[i].age)
    <2>1. desk'[i] = [desk[i] EXCEPT !.age = a] BY DEF Tick
    <2>2. desk[i] \in Rows /\ desk[i].age \in Ages BY <1>2 DEF Rows
    <2>3. a \in Ages BY <2>2, OlderIs, AgesAre
    <2>4. desk[i].status # "none" => a = Older(desk[i].age) OBVIOUS
    <2> HIDE DEF a
    <2> QED BY <2>1, <2>2, <2>3, <2>4 DEF Rows
  <1>5. desk' \in [Ids -> Rows] BY <1>4 DEF Tick
  <1>6. Filed' = Filed BY <1>4 DEF Filed
  <1>7. \A i \in Filed : /\ i \in Ids /\ desk[i].age \in Ages /\ desk[i].mark \in Fingerprints
                         /\ desk'[i].age = Older(desk[i].age) /\ desk'[i].mark = desk[i].mark
                         /\ desk'[i].status = desk[i].status
    BY <1>2, <1>4 DEF Rows, Filed, IInv, Elders
  <1>8. TypeOK' BY <1>1, <1>3, <1>5 DEF IInv, TypeOK
  <1>9. Shape' BY <1>1 DEF IInv, Shape
  <1>10. Counted' BY <1>3 DEF Counted
  <1>11. Elders' BY <1>4, <1>6, <1>7 DEF IInv, Elders
  <1>12. Asked' BY <1>1 DEF Asked
  <1>13. Told'
    <2> SUFFICES ASSUME ~forgot, NEW i \in Filed
                 PROVE  /\ mem'.last <= desk'[i].age
                        /\ mem'.known[desk'[i].mark].lastCreated <= desk'[i].age
                        /\ desk'[i].age < Hour => desk'[i].age \in mem'.created
      BY <1>1, <1>6 DEF Told
    <2> DEFINE age == desk[i].age
    <2> DEFINE f == desk[i].mark
    <2>1. age \in Ages /\ f \in Fingerprints /\ desk'[i].age = Older(age) /\ desk'[i].mark = f
      BY <1>7
    <2>2. /\ mem.last <= age /\ mem.known[f].lastCreated <= age
          /\ age < Hour => age \in mem.created
      BY DEF IInv, Told
    <2>3. mem.last \in Ages /\ mem.known[f].lastCreated \in Ages
      BY <1>2, <2>1 DEF States, Entries
    <2>4. /\ mem'.last = Older(mem.last)
          /\ mem'.known[f].lastCreated = Older(mem.known[f].lastCreated)
          /\ \A a \in mem.created : a + 1 < Hour => a + 1 \in mem'.created
      BY <1>1, <1>2, <2>1, AgedIs
    <2> HIDE DEF age, f
    <2>5. mem'.last <= Older(age) /\ mem'.known[f].lastCreated <= Older(age)
      BY <2>1, <2>2, <2>3, <2>4, OlderGrows
    <2>6. ASSUME Older(age) < Hour PROVE Older(age) \in mem'.created
      <3>1. age \in Nat /\ (age < MaxAge \/ age = MaxAge) BY <2>1, MaxAgeIs DEF Ages
      <3>2. Older(age) = age + 1 /\ age < Hour BY <2>1, <2>6, <3>1, OlderIs, MaxAgeIs, Bounds
      <3> QED BY <2>2, <2>4, <2>6, <3>2
    <2> QED BY <2>1, <2>5, <2>6
  <1>14. CooldownsKept'
    <2> SUFFICES ASSUME ~forgot, NEW i \in Filed, NEW j \in Filed, i < j
                 PROVE  \/ desk'[i].age = MaxAge
                        \/ /\ desk'[i].age - desk'[j].age >= Cooldown
                           /\ desk'[i].mark = desk'[j].mark => desk'[i].age - desk'[j].age >= Recur
      BY <1>1, <1>6 DEF CooldownsKept
    <2> DEFINE a == desk[i].age
    <2> DEFINE b == desk[j].age
    <2> DEFINE same == desk[i].mark = desk[j].mark
    <2>1. /\ a \in Ages /\ b \in Ages /\ desk'[i].age = Older(a) /\ desk'[j].age = Older(b)
          /\ desk'[i].mark = desk'[j].mark <=> same
      BY <1>7
    <2>2. a = MaxAge \/ (a - b >= Cooldown /\ (same => a - b >= Recur))
      BY DEF IInv, CooldownsKept
    <2> HIDE DEF a, b, same
    <2>3. CASE a = MaxAge BY <2>1, <2>3, OlderIs
    <2>4. CASE a # MaxAge
      <3>1. a \in Nat /\ b \in Nat /\ a < MaxAge BY <2>1, <2>4, MaxAgeIs DEF Ages
      <3>2. a - b >= Cooldown /\ (same => a - b >= Recur) BY <2>2, <2>4
      <3>3. b < MaxAge BY <3>1, <3>2, Bounds, MaxAgeIs
      <3>4. Older(a) = a + 1 /\ Older(b) = b + 1 BY <2>1, <3>1, <3>3, OlderIs
      <3>5. Older(a) - Older(b) = a - b BY <3>1, <3>4
      <3> QED BY <2>1, <3>2, <3>5
    <2> QED BY <2>3, <2>4
  <1> QED BY <1>8, <1>9, <1>10, <1>11, <1>12, <1>13, <1>14 DEF IInv

-----------------------------------------------------------------------------
LEMMA InitHolds == Init => IInv
  <1> SUFFICES ASSUME Init PROVE IInv
    OBVIOUS
  <1>1. Filed = {} BY DEF Init, NoTask, Filed
  <1>2. desk \in [Ids -> Rows] BY NoTaskTyped DEF Init
  <1>3. TypeOK
    <2>1. pending \in Seq(Lines) /\ Len(pending) = 0 /\ queue \in Seq(Seq(Lines) \ {<<>>})
      BY DEF Init
    <2>2. handler \in Handlers /\ mem \in States /\ disk \in States
      BY NoStateTyped, RestTyped DEF Init
    <2>3. Cardinality(mem.created) = 0 BY NoStateTyped DEF Init
    <2>6. edits = 0 /\ faults = 0 BY DEF Init
    <2>7. forgot \in BOOLEAN BY DEF Init
    <2>4. edits \in 0 .. MaxEdits /\ faults \in 0 .. MaxFaults BY <2>6, Bounds
    <2>5. 0 <= MaxLines /\ 0 <= MaxPerHour BY Bounds
    <2> QED BY <1>2, <2>1, <2>2, <2>3, <2>4, <2>5, <2>7 DEF TypeOK
  <1>4. Shape BY RestTyped DEF Init, Shape
  <1>5. Counted BY NoStateTyped, Bounds DEF Init, Counted
  <1>6. Elders /\ Told /\ CooldownsKept BY <1>1 DEF Elders, Told, CooldownsKept
  <1>7. Asked BY RestTyped DEF Init, Asked
  <1> QED BY <1>3, <1>4, <1>5, <1>6, <1>7 DEF IInv

LEMMA StutterKeeps ==
  ASSUME IInv, UNCHANGED vars
  PROVE  IInv'
  <1>1. UNCHANGED <<pending, queue, handler, mem, disk, desk, edits, faults, forgot>> BY DEF vars
  <1>2. TypeOK' /\ Shape' /\ Counted' BY <1>1 DEF IInv, TypeOK, Shape, Counted
  <1>3. Settling BY <1>1 DEF Settling, Filed
  <1> QED BY <1>1, <1>2, <1>3, DeskSettles DEF IInv

LEMMA NextKeeps == IInv /\ [Next]_vars => IInv'
  <1> SUFFICES ASSUME IInv, [Next]_vars PROVE IInv'
    OBVIOUS
  <1>1. ASSUME NEW line \in Lines, Feed(line) PROVE IInv' BY <1>1, FeedKeeps
  <1>2. ASSUME NEW i \in Ids, Close(i) \/ Edit(i) PROVE IInv' BY <1>2, CloseKeeps, EditKeeps
  <1>3. CASE Quiet BY <1>3, QuietKeeps
  <1>4. CASE Begin BY <1>4, BeginKeeps
  <1>5. CASE FindByMarker BY <1>5, FindByMarkerKeeps
  <1>6. CASE FindById BY <1>6, FindByIdKeeps
  <1>7. CASE Create BY <1>7, CreateKeeps
  <1>8. CASE CreateUnheard BY <1>8, CreateUnheardKeeps
  <1>9. CASE SaveState BY <1>9, SaveStateKeeps
  <1>10. CASE CallFails BY <1>10, CallFailsKeeps
  <1>11. CASE Crash BY <1>11, CrashKeeps
  <1>12. CASE Tick BY <1>12, TickKeeps
  <1>13. CASE UNCHANGED vars BY <1>13, StutterKeeps
  <1> QED
    BY <1>1, <1>2, <1>3, <1>4, <1>5, <1>6, <1>7, <1>8, <1>9, <1>10, <1>11, <1>12, <1>13 DEF Next

(* The inductive invariant holds of every sentinel. *)
THEOREM Invariance == Spec => []IInv
  BY InitHolds, NextKeeps, PTL DEF Spec

(* Every variable keeps its type; with it no group outgrows maxLines and   *)
(* the memory never counts more than maxTasksPerHour creations.            *)
THEOREM TypeCorrect == Spec => []TypeOK
  <1>1. IInv => TypeOK BY DEF IInv
  <1> QED BY <1>1, Invariance, PTL

(* handleGroup: whatever is lost between sentinel, desk and file, and      *)
(* whatever people do to other tasks, two tasks that it filed with one     *)
(* fingerprint are never both open.                                        *)
THEOREM OneErrorOneTask == Spec => []NoSecondTask
  <1>1. IInv => NoSecondTask
    <2> SUFFICES ASSUME IInv, NEW i \in Filed, NEW j \in Filed, i # j, desk[i].mark = desk[j].mark
                 PROVE  desk[i].status = "done" \/ desk[j].status = "done"
      BY DEF NoSecondTask
    <2>1. i \in Nat /\ j \in Nat /\ i \in Ids /\ j \in Ids BY DEF Filed, Ids
    <2>2. desk[i].status # "none" /\ desk[j].status # "none" BY DEF Filed
    <2>3. CASE i < j BY <2>1, <2>2, <2>3 DEF IInv, Elders
    <2>4. CASE j < i BY <2>1, <2>2, <2>4 DEF IInv, Elders
    <2> QED BY <2>1, <2>3, <2>4
  <1> QED BY <1>1, Invariance, PTL

(* handleGroup: the pause of a container and the cooldown of a fingerprint *)
(* hold across restarts, as long as no creation was lost to the file.      *)
THEOREM CooldownsAreKept == Spec => []CooldownsKept
  <1>1. IInv => CooldownsKept BY DEF IInv
  <1> QED BY <1>1, Invariance, PTL

(* handleGroup: no hour sees more tasks than maxTasksPerHour, across       *)
(* restarts as well: each task of the hour is one of the creations counted.*)
THEOREM HourIsLimited == Spec => []HourlyLimit
  <1>1. IInv => HourlyLimit
    <2> DEFINE S == {i \in Filed : desk[i].age < Hour}
    <2> SUFFICES ASSUME IInv, ~forgot PROVE Cardinality(S) <= MaxPerHour
      BY DEF HourlyLimit
    <2>1. \A i \in S : /\ i \in Filed /\ i \in Nat /\ desk[i].age \in Nat
                       /\ desk[i].age \in mem.created /\ desk[i].age # MaxAge
      <3> TAKE i \in S
      <3>1. i \in Filed /\ i \in Ids /\ desk[i].age < Hour BY DEF Filed
      <3>2. desk[i].age \in Nat BY <3>1, AgesAre DEF IInv, TypeOK, Rows
      <3>3. desk[i].age \in mem.created BY <3>1 DEF IInv, Told
      <3>4. desk[i].age # MaxAge BY <3>1, <3>2, MaxAgeIs, Bounds
      <3> QED BY <3>1, <3>2, <3>3, <3>4 DEF Ids
    <2>2. ASSUME NEW i \in S, NEW j \in S, i < j PROVE desk[i].age # desk[j].age
      <3>1. desk[i].age - desk[j].age >= Cooldown BY <2>1, <2>2 DEF IInv, CooldownsKept
      <3>2. desk[i].age \in Nat /\ desk[j].age \in Nat BY <2>1
      <3> QED BY <3>1, <3>2, Bounds
    <2> DEFINE g == [i \in S |-> desk[i].age]
    <2>3. g \in [S -> mem.created] BY <2>1
    <2>4. ASSUME NEW i \in S, NEW j \in S, g[i] = g[j] PROVE i = j
      <3>1. desk[i].age = desk[j].age BY <2>4
      <3>2. i \in Nat /\ j \in Nat BY <2>1
      <3>3. ~(i < j) /\ ~(j < i) BY <2>2, <3>1
      <3> QED BY <3>2, <3>3
    <2>5. /\ IsFiniteSet(mem.created) /\ Cardinality(mem.created) \in Nat
          /\ Cardinality(mem.created) <= MaxPerHour
      BY Counting DEF IInv, TypeOK
    <2> HIDE DEF S, g
    <2>6. g \in Injection(S, mem.created) BY <2>3, <2>4, Fun_IsInj
    <2>7. IsFiniteSet(S) /\ Cardinality(S) <= Cardinality(mem.created) BY <2>5, <2>6, FS_Injection
    <2>8. Cardinality(S) \in Nat BY <2>7, FS_CardinalityType
    <2> QED BY <2>5, <2>7, <2>8, Bounds
  <1> QED BY <1>1, Invariance, PTL

=============================================================================
