---------------------------- MODULE HostGates_proofs ----------------------------
(***************************************************************************)
(* Proofs about HostGates, for any processes, requests and number of slots *)
(* and any number of deaths and errors.                                    *)
(***************************************************************************)
EXTENDS HostGates, FiniteSetTheorems, TLAPS

USE GateAssumption

(* How far a request is and the files its process believes it holds.       *)
Trying == {"open", "sign", "look", "remove"}
Acquiring == Trying \union {"pending", "sweep", "scan", "wait"}

(* A pass is over files that are not held, the announcement by itself.     *)
Passes(g, mine) ==
    g.pc \in Trying => /\ g.todo # {}
                       /\ g.todo = {Pending} \/ g.todo \subseteq Slots
                       /\ g.todo \intersect mine = {}

(* Only a full vitest holds anything before it runs: to scan it has the    *)
(* whole host.                                                             *)
Holds(g, mine) ==
    /\ g.pc = "idle" => mine = {}
    /\ g.pc \in Acquiring /\ g.kind # "vitest" => mine = {} /\ Pending \notin g.todo
    /\ g.pc = "sweep" => Pending \notin mine
    /\ g.pc = "scan" /\ g.kind = "vitest" => Slots \subseteq mine
    /\ g.pc = "marker" => g.kind = "vitest" /\ Slots \subseteq mine
    /\ g.pc \in {"giveup", "throw", "release"} => mine # {}
    /\ g.pc = "run" => \/ mine = {}
                       \/ \E f \in Slots : mine = {f}
                       \/ g.kind = "vitest" /\ mine = Slots

Good(g, mine) == Passes(g, mine) /\ Holds(g, mine)

(* Whoever believes it holds a file, or has just created it, is its owner  *)
(* or was robbed of it.                                                    *)
Mine ==
    \A p \in Procs, f \in Files :
        f \in held[p] \/ Creating(p, f) => owner[f] = p \/ <<p, f>> \in robbed

(* A file with a pid in it is there, and held by its living creator.       *)
SignedHeld ==
    \A f \in signed : owner[f] # Free /\ (owner[f] \in Procs => f \in held[owner[f]])

Inv == TypeOK /\ (\A p \in Procs : Good(gate[p], held[p])) /\ Mine /\ SignedHeld

-----------------------------------------------------------------------------
(* The least element of a set of naturals, and so the first of some files. *)

LessThan == {pair \in Nat \X Nat : pair[1] < pair[2]}

LEMMA LeastNat ==
  ASSUME NEW T, T \subseteq Nat, T # {}
  PROVE  \E m \in T : \A n \in T : m <= n
  <1>1. IsWellFoundedOn(LessThan, Nat)
    <2>1. LessThan = OpToRel(<, Nat) BY DEF LessThan, OpToRel
    <2> QED BY <2>1, NatLessThanWellFounded
  <1>2. PICK m \in T : \A n \in T : <<n, m>> \notin LessThan BY <1>1, WFMin
  <1>3. ASSUME NEW n \in T PROVE m <= n
    <2>1. m \in Nat /\ n \in Nat OBVIOUS
    <2>2. ~(n < m) BY <1>2, <2>1 DEF LessThan
    <2> QED BY <2>1, <2>2
  <1> QED BY <1>3

LEMMA FilesApart ==
  /\ Slots \subseteq Files /\ Pending \in Files /\ Pending \notin Slots
  /\ \A f \in Files : Rank(f) \in Nat
  <1>1. \A f \in DotnetSlots : f[2] \in Nat /\ f[1] = "dotnet" BY DEF DotnetSlots
  <1>2. Pending \notin DotnetSlots BY <1>1 DEF Pending
  <1> QED BY <1>1, <1>2 DEF Slots, Files, Pending, JsSlot, Rank

LEMMA FirstIsOne ==
  ASSUME NEW S, S \subseteq Files, S # {}
  PROVE  FirstOf(S) \in S
  <1> DEFINE T == {Rank(f) : f \in S}
  <1>1. T \subseteq Nat /\ T # {} BY FilesApart
  <1>2. PICK m \in T : \A n \in T : m <= n BY <1>1, LeastNat
  <1>3. PICK f \in S : Rank(f) = m BY <1>2
  <1>4. \A g \in S : Rank(f) <= Rank(g) BY <1>2, <1>3
  <1> QED BY <1>4 DEF FirstOf

LEMMA KindSlots == ASSUME NEW kind PROVE SlotsOf(kind) \subseteq Slots
  BY DEF SlotsOf, Slots
-----------------------------------------------------------------------------
(* What the steps make of a request. *)

Moved(g, pc, todo) == [g EXCEPT !.pc = pc, !.todo = todo, !.tries = 0]

LEMMA PcSet == ASSUME NEW g \in Request, NEW pc \in PCs PROVE [g EXCEPT !.pc = pc] \in Request
  BY DEF Request
LEMMA TodoSet ==
  ASSUME NEW g \in Request, NEW todo \in SUBSET Files
  PROVE  [g EXCEPT !.todo = todo] \in Request
  BY DEF Request
LEMMA TriesSet ==
  ASSUME NEW g \in Request
  PROVE  [g EXCEPT !.tries = 0] \in Request /\ [g EXCEPT !.tries = 1] \in Request
  BY DEF Request

LEMMA MovedFields ==
  ASSUME NEW g \in Request, NEW pc \in PCs, NEW todo \in SUBSET Files
  PROVE  /\ Moved(g, pc, todo) \in Request
         /\ Moved(g, pc, todo).pc = pc
         /\ Moved(g, pc, todo).todo = todo
         /\ Moved(g, pc, todo).kind = g.kind
  <1>1. [g EXCEPT !.pc = pc] \in Request BY PcSet
  <1>2. [[g EXCEPT !.pc = pc] EXCEPT !.todo = todo] \in Request BY <1>1, TodoSet
  <1>3. Moved(g, pc, todo) \in Request BY <1>2, TriesSet DEF Moved
  <1>4. /\ Moved(g, pc, todo).pc = pc
        /\ Moved(g, pc, todo).todo = todo
        /\ Moved(g, pc, todo).kind = g.kind
    BY DEF Moved, Request
  <1> QED BY <1>3, <1>4

LEMMA BeginGood ==
  ASSUME NEW g \in Request, NEW mine \in SUBSET Files, g.kind = "vitest" \/ mine = {}
  PROVE  Begin(g, mine) \in Request /\ Good(Begin(g, mine), mine) /\ Begin(g, mine).pc # "sign"
  <1> DEFINE b == Begin(g, mine)
             announce == g.kind = "vitest" /\ ~g.background /\ Pending \notin mine
             pc == CASE announce -> "open"
                     [] ~announce /\ (g.kind = "vitest" \/ Dotnet(g.kind)) -> "pending"
                     [] OTHER -> "scan"
             todo == IF announce THEN {Pending} ELSE {}
  <1>a. b = Moved(g, pc, todo) BY DEF Begin, Moved, Request
  <1>b. pc \in {"open", "pending", "scan"} /\ todo \in SUBSET Files BY FilesApart
  <1>c. pc = "open" => announce OBVIOUS
  <1>d. pc = "scan" => g.kind # "vitest" OBVIOUS
  <1>e. announce => g.kind = "vitest" /\ Pending \notin mine OBVIOUS
  <1>f. announce => pc = "open" OBVIOUS
  <1> HIDE DEF b, pc
  <1>g. pc \in PCs BY <1>b DEF PCs
  <1>h. b \in Request /\ b.pc = pc /\ b.todo = todo /\ b.kind = g.kind
    BY <1>a, <1>b, <1>g, MovedFields
  <1> HIDE DEF announce
  <1>1. b.pc \in {"open", "pending", "scan"} BY <1>b, <1>h
  <1>2. b.pc = "open" => b.kind = "vitest" /\ b.todo = {Pending} /\ Pending \notin mine
    BY <1>c, <1>e, <1>h
  <1>3. b.pc = "scan" => b.kind # "vitest" BY <1>d, <1>h
  <1>4. b.pc # "open" => b.todo = {} BY <1>f, <1>h
  <1>5. Good(b, mine) BY <1>h, <1>1, <1>2, <1>3, <1>4, FilesApart DEF Good, Passes, Holds, Trying, Acquiring
  <1> QED BY <1>h, <1>1, <1>5 DEF b

LEMMA TrySlotsGood ==
  ASSUME NEW g \in Request, NEW mine \in SUBSET Files, g.kind = "vitest" \/ mine = {}
  PROVE  /\ TrySlots(g, mine) \in Request
         /\ Good(TrySlots(g, mine), mine)
         /\ TrySlots(g, mine).pc # "sign"
  <1> DEFINE t == TrySlots(g, mine)
  <1>0. SlotsOf(g.kind) \subseteq Slots BY KindSlots
  <1> DEFINE rest == SlotsOf(g.kind) \ mine
             pc == IF rest = {} THEN "scan" ELSE "open"
  <1>a. t = Moved(g, pc, rest) BY DEF TrySlots, Moved, Request
  <1>b. rest \in SUBSET Files BY <1>0, FilesApart
  <1>c. g.kind = "vitest" => SlotsOf(g.kind) = Slots BY DEF SlotsOf, Dotnet
  <1> HIDE DEF t
  <1>d. pc \in PCs /\ pc \in {"open", "scan"} BY DEF PCs
  <1>e. (pc = "scan") = (rest = {}) OBVIOUS
  <1> HIDE DEF pc, rest
  <1>f. t \in Request /\ t.pc = pc /\ t.todo = rest /\ t.kind = g.kind
    BY <1>a, <1>b, <1>d, MovedFields
  <1>1. t \in Request /\ t.kind = g.kind /\ t.pc \in {"open", "scan"} BY <1>d, <1>f
  <1>2. t.todo = SlotsOf(g.kind) \ mine BY <1>f DEF rest
  <1>3. t.pc = "open" => t.todo # {} BY <1>e, <1>f
  <1>4. t.pc = "scan" /\ t.kind = "vitest" => Slots \subseteq mine
    BY <1>c, <1>e, <1>f DEF rest
  <1>5. Good(t, mine)
    BY <1>0, <1>1, <1>2, <1>3, <1>4, FilesApart DEF Good, Passes, Holds, Trying, Acquiring
  <1> QED BY <1>1, <1>5 DEF t

LEMMA AdmittedGood ==
  ASSUME NEW g \in Request, NEW mine \in SUBSET Files, g.kind = "vitest" \/ (mine = {} /\ Pending \notin g.todo)
  PROVE  /\ Admitted(g, mine) \in Request
         /\ Good(Admitted(g, mine), mine)
         /\ Admitted(g, mine).pc # "sign"
  <1>1. CASE g.kind = "vitest" BY <1>1, TrySlotsGood DEF Admitted
  <1>2. CASE g.kind # "vitest"
    <2> DEFINE a == [g EXCEPT !.pc = "scan"]
    <2>1. a \in Request /\ a.pc = "scan" /\ a.kind # "vitest" /\ Pending \notin a.todo BY <1>2 DEF Request, PCs
    <2>2. Admitted(g, mine) = a BY <1>2 DEF Admitted
    <2> HIDE DEF a
    <2>3. Good(a, mine) BY <1>2, <2>1 DEF Good, Passes, Holds, Trying, Acquiring
    <2> QED BY <2>1, <2>2, <2>3
  <1> QED BY <1>1, <1>2

LEMMA MissedGood ==
  ASSUME NEW g \in Request, NEW mine \in SUBSET Files, g.pc \in Trying, Good(g, mine)
  PROVE  Missed(g, mine) \in Request /\ Good(Missed(g, mine), mine) /\ Missed(g, mine).pc # "sign"
  <1> DEFINE m == Missed(g, mine)
             tried == FirstOf(g.todo)
  <1>0. g.todo \subseteq Files BY DEF Request
  <1>1. tried \in g.todo BY <1>0, FirstIsOne DEF Good, Passes
  <1> DEFINE rest == g.todo \ {tried}
             pc == CASE tried = Pending -> "pending"
                     [] tried # Pending /\ rest # {} -> "open"
                     [] OTHER -> "wait"
  <1>a. m = Moved(g, pc, rest) BY DEF Missed, Moved, Request
  <1>b. rest \in SUBSET Files BY <1>0
  <1>c. pc \in {"pending", "open", "wait"} OBVIOUS
  <1>d. pc = "open" => tried # Pending /\ rest # {} OBVIOUS
  <1> HIDE DEF m, pc, tried
  <1>e. pc \in PCs BY <1>c DEF PCs
  <1>f. m \in Request /\ m.pc = pc /\ m.todo = rest /\ m.kind = g.kind
    BY <1>a, <1>b, <1>e, MovedFields
  <1>2. m \in Request /\ m.kind = g.kind /\ m.pc \in {"pending", "open", "wait"}
        /\ m.todo = g.todo \ {tried}
    BY <1>c, <1>f
  <1>3. m.pc = "open" => tried # Pending /\ m.todo # {} BY <1>d, <1>f
  <1>4. Good(m, mine)
    BY <1>1, <1>2, <1>3, FilesApart DEF Good, Passes, Holds, Trying, Acquiring
  <1> QED BY <1>2, <1>4 DEF m

LEMMA GotGood ==
  ASSUME NEW g \in Request, NEW mine \in SUBSET Files, g.pc = "sign", Good(g, mine)
  PROVE  /\ Got(g, mine) \in Request
         /\ Good(Got(g, mine), mine \union {FirstOf(g.todo)})
         /\ Got(g, mine).pc # "sign"
  <1> DEFINE m == Got(g, mine)
             tried == FirstOf(g.todo)
             now == mine \union {tried}
  <1>0. g.todo \subseteq Files BY DEF Request
  <1>1. tried \in g.todo BY <1>0, FirstIsOne DEF Good, Passes, Trying
  <1> DEFINE rest == g.todo \ {tried}
             all == Slots \subseteq now
             left == IF g.kind = "vitest" THEN rest ELSE {}
             pc == CASE tried = Pending -> "pending"
                     [] tried # Pending /\ g.kind # "vitest" -> "run"
                     [] tried # Pending /\ g.kind = "vitest" /\ rest # {} -> "open"
                     [] OTHER -> IF all THEN "scan" ELSE "wait"
  <1>a. m = Moved(g, pc, left) BY DEF Got, Moved, Request
  <1>b. left \in SUBSET Files BY <1>0
  <1>c. tried = Pending => pc = "pending" OBVIOUS
  <1>d. tried # Pending /\ g.kind # "vitest" => pc = "run" OBVIOUS
  <1>e. tried # Pending /\ g.kind = "vitest" => pc \in {"open", "scan", "wait"} OBVIOUS
  <1>i. pc = "open" => rest # {} OBVIOUS
  <1>j. pc = "scan" => all OBVIOUS
  <1>k. pc \in {"pending", "run", "open", "scan", "wait"} OBVIOUS
  <1> HIDE DEF m, pc, tried
  <1>f. pc \in PCs BY <1>k DEF PCs
  <1>g. m \in Request /\ m.pc = pc /\ m.todo = left /\ m.kind = g.kind
    BY <1>a, <1>b, <1>f, MovedFields
  <1>2. /\ m \in Request /\ m.kind = g.kind
        /\ m.todo = IF g.kind = "vitest" THEN g.todo \ {tried} ELSE {}
    BY <1>g
  <1>3. CASE tried = Pending
    <2>1. m.pc = "pending" BY <1>3, <1>c, <1>g
    <2>2. Good(m, now)
      BY <1>1, <1>2, <1>3, <2>1 DEF Good, Passes, Holds, Trying, Acquiring
    <2> QED BY <1>2, <2>1, <2>2 DEF m, tried
  <1>4. CASE tried # Pending /\ g.kind # "vitest"
    <2>1. m.pc = "run" BY <1>4, <1>d, <1>g
    <2>2. mine = {} /\ tried \in Slots
      BY <1>1, <1>4 DEF Good, Passes, Holds, Trying, Acquiring
    <2>3. Good(m, now)
      BY <1>2, <2>1, <2>2 DEF Good, Passes, Holds, Trying, Acquiring
    <2> QED BY <1>2, <2>1, <2>3 DEF m, tried
  <1>5. CASE tried # Pending /\ g.kind = "vitest"
    <2>1. m.pc \in {"open", "scan", "wait"} BY <1>5, <1>e, <1>g
    <2>2. m.pc = "open" => m.todo # {} BY <1>5, <1>i, <1>g
    <2>3. m.pc = "scan" => Slots \subseteq now BY <1>j, <1>g
    <2>4. Good(m, now)
      BY <1>1, <1>2, <1>5, <2>1, <2>2, <2>3 DEF Good, Passes, Holds, Trying, Acquiring
    <2> QED BY <1>2, <2>1, <2>4 DEF m, tried
  <1> QED BY <1>3, <1>4, <1>5

LEMMA IdleGood == Idle \in Request /\ Good(Idle, {}) /\ Idle.pc = "idle"
  <1>1. Idle.pc = "idle" /\ Idle.todo = {} BY DEF Idle
  <1>2. Idle \in Request BY DEF Idle, Request, PCs, Kinds
  <1>3. Good(Idle, {}) BY <1>1 DEF Good, Passes, Holds, Trying, Acquiring
  <1> QED BY <1>1, <1>2, <1>3

LEMMA EndedGood ==
  ASSUME NEW g \in Request
  PROVE  Ended(g) \in Request /\ Good(Ended(g), {}) /\ Ended(g).pc # "sign"
  <1>1. CASE Ended(g) = Idle BY <1>1, IdleGood
  <1>2. CASE Ended(g) # Idle
    <2> DEFINE e == [Idle EXCEPT !.pc = "run", !.kind = g.kind]
    <2>1. Ended(g) = e BY <1>2 DEF Ended
    <2>2. e \in Request /\ e.pc = "run"
      <3>1. g.kind \in Kinds BY DEF Request
      <3>2. "run" \in PCs BY DEF PCs
      <3> QED BY <3>1, <3>2, IdleGood DEF Request
    <2> HIDE DEF e
    <2>3. Good(e, {}) BY <2>2 DEF Good, Passes, Holds, Trying, Acquiring
    <2> QED BY <2>1, <2>2, <2>3
  <1> QED BY <1>1, <1>2
-----------------------------------------------------------------------------
(* One step changes one request, what its process holds, and the files.    *)

(* The request of p is g afterwards and its process believes it holds mine. *)
Becomes(p, g, mine) ==
    /\ gate' = [gate EXCEPT ![p] = g]
    /\ held' = [held EXCEPT ![p] = mine]

LEMMA BecomesGood ==
  ASSUME Inv, NEW p \in Procs, NEW g \in Request, NEW mine \in SUBSET Files,
         Good(g, mine), Becomes(p, g, mine)
  PROVE  /\ gate' \in [Procs -> Request] /\ held' \in [Procs -> SUBSET Files]
         /\ \A q \in Procs : Good(gate'[q], held'[q])
         /\ gate'[p] = g /\ held'[p] = mine
         /\ \A q \in Procs \ {p} : gate'[q] = gate[q] /\ held'[q] = held[q]
  BY DEF Becomes, Inv, TypeOK

(* A step that leaves the files alone and does not leave p with a file it  *)
(* has just created.                                                       *)
LEMMA FilesKept ==
  ASSUME Inv, NEW p \in Procs, NEW g \in Request,
         Good(g, held[p]), Becomes(p, g, held[p]), g.pc # "sign",
         UNCHANGED <<owner, signed, robbed, faults>>
  PROVE  Inv'
  <1>1. /\ gate' \in [Procs -> Request] /\ held' \in [Procs -> SUBSET Files]
        /\ \A q \in Procs : Good(gate'[q], held'[q])
        /\ gate'[p] = g /\ held'[p] = held[p]
        /\ \A q \in Procs \ {p} : gate'[q] = gate[q] /\ held'[q] = held[q]
    <2>1. held[p] \in SUBSET Files BY DEF Inv, TypeOK
    <2> QED BY <2>1, BecomesGood
  <1>2. \A q \in Procs : held'[q] = held[q] BY <1>1
  <1>3. \A q \in Procs, f \in Files : Creating(q, f)' => Creating(q, f) BY <1>1 DEF Creating
  <1>4. Mine' BY <1>2, <1>3 DEF Inv, Mine
  <1>5. SignedHeld' BY <1>2 DEF Inv, SignedHeld
  <1>6. TypeOK' BY <1>1 DEF Inv, TypeOK
  <1> QED BY <1>1, <1>4, <1>5, <1>6 DEF Inv

(* A step that removes a file, which p holds no more.                      *)
LEMMA FileRemoved ==
  ASSUME Inv, NEW p \in Procs, NEW f \in Files, NEW g \in Request, NEW mine,
         mine = held[p] \ {f}, Good(g, mine), Becomes(p, g, mine), g.pc # "sign",
         Unlink(p, f), faults' = faults
  PROVE  Inv'
  <1>1. /\ gate' \in [Procs -> Request] /\ held' \in [Procs -> SUBSET Files]
        /\ \A q \in Procs : Good(gate'[q], held'[q])
        /\ gate'[p] = g /\ held'[p] = mine
        /\ \A q \in Procs \ {p} : gate'[q] = gate[q] /\ held'[q] = held[q]
    <2>1. mine \in SUBSET Files BY DEF Inv, TypeOK
    <2> QED BY <2>1, BecomesGood
  <1> DEFINE Robbed == {q \in Procs \ {p} : owner[f] = q /\ (f \in held[q] \/ Creating(q, f))}
  <1>2. /\ owner' = [owner EXCEPT ![f] = Free]
        /\ signed' = signed \ {f}
        /\ robbed' = (robbed \ {<<p, f>>}) \union (Robbed \X {f})
    BY DEF Unlink
  <1>3. TypeOK'
    BY <1>1, <1>2 DEF Inv, TypeOK
  <1>4. Mine'
    <2> SUFFICES ASSUME NEW q \in Procs, NEW h \in Files, h \in held'[q] \/ Creating(q, h)'
                 PROVE  owner'[h] = q \/ <<q, h>> \in robbed'
      BY DEF Mine
    <2>0. owner'[h] = IF h = f THEN Free ELSE owner[h] BY <1>2 DEF Inv, TypeOK
    <2>1. CASE q = p
      <3>1. h \in held[p] /\ h # f BY <1>1, <2>1 DEF Creating
      <3>2. owner[h] = p \/ <<p, h>> \in robbed BY <3>1 DEF Inv, Mine
      <3> QED BY <1>2, <2>0, <2>1, <3>1, <3>2
    <2>2. CASE q # p
      <3>1. h \in held[q] \/ Creating(q, h) BY <1>1, <2>2 DEF Creating
      <3>2. owner[h] = q \/ <<q, h>> \in robbed BY <3>1 DEF Inv, Mine
      <3>3. CASE h # f BY <1>2, <2>0, <2>2, <3>2, <3>3
      <3>4. CASE h = f BY <1>2, <2>2, <3>1, <3>2, <3>4
      <3> QED BY <3>3, <3>4
    <2> QED BY <2>1, <2>2
  <1>5. SignedHeld'
    <2> SUFFICES ASSUME NEW h \in signed' 
                 PROVE  owner'[h] # Free /\ (owner'[h] \in Procs => h \in held'[owner'[h]])
      BY DEF SignedHeld
    <2>1. h \in signed /\ h # f /\ h \in Files BY <1>2 DEF Inv, TypeOK
    <2>2. owner'[h] = owner[h] BY <1>2, <2>1 DEF Inv, TypeOK
    <2>3. owner[h] # Free /\ (owner[h] \in Procs => h \in held[owner[h]]) BY <2>1 DEF Inv, SignedHeld
    <2> QED BY <1>1, <2>1, <2>2, <2>3
  <1> QED BY <1>1, <1>3, <1>4, <1>5 DEF Inv
-----------------------------------------------------------------------------
(* Each step keeps the invariant. *)

LEMMA InitInv == Init => Inv
  <1> SUFFICES ASSUME Init PROVE Inv OBVIOUS
  <1>1. TypeOK BY IdleGood DEF Init, TypeOK
  <1>2. \A p \in Procs : Good(gate[p], held[p]) BY IdleGood DEF Init
  <1>3. Mine BY IdleGood DEF Init, Mine, Creating
  <1>4. SignedHeld BY DEF Init, SignedHeld
  <1> QED BY <1>1, <1>2, <1>3, <1>4 DEF Inv

LEMMA Typed ==
  ASSUME Inv, NEW p \in Procs
  PROVE  gate[p] \in Request /\ held[p] \in SUBSET Files /\ Good(gate[p], held[p])
  BY DEF Inv, TypeOK

LEMMA HeldAlready == ASSUME Inv, NEW p \in Procs PROVE held = [held EXCEPT ![p] = held[p]]
  BY DEF Inv, TypeOK

LEMMA AskKeeps ==
  ASSUME Inv, NEW p \in Procs, NEW a \in Asks, Ask(p, a[1], a[2])
  PROVE  Inv'
  <1> DEFINE g == [Idle EXCEPT !.kind = a[1], !.background = a[2]]
             b == Begin(g, {})
  <1>1. g \in Request
    <2>1. a[1] \in Kinds /\ a[2] \in BOOLEAN BY DEF Kinds
    <2>2. [Idle EXCEPT !.kind = a[1]] \in Request BY <2>1, IdleGood DEF Request
    <2> QED BY <2>1, <2>2 DEF Request
  <1>2. held[p] = {} BY Typed DEF Ask, At, Good, Holds
  <1> HIDE DEF g
  <1>3. b \in Request /\ Good(b, held[p]) /\ b.pc # "sign" BY <1>1, <1>2, BeginGood
  <1>4. Becomes(p, b, held[p]) BY HeldAlready DEF Ask, Becomes, g
  <1> HIDE DEF b
  <1> QED BY <1>3, <1>4, FilesKept DEF Ask

LEMMA CheckPendingKeeps ==
  ASSUME Inv, NEW p \in Procs, CheckPending(p)
  PROVE  Inv'
  <1> DEFINE g == gate[p]
             mine == held[p]
             waits == [g EXCEPT !.pc = "wait"]
             sweeps == [g EXCEPT !.pc = "sweep"]
  <1>1. /\ g \in Request /\ mine \in SUBSET Files /\ Good(g, mine)
        /\ g.pc = "pending" /\ (g.kind = "vitest" \/ (mine = {} /\ Pending \notin g.todo))
    BY Typed DEF CheckPending, At, Good, Holds, Acquiring
  <1>2. \/ gate' = [gate EXCEPT ![p] = Admitted(g, mine)]
        \/ gate' = [gate EXCEPT ![p] = waits]
        \/ Pending \notin mine /\ gate' = [gate EXCEPT ![p] = sweeps]
    BY DEF CheckPending
  <1>3. UNCHANGED <<owner, signed, held, robbed, faults>> BY DEF CheckPending
  <1>4. CASE gate' = [gate EXCEPT ![p] = Admitted(g, mine)]
    <2>1. /\ Admitted(g, mine) \in Request
          /\ Good(Admitted(g, mine), mine)
          /\ Admitted(g, mine).pc # "sign"
      BY <1>1, AdmittedGood
    <2>2. Becomes(p, Admitted(g, mine), held[p]) BY <1>3, <1>4, HeldAlready DEF Becomes
    <2> QED BY <1>3, <2>1, <2>2, FilesKept
  <1>5. CASE gate' = [gate EXCEPT ![p] = waits]
    <2>1. waits \in Request BY <1>1, PcSet DEF PCs
    <2>2. waits.pc = "wait" /\ waits.kind = g.kind /\ waits.todo = g.todo BY <1>1 DEF Request
    <2>3. Becomes(p, waits, held[p]) BY <1>3, <1>5, HeldAlready DEF Becomes
    <2> HIDE DEF waits
    <2>4. Good(waits, held[p]) BY <1>1, <2>2 DEF Good, Passes, Holds, Trying, Acquiring
    <2> QED BY <1>3, <2>1, <2>2, <2>3, <2>4, FilesKept
  <1>6. CASE Pending \notin mine /\ gate' = [gate EXCEPT ![p] = sweeps]
    <2>1. sweeps \in Request BY <1>1, PcSet DEF PCs
    <2>2. sweeps.pc = "sweep" /\ sweeps.kind = g.kind /\ sweeps.todo = g.todo BY <1>1 DEF Request
    <2>3. Becomes(p, sweeps, held[p]) BY <1>3, <1>6, HeldAlready DEF Becomes
    <2> HIDE DEF sweeps
    <2>4. Good(sweeps, held[p]) BY <1>1, <1>6, <2>2 DEF Good, Passes, Holds, Trying, Acquiring
    <2> QED BY <1>3, <2>1, <2>2, <2>3, <2>4, FilesKept
  <1> QED BY <1>2, <1>4, <1>5, <1>6

LEMMA SweepKeeps ==
  ASSUME Inv, NEW p \in Procs, Sweep(p)
  PROVE  Inv'
  <1> DEFINE a == Admitted(gate[p], held[p])
  <1>1. /\ gate[p] \in Request /\ held[p] \in SUBSET Files /\ Pending \notin held[p]
        /\ (gate[p].kind = "vitest" \/ (held[p] = {} /\ Pending \notin gate[p].todo))
    BY Typed DEF Sweep, At, Good, Holds, Acquiring
  <1>2. a \in Request /\ Good(a, held[p]) /\ a.pc # "sign" BY <1>1, AdmittedGood
  <1>3. held[p] \ {Pending} = held[p] BY <1>1
  <1>4. Becomes(p, a, held[p]) BY HeldAlready DEF Sweep, Becomes
  <1>5. Unlink(p, Pending) /\ faults' = faults BY DEF Sweep
  <1> HIDE DEF a
  <1> QED BY <1>2, <1>3, <1>4, <1>5, FilesApart, FileRemoved
(* The target of an attempt is a file that is not held. *)
LEMMA Targeted ==
  ASSUME Inv, NEW p \in Procs, gate[p].pc \in Trying
  PROVE  /\ Target(p) \in gate[p].todo /\ Target(p) \in Files /\ Target(p) \notin held[p]
         /\ Target(p) = FirstOf(gate[p].todo)
  <1>1. gate[p].todo \subseteq Files BY Typed DEF Request
  <1>2. gate[p].todo # {} /\ gate[p].todo \intersect held[p] = {} BY Typed DEF Good, Passes
  <1>3. Target(p) \in gate[p].todo BY <1>1, <1>2, FirstIsOne DEF Target
  <1> QED BY <1>1, <1>2, <1>3 DEF Target

LEMMA OpenKeeps ==
  ASSUME Inv, NEW p \in Procs, Open(p)
  PROVE  Inv'
  <1> DEFINE f == Target(p)
             signs == [gate[p] EXCEPT !.pc = "sign"]
             looks == [gate[p] EXCEPT !.pc = "look"]
  <1>0. gate[p].pc = "open" /\ gate[p].pc \in Trying BY DEF Open, At, Trying
  <1>1. f \in gate[p].todo /\ f \in Files /\ f \notin held[p] /\ f = FirstOf(gate[p].todo)
    BY <1>0, Targeted
  <1>2. gate[p] \in Request /\ held[p] \in SUBSET Files /\ Good(gate[p], held[p]) BY Typed
  <1>3. UNCHANGED <<signed, held, robbed, faults>> BY DEF Open
  <1>4. CASE owner[f] # Free
    <2>1. UNCHANGED owner /\ gate' = [gate EXCEPT ![p] = looks]
      BY <1>2, <1>4 DEF Open, Goto, Inv, TypeOK
    <2>2. looks \in Request BY <1>2, PcSet DEF PCs
    <2>3. looks.pc = "look" /\ looks.kind = gate[p].kind /\ looks.todo = gate[p].todo
      BY <1>2 DEF Request
    <2>4. Becomes(p, looks, held[p]) BY <1>3, <2>1, HeldAlready DEF Becomes
    <2> HIDE DEF looks
    <2>5. Good(looks, held[p]) BY <1>0, <1>2, <2>3 DEF Good, Passes, Holds, Trying, Acquiring
    <2> QED BY <1>3, <2>1, <2>2, <2>3, <2>4, <2>5, FilesKept
  <1>5. CASE owner[f] = Free
    <2>1. owner' = [owner EXCEPT ![f] = p] /\ gate' = [gate EXCEPT ![p] = signs]
      BY <1>2, <1>5 DEF Open, Goto, Inv, TypeOK
    <2>2. signs \in Request BY <1>2, PcSet DEF PCs
    <2>3. signs.pc = "sign" /\ signs.kind = gate[p].kind /\ signs.todo = gate[p].todo
      BY <1>2 DEF Request
    <2>4. Becomes(p, signs, held[p]) BY <1>3, <2>1, HeldAlready DEF Becomes
    <2> HIDE DEF signs
    <2>5. Good(signs, held[p]) BY <1>0, <1>2, <2>3 DEF Good, Passes, Holds, Trying, Acquiring
    <2>6. /\ gate' \in [Procs -> Request] /\ held' \in [Procs -> SUBSET Files]
          /\ \A q \in Procs : Good(gate'[q], held'[q])
          /\ gate'[p] = signs /\ held'[p] = held[p]
          /\ \A q \in Procs \ {p} : gate'[q] = gate[q] /\ held'[q] = held[q]
      BY <1>2, <2>2, <2>4, <2>5, BecomesGood
    <2>7. TypeOK' BY <1>1, <1>3, <2>1, <2>6 DEF Inv, TypeOK
    <2>8. Mine'
      <3> SUFFICES ASSUME NEW q \in Procs, NEW h \in Files, h \in held'[q] \/ Creating(q, h)'
                   PROVE  owner'[h] = q \/ <<q, h>> \in robbed'
        BY DEF Mine
      <3>0. owner'[h] = IF h = f THEN p ELSE owner[h] BY <2>1 DEF Inv, TypeOK
      <3>1. CASE q = p /\ h = f BY <3>0, <3>1
      <3>2. CASE ~(q = p /\ h = f)
        <4>1. h \in held[q] \/ Creating(q, h) BY <1>1, <2>3, <2>6, <3>2 DEF Creating
        <4>2. owner[h] = q \/ <<q, h>> \in robbed BY <4>1 DEF Inv, Mine
        <4> QED BY <1>3, <1>5, <3>0, <4>2
      <3> QED BY <3>1, <3>2
    <2>9. SignedHeld'
      <3> SUFFICES ASSUME NEW h \in signed'
                   PROVE  owner'[h] # Free /\ (owner'[h] \in Procs => h \in held'[owner'[h]])
        BY DEF SignedHeld
      <3>1. h \in signed /\ h \in Files BY <1>3 DEF Inv, TypeOK
      <3>2. owner[h] # Free /\ (owner[h] \in Procs => h \in held[owner[h]])
        BY <3>1 DEF Inv, SignedHeld
      <3>3. owner'[h] = owner[h] BY <1>5, <2>1, <3>1, <3>2 DEF Inv, TypeOK
      <3> QED BY <1>3, <3>2, <3>3
    <2> QED BY <2>6, <2>7, <2>8, <2>9 DEF Inv
  <1> QED BY <1>4, <1>5

LEMMA SignKeeps ==
  ASSUME Inv, NEW p \in Procs, Sign(p)
  PROVE  Inv'
  <1> DEFINE f == Target(p)
             g == Got(gate[p], held[p])
             mine == held[p] \union {f}
  <1>0. gate[p].pc = "sign" /\ gate[p].pc \in Trying BY DEF Sign, At, Trying
  <1>1. f \in gate[p].todo /\ f \in Files /\ f \notin held[p] /\ f = FirstOf(gate[p].todo)
    BY <1>0, Targeted
  <1>2. gate[p] \in Request /\ held[p] \in SUBSET Files /\ Good(gate[p], held[p]) BY Typed
  <1>3. g \in Request /\ Good(g, mine) /\ g.pc # "sign" BY <1>0, <1>1, <1>2, GotGood
  <1>4. UNCHANGED <<owner, robbed, faults>> BY DEF Sign
  <1>5. signed' = IF owner[f] = p THEN signed \union {f} ELSE signed BY DEF Sign
  <1>6. Becomes(p, g, mine) BY DEF Sign, Becomes, Inv, TypeOK
  <1>7. mine \in SUBSET Files BY <1>1, <1>2
  <1>c. Creating(p, f) BY <1>0, <1>1 DEF Creating
  <1> HIDE DEF g, mine, f
  <1>8. /\ gate' \in [Procs -> Request] /\ held' \in [Procs -> SUBSET Files]
        /\ \A q \in Procs : Good(gate'[q], held'[q])
        /\ gate'[p] = g /\ held'[p] = mine
        /\ \A q \in Procs \ {p} : gate'[q] = gate[q] /\ held'[q] = held[q]
    BY <1>3, <1>6, <1>7, BecomesGood
  <1>9. TypeOK' BY <1>1, <1>4, <1>5, <1>8 DEF Inv, TypeOK
  <1>10. Mine'
    <2> SUFFICES ASSUME NEW q \in Procs, NEW h \in Files, h \in held'[q] \/ Creating(q, h)'
                 PROVE  owner'[h] = q \/ <<q, h>> \in robbed'
      BY DEF Mine
    <2>1. h \in held[q] \/ Creating(q, h) BY <1>3, <1>8, <1>c DEF Creating, mine
    <2> QED BY <1>4, <2>1 DEF Inv, Mine
  <1>11. SignedHeld'
    <2> SUFFICES ASSUME NEW h \in signed'
                 PROVE  owner'[h] # Free /\ (owner'[h] \in Procs => h \in held'[owner'[h]])
      BY DEF SignedHeld
    <2>1. CASE h \in signed
      <3>1. owner[h] # Free /\ (owner[h] \in Procs => h \in held[owner[h]])
        BY <2>1 DEF Inv, SignedHeld
      <3> QED BY <1>4, <1>8, <3>1 DEF mine
    <2>2. CASE h = f /\ owner[f] = p BY <1>4, <1>8, <2>2 DEF mine
    <2> QED BY <1>5, <2>1, <2>2
  <1> QED BY <1>8, <1>9, <1>10, <1>11 DEF Inv

LEMMA LookKeeps ==
  ASSUME Inv, NEW p \in Procs, Look(p)
  PROVE  Inv'
  <1> DEFINE g == IF NamesLiving(Target(p)) THEN Missed(gate[p], held[p])
                                            ELSE [gate[p] EXCEPT !.pc = "remove"]
  <1>0. gate[p].pc = "look" /\ gate[p].pc \in Trying BY DEF Look, At, Trying
  <1>1. gate[p] \in Request /\ held[p] \in SUBSET Files /\ Good(gate[p], held[p]) BY Typed
  <1>2. UNCHANGED <<owner, signed, held, robbed, faults>> BY DEF Look
  <1>3. gate' = [gate EXCEPT ![p] = g] BY DEF Look, Goto, Inv, TypeOK
  <1>4. Becomes(p, g, held[p]) BY <1>2, <1>3, HeldAlready DEF Becomes
  <1>5. g \in Request /\ Good(g, held[p]) /\ g.pc # "sign"
    <2>1. CASE g = Missed(gate[p], held[p]) BY <1>0, <1>1, <2>1, MissedGood
    <2>2. CASE g = [gate[p] EXCEPT !.pc = "remove"]
      <3>1. g \in Request BY <1>1, <2>2, PcSet DEF PCs
      <3>2. g.pc = "remove" /\ g.kind = gate[p].kind /\ g.todo = gate[p].todo
        BY <1>1, <2>2 DEF Request
      <3> HIDE DEF g
      <3>3. Good(g, held[p]) BY <1>0, <1>1, <3>2 DEF Good, Passes, Holds, Trying, Acquiring
      <3> QED BY <3>1, <3>2, <3>3
    <2> QED BY <2>1, <2>2
  <1> HIDE DEF g
  <1> QED BY <1>2, <1>4, <1>5, FilesKept

LEMMA RemoveKeeps ==
  ASSUME Inv, NEW p \in Procs, Remove(p)
  PROVE  Inv'
  <1> DEFINE again == [gate[p] EXCEPT !.pc = "open", !.tries = 1]
             g == IF gate[p].tries = 0 THEN again ELSE Missed(gate[p], held[p])
  <1>0. gate[p].pc = "remove" /\ gate[p].pc \in Trying BY DEF Remove, At, Trying
  <1>1. Target(p) \in Files /\ Target(p) \notin held[p] BY <1>0, Targeted
  <1>2. gate[p] \in Request /\ held[p] \in SUBSET Files /\ Good(gate[p], held[p]) BY Typed
  <1>3. Unlink(p, Target(p)) /\ faults' = faults BY DEF Remove
  <1>4. Becomes(p, g, held[p]) BY HeldAlready DEF Remove, Becomes
  <1>5. held[p] = held[p] \ {Target(p)} BY <1>1
  <1>6. g \in Request /\ Good(g, held[p]) /\ g.pc # "sign"
    <2>1. CASE g = Missed(gate[p], held[p]) BY <1>0, <1>2, <2>1, MissedGood
    <2>2. CASE g = again
      <3>1. [gate[p] EXCEPT !.pc = "open"] \in Request BY <1>2, PcSet DEF PCs
      <3>2. [[gate[p] EXCEPT !.pc = "open"] EXCEPT !.tries = 1] \in Request
        BY <3>1, TriesSet
      <3>a. g \in Request BY <2>2, <3>2
      <3>3. g.pc = "open" /\ g.kind = gate[p].kind /\ g.todo = gate[p].todo
        BY <1>2, <2>2 DEF Request
      <3> HIDE DEF g
      <3>4. Good(g, held[p]) BY <1>0, <1>2, <3>3 DEF Good, Passes, Holds, Trying, Acquiring
      <3> QED BY <3>a, <3>3, <3>4
    <2> QED BY <2>1, <2>2
  <1> HIDE DEF g
  <1> QED BY <1>1, <1>3, <1>4, <1>5, <1>6, FileRemoved

LEMMA ScanKeeps ==
  ASSUME Inv, NEW p \in Procs, Scan(p)
  PROVE  Inv'
  <1> DEFINE marks == [gate[p] EXCEPT !.pc = "marker"]
             tries == TrySlots(gate[p], {})
             waits == [gate[p] EXCEPT !.pc = "wait"]
  <1>0. gate[p].pc = "scan" /\ gate[p].pc \in Acquiring BY DEF Scan, At, Acquiring
  <1>1. gate[p] \in Request /\ held[p] \in SUBSET Files /\ Good(gate[p], held[p]) BY Typed
  <1>2. UNCHANGED <<owner, signed, held, robbed, faults>> BY DEF Scan
  <1>3. \/ gate[p].kind = "vitest" /\ gate' = [gate EXCEPT ![p] = marks]
        \/ gate[p].kind # "vitest" /\ gate' = [gate EXCEPT ![p] = tries]
        \/ gate' = [gate EXCEPT ![p] = waits]
    BY DEF Scan, Goto, Inv, TypeOK
  <1>4. CASE gate[p].kind = "vitest" /\ gate' = [gate EXCEPT ![p] = marks]
    <2>1. marks \in Request BY <1>1, PcSet DEF PCs
    <2>2. marks.pc = "marker" /\ marks.kind = "vitest" BY <1>1, <1>4 DEF Request
    <2>3. Slots \subseteq held[p] BY <1>0, <1>1, <1>4 DEF Good, Holds
    <2>4. Becomes(p, marks, held[p]) BY <1>2, <1>4, HeldAlready DEF Becomes
    <2> HIDE DEF marks
    <2>5. Good(marks, held[p]) BY <2>2, <2>3 DEF Good, Passes, Holds, Trying, Acquiring
    <2> QED BY <1>2, <2>1, <2>2, <2>4, <2>5, FilesKept
  <1>5. CASE gate[p].kind # "vitest" /\ gate' = [gate EXCEPT ![p] = tries]
    <2>1. held[p] = {} BY <1>0, <1>1, <1>5 DEF Good, Holds
    <2>2. tries \in Request /\ Good(tries, held[p]) /\ tries.pc # "sign"
      BY <1>1, <2>1, TrySlotsGood
    <2>3. Becomes(p, tries, held[p]) BY <1>2, <1>5, HeldAlready DEF Becomes
    <2> HIDE DEF tries
    <2> QED BY <1>2, <2>2, <2>3, FilesKept
  <1>6. CASE gate' = [gate EXCEPT ![p] = waits]
    <2>1. waits \in Request BY <1>1, PcSet DEF PCs
    <2>2. waits.pc = "wait" /\ waits.kind = gate[p].kind /\ waits.todo = gate[p].todo
      BY <1>1 DEF Request
    <2>3. Becomes(p, waits, held[p]) BY <1>2, <1>6, HeldAlready DEF Becomes
    <2> HIDE DEF waits
    <2>4. Good(waits, held[p]) BY <1>0, <1>1, <2>2 DEF Good, Passes, Holds, Trying, Acquiring
    <2> QED BY <1>2, <2>1, <2>2, <2>3, <2>4, FilesKept
  <1> QED BY <1>3, <1>4, <1>5, <1>6

LEMMA GrantKeeps ==
  ASSUME Inv, NEW p \in Procs, Grant(p)
  PROVE  Inv'
  <1> DEFINE runs == [gate[p] EXCEPT !.pc = "run"]
             mine == held[p] \ {Pending}
  <1>0. gate[p].pc = "marker" BY DEF Grant, At
  <1>1. gate[p] \in Request /\ held[p] \in SUBSET Files /\ Good(gate[p], held[p]) BY Typed
  <1>2. gate[p].kind = "vitest" /\ Slots \subseteq held[p] BY <1>0, <1>1 DEF Good, Holds
  <1>3. mine = Slots BY <1>1, <1>2, FilesApart DEF Files
  <1>4. runs \in Request BY <1>1, PcSet DEF PCs
  <1>5. runs.pc = "run" /\ runs.kind = "vitest" BY <1>1, <1>2 DEF Request
  <1>6. gate' = [gate EXCEPT ![p] = runs] /\ faults' = faults BY DEF Grant, Goto, Inv, TypeOK
  <1> HIDE DEF runs
  <1>7. Good(runs, mine) BY <1>3, <1>5 DEF Good, Passes, Holds, Trying, Acquiring
  <1>8. CASE Pending \in held[p]
    <2>1. Unlink(p, Pending) BY <1>8 DEF Grant
    <2>2. Becomes(p, runs, mine) BY <1>6, <1>8 DEF Grant, Becomes, Inv, TypeOK
    <2> QED BY <1>4, <1>5, <1>6, <1>7, <2>1, <2>2, FilesApart, FileRemoved
  <1>9. CASE Pending \notin held[p]
    <2>1. mine = held[p] BY <1>9
    <2>2. UNCHANGED <<owner, signed, robbed, held>> BY <1>9 DEF Grant
    <2>3. Becomes(p, runs, held[p]) BY <1>6, <2>2, HeldAlready DEF Becomes
    <2>4. Good(runs, held[p]) BY <1>7, <2>1
    <2> QED BY <1>4, <1>5, <1>6, <2>2, <2>3, <2>4, FilesKept
  <1> QED BY <1>8, <1>9

LEMMA SleepsOnKeeps ==
  ASSUME Inv, NEW p \in Procs, SleepsOn(p)
  PROVE  Inv'
  <1> DEFINE g == [gate[p] EXCEPT !.polls = IF @ < MaxPolls THEN @ + 1 ELSE @]
             b == Begin(g, held[p])
  <1>0. gate[p].pc = "wait" BY DEF SleepsOn, At
  <1>1. gate[p] \in Request /\ held[p] \in SUBSET Files /\ Good(gate[p], held[p]) BY Typed
  <1>2. g \in Request
    <2> DEFINE n == IF gate[p].polls < MaxPolls THEN gate[p].polls + 1 ELSE gate[p].polls
    <2>1. gate[p].polls \in 0 .. MaxPolls BY <1>1 DEF Request
    <2>2. n \in 0 .. MaxPolls BY <2>1
    <2>3. g = [gate[p] EXCEPT !.polls = n] OBVIOUS
    <2> HIDE DEF g, n
    <2> QED BY <1>1, <2>2, <2>3 DEF Request
  <1>3. g.kind = gate[p].kind BY <1>1 DEF Request
  <1>4. gate[p].kind = "vitest" \/ held[p] = {} BY <1>0, <1>1 DEF Good, Holds, Acquiring
  <1>5. UNCHANGED <<owner, signed, held, robbed, faults>> BY DEF SleepsOn
  <1>6. Becomes(p, b, held[p]) BY <1>5, HeldAlready DEF SleepsOn, Becomes
  <1> HIDE DEF g
  <1>7. b \in Request /\ Good(b, held[p]) /\ b.pc # "sign" BY <1>1, <1>2, <1>3, <1>4, BeginGood
  <1> HIDE DEF b
  <1> QED BY <1>5, <1>6, <1>7, FilesKept

(* A request that gives back what it holds. *)
LEMMA GivesAllBack ==
  ASSUME Inv, NEW p \in Procs, NEW why \in {"giveup", "throw", "release"}, GiveAllBack(p, why)
  PROVE  \E g \in Request : /\ Good(g, held[p]) /\ g.pc # "sign"
                            /\ gate' = [gate EXCEPT ![p] = g]
  <1> DEFINE h == [gate[p] EXCEPT !.pc = why, !.todo = {}]
  <1>1. gate[p] \in Request BY Typed
  <1>2. why \in PCs BY DEF PCs
  <1>3. h \in Request BY <1>1, <1>2, PcSet, TodoSet
  <1>4. h.pc = why BY <1>1 DEF Request
  <1>5. gate' = [gate EXCEPT ![p] = IF held[p] = {} THEN Ended(h) ELSE h] BY DEF GiveAllBack
  <1> HIDE DEF h
  <1>6. CASE held[p] = {} BY <1>3, <1>5, <1>6, EndedGood
  <1>7. CASE held[p] # {}
    <2>1. Good(h, held[p]) BY <1>4, <1>7 DEF Good, Passes, Holds, Trying, Acquiring
    <2> QED BY <1>3, <1>4, <1>5, <1>7, <2>1
  <1> QED BY <1>6, <1>7

LEMMA GivesUpKeeps ==
  ASSUME Inv, NEW p \in Procs, GivesUp(p) \/ Finish(p)
  PROVE  Inv'
  <1>1. \E why \in {"giveup", "throw", "release"} : GiveAllBack(p, why) BY DEF GivesUp, Finish
  <1>2. UNCHANGED <<owner, signed, held, robbed, faults>> BY DEF GivesUp, Finish
  <1>3. PICK g \in Request : Good(g, held[p]) /\ g.pc # "sign" /\ gate' = [gate EXCEPT ![p] = g]
    BY <1>1, GivesAllBack
  <1>4. Becomes(p, g, held[p]) BY <1>2, <1>3, HeldAlready DEF Becomes
  <1> QED BY <1>2, <1>3, <1>4, FilesKept

LEMMA FailKeeps ==
  ASSUME Inv, NEW p \in Procs, Fail(p)
  PROVE  Inv'
  <1>0. gate[p] \in Request /\ held[p] \in SUBSET Files BY Typed
  <1>1. PICK g \in Request : Good(g, held[p]) /\ g.pc # "sign" /\ gate' = [gate EXCEPT ![p] = g]
    BY GivesAllBack DEF Fail
  <1>2. /\ owner' = [f \in Files |-> IF owner[f] = p /\ Creating(p, f) THEN Dead ELSE owner[f]]
        /\ robbed' = {r \in robbed : r[1] = p => r[2] \in held[p]}
        /\ faults' = faults + 1 /\ faults < MaxFaults
        /\ UNCHANGED <<signed, held>>
    BY DEF Fail
  <1>3. Becomes(p, g, held[p]) BY <1>1, <1>2, HeldAlready DEF Becomes
  <1>4. /\ gate' \in [Procs -> Request] /\ held' \in [Procs -> SUBSET Files]
        /\ \A q \in Procs : Good(gate'[q], held'[q])
        /\ gate'[p] = g /\ held'[p] = held[p]
        /\ \A q \in Procs \ {p} : gate'[q] = gate[q] /\ held'[q] = held[q]
    BY <1>0, <1>1, <1>3, BecomesGood
  <1>5. TypeOK'
    <2>1. owner' \in [Files -> Procs \union {Free, Dead}] BY <1>2 DEF Inv, TypeOK
    <2>2. robbed' \subseteq Procs \X Files BY <1>2 DEF Inv, TypeOK
    <2>3. faults' \in 0 .. MaxFaults BY <1>2 DEF Inv, TypeOK
    <2> QED BY <1>2, <1>4, <2>1, <2>2, <2>3 DEF Inv, TypeOK
  <1>c. \A f \in Files : Creating(p, f) => f \notin held[p]
    BY Targeted DEF Creating, Target, Trying
  <1>6. Mine'
    <2> SUFFICES ASSUME NEW q \in Procs, NEW h \in Files, h \in held'[q] \/ Creating(q, h)'
                 PROVE  owner'[h] = q \/ <<q, h>> \in robbed'
      BY DEF Mine
    <2>0. owner'[h] = IF owner[h] = p /\ Creating(p, h) THEN Dead ELSE owner[h] BY <1>2
    <2>1. h \in held[q] \/ (q # p /\ Creating(q, h)) BY <1>1, <1>4 DEF Creating
    <2>2. owner[h] = q \/ <<q, h>> \in robbed BY <2>1 DEF Inv, Mine
    <2>3. CASE owner[h] = q
      <3>1. ~(owner[h] = p /\ Creating(p, h)) BY <1>c, <2>1, <2>3
      <3> QED BY <2>0, <2>3, <3>1
    <2>4. CASE <<q, h>> \in robbed BY <1>2, <2>1, <2>4
    <2> QED BY <2>2, <2>3, <2>4
  <1>7. SignedHeld'
    <2> SUFFICES ASSUME NEW h \in signed'
                 PROVE  owner'[h] # Free /\ (owner'[h] \in Procs => h \in held'[owner'[h]])
      BY DEF SignedHeld
    <2>1. h \in signed /\ h \in Files BY <1>2 DEF Inv, TypeOK
    <2>2. owner[h] # Free /\ (owner[h] \in Procs => h \in held[owner[h]]) BY <2>1 DEF Inv, SignedHeld
    <2>3. owner'[h] \in {owner[h], Dead} BY <1>2, <2>1
    <2> QED BY <1>2, <2>2, <2>3
  <1> QED BY <1>4, <1>5, <1>6, <1>7 DEF Inv

LEMMA GiveBackKeeps ==
  ASSUME Inv, NEW p \in Procs, GiveBack(p)
  PROVE  Inv'
  <1>0. gate[p].pc \in {"giveup", "throw", "release"} BY DEF GiveBack
  <1>1. gate[p] \in Request /\ held[p] \in SUBSET Files /\ Good(gate[p], held[p]) BY Typed
  <1>2. PICK f \in NextBack(held[p]) :
            /\ Unlink(p, f)
            /\ held' = [held EXCEPT ![p] = @ \ {f}]
            /\ gate' = [gate EXCEPT ![p] = IF held[p] = {f} THEN Ended(@) ELSE @]
    BY DEF GiveBack
  <1> DEFINE g == IF held[p] = {f} THEN Ended(gate[p]) ELSE gate[p]
             mine == held[p] \ {f}
  <1>3. f \in held[p] /\ f \in Files
    <2>1. held[p] # {} BY <1>0, <1>1 DEF Good, Holds
    <2>2. Files = Slots \union {Pending} BY DEF Files
    <2> QED BY <1>1, <1>2, <2>1, <2>2 DEF NextBack
  <1>4. Becomes(p, g, mine) BY <1>2 DEF Becomes, Inv, TypeOK
  <1>5. g \in Request /\ Good(g, mine) /\ g.pc # "sign"
    <2>1. CASE held[p] = {f} BY <1>1, <2>1, EndedGood
    <2>2. CASE held[p] # {f}
      <3>1. mine # {} BY <1>3, <2>2
      <3>2. g = gate[p] BY <2>2
      <3> HIDE DEF g, mine
      <3>3. Good(gate[p], mine) BY <1>0, <3>1 DEF Good, Passes, Holds, Trying, Acquiring
      <3> QED BY <1>0, <1>1, <3>2, <3>3
    <2> QED BY <2>1, <2>2
  <1>6. faults' = faults BY DEF GiveBack
  <1> HIDE DEF g
  <1> QED BY <1>2, <1>3, <1>4, <1>5, <1>6, FileRemoved

LEMMA CrashKeeps ==
  ASSUME Inv, NEW p \in Procs, Crash(p)
  PROVE  Inv'
  <1>1. /\ owner' = [f \in Files |-> IF owner[f] = p THEN Dead ELSE owner[f]]
        /\ robbed' = {r \in robbed : r[1] # p}
        /\ faults' = faults + 1 /\ faults < MaxFaults
        /\ signed' = signed
    BY DEF Crash
  <1>2. Becomes(p, Idle, {}) BY DEF Crash, Becomes
  <1>3. /\ gate' \in [Procs -> Request] /\ held' \in [Procs -> SUBSET Files]
        /\ \A q \in Procs : Good(gate'[q], held'[q])
        /\ gate'[p] = Idle /\ held'[p] = {}
        /\ \A q \in Procs \ {p} : gate'[q] = gate[q] /\ held'[q] = held[q]
    BY <1>2, IdleGood, BecomesGood
  <1>4. TypeOK'
    <2>1. owner' \in [Files -> Procs \union {Free, Dead}] BY <1>1 DEF Inv, TypeOK
    <2>2. robbed' \subseteq Procs \X Files BY <1>1 DEF Inv, TypeOK
    <2>3. faults' \in 0 .. MaxFaults BY <1>1 DEF Inv, TypeOK
    <2> QED BY <1>1, <1>3, <2>1, <2>2, <2>3 DEF Inv, TypeOK
  <1>5. Mine'
    <2> SUFFICES ASSUME NEW q \in Procs, NEW h \in Files, h \in held'[q] \/ Creating(q, h)'
                 PROVE  owner'[h] = q \/ <<q, h>> \in robbed'
      BY DEF Mine
    <2>1. q # p /\ (h \in held[q] \/ Creating(q, h)) BY <1>3, IdleGood DEF Creating
    <2>2. owner[h] = q \/ <<q, h>> \in robbed BY <2>1 DEF Inv, Mine
    <2> QED BY <1>1, <2>1, <2>2
  <1>6. SignedHeld'
    <2> SUFFICES ASSUME NEW h \in signed'
                 PROVE  owner'[h] # Free /\ (owner'[h] \in Procs => h \in held'[owner'[h]])
      BY DEF SignedHeld
    <2>1. h \in signed /\ h \in Files BY <1>1 DEF Inv, TypeOK
    <2>2. owner[h] # Free /\ (owner[h] \in Procs => h \in held[owner[h]]) BY <2>1 DEF Inv, SignedHeld
    <2>3. owner'[h] = IF owner[h] = p THEN Dead ELSE owner[h] BY <1>1, <2>1
    <2> QED BY <1>3, <2>2, <2>3
  <1> QED BY <1>3, <1>4, <1>5, <1>6 DEF Inv

LEMMA NextInv == Inv /\ [Next]_vars => Inv'
  <1> SUFFICES ASSUME Inv, [Next]_vars PROVE Inv' OBVIOUS
  <1>1. CASE UNCHANGED vars
    <2>1. UNCHANGED <<owner, signed, gate, held, robbed, faults>> BY <1>1 DEF vars
    <2>2. TypeOK' BY <2>1 DEF Inv, TypeOK
    <2>3. Mine' BY <2>1 DEF Inv, Mine, Creating
    <2>4. SignedHeld' BY <2>1 DEF Inv, SignedHeld
    <2>5. \A p \in Procs : Good(gate[p], held[p])' BY <2>1 DEF Inv
    <2> QED BY <2>2, <2>3, <2>4, <2>5 DEF Inv
  <1>2. CASE Next
    <2> SUFFICES ASSUME NEW p \in Procs,
                        (\E a \in Asks : Ask(p, a[1], a[2])) \/ Step(p) \/ Fail(p) \/ Crash(p)
                 PROVE  Inv'
      BY <1>2 DEF Next
    <2>1. CASE \E a \in Asks : Ask(p, a[1], a[2]) BY <2>1, AskKeeps
    <2>2. CASE CheckPending(p) \/ Sweep(p) BY <2>2, CheckPendingKeeps, SweepKeeps
    <2>3. CASE Open(p) \/ Sign(p) \/ Look(p) \/ Remove(p)
      BY <2>3, OpenKeeps, SignKeeps, LookKeeps, RemoveKeeps
    <2>4. CASE Scan(p) \/ Grant(p) \/ GivesUp(p) \/ SleepsOn(p)
      BY <2>4, ScanKeeps, GrantKeeps, GivesUpKeeps, SleepsOnKeeps
    <2>5. CASE GiveBack(p) \/ Finish(p) BY <2>5, GiveBackKeeps, GivesUpKeeps
    <2>6. CASE Fail(p) BY <2>6, FailKeeps
    <2>7. CASE Crash(p) BY <2>7, CrashKeeps
    <2> QED BY <2>1, <2>2, <2>3, <2>4, <2>5, <2>6, <2>7 DEF Step
  <1> QED BY <1>1, <1>2

-----------------------------------------------------------------------------
(* Whatever processes do, die or fail: the inductive invariant. *)
THEOREM Invariance == Spec => []Inv
  <1>1. Init => Inv BY InitInv
  <1>2. Inv /\ [Next]_vars => Inv' BY NextInv
  <1> QED BY <1>1, <1>2, PTL DEF Spec

(* The values of the variables are those the code can hold; in particular  *)
(* an attempt on a lock file is repeated at most once (acquireLockFile).   *)
THEOREM TypeCorrect == Spec => []TypeOK
  <1>1. Inv => TypeOK BY DEF Inv
  <1> QED BY <1>1, Invariance, PTL

(* Two processes that both believe they hold a lock file were not both     *)
(* given it by creation (acquireLockFile's open with 'wx'): the file of    *)
(* one of them was removed while it was alive.                             *)
THEOREM CreationIsExclusive == Spec => []HeldTwiceOnlyIfRobbed
  <1>1. Inv => HeldTwiceOnlyIfRobbed
    <2> SUFFICES ASSUME Inv, NEW p \in Procs, NEW q \in Procs, p # q,
                        NEW f \in held[p] \intersect held[q]
                 PROVE  <<p, f>> \in robbed \/ <<q, f>> \in robbed
      BY DEF HeldTwiceOnlyIfRobbed
    <2>1. f \in Files BY Typed
    <2>2. owner[f] = p \/ <<p, f>> \in robbed BY <2>1 DEF Inv, Mine
    <2>3. owner[f] = q \/ <<q, f>> \in robbed BY <2>1 DEF Inv, Mine
    <2> QED BY <2>2, <2>3
  <1> QED BY <1>1, Invariance, PTL

(* A request that is over, however it ended, leaves no file with its pid   *)
(* behind, and a gate runs with the whole host, with one slot or with      *)
(* nothing and without its announcement (acquireExclusive, acquire).       *)
THEOREM NothingStaysBehind == Spec => []NothingLeftBehind
  <1>1. Inv => NothingLeftBehind
    <2> SUFFICES ASSUME Inv, NEW p \in Procs
                 PROVE  /\ At(p, "idle") => held[p] = {} /\ \A f \in signed : owner[f] # p
                        /\ At(p, "run") => /\ Pending \notin held[p]
                                           /\ \/ Cardinality(held[p]) <= 1
                                              \/ gate[p].kind = "vitest" /\ held[p] = Slots
      BY DEF NothingLeftBehind
    <2>0. Good(gate[p], held[p]) BY Typed
    <2>1. CASE At(p, "idle")
      <3>1. held[p] = {} BY <2>0, <2>1 DEF At, Good, Holds
      <3>2. ~At(p, "run") BY <2>1 DEF At
      <3> QED BY <3>1, <3>2 DEF Inv, SignedHeld
    <2>2. CASE At(p, "run")
      <3>0. ~At(p, "idle") BY <2>2 DEF At
      <3>1. \/ held[p] = {}
            \/ \E f \in Slots : held[p] = {f}
            \/ gate[p].kind = "vitest" /\ held[p] = Slots
        BY <2>0, <2>2 DEF At, Good, Holds
      <3>2. Pending \notin held[p] BY <3>1, FilesApart
      <3>3. CASE held[p] = {} BY <3>0, <3>2, <3>3, FS_EmptySet
      <3>4. CASE \E f \in Slots : held[p] = {f} BY <3>0, <3>2, <3>4, FS_Singleton
      <3>5. CASE gate[p].kind = "vitest" /\ held[p] = Slots BY <3>0, <3>2, <3>5
      <3> QED BY <3>1, <3>3, <3>4, <3>5
    <2> QED BY <2>1, <2>2
  <1> QED BY <1>1, Invariance, PTL
=============================================================================
