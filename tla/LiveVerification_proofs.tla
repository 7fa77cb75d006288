------------------------ MODULE LiveVerification_proofs ------------------------
(***************************************************************************)
(* The proxy accounts for its slots and its waiters, for every number of   *)
(* clients, slots and tokens, whatever the release worker does beside      *)
(* them; and the release worker charges no scenario with a failure of the  *)
(* environment, follows every failure up once and stays below its limit of *)
(* returns, for every number of checks, attempts, runs and faults.         *)
(***************************************************************************)
EXTENDS LiveVerification, FiniteSetTheorems, SequenceTheorems, WellFoundedInduction, TLAPS

Requests == [pc : {"idle", "wait", "call", "rewait", "recall", "done"},
             token : 0 .. MaxTokens, answer : Answers]
Section(q) == {c \in Clients : InSection(q[c])}

ProxyInv == ProxyTypeOK /\ SlotsCounted /\ NobodyWaitsInVain

-----------------------------------------------------------------------------
(* How the requests in the handler are counted when one of them changes. *)

LEMMA Bounds == MaxConcurrent \in Nat /\ MaxTokens \in Nat
BY ProxyAssumption

LEMMA SectionFinite ==
    ASSUME NEW q
    PROVE  IsFiniteSet(Section(q)) /\ Cardinality(Section(q)) \in Nat
<1>1. Section(q) \subseteq Clients
  BY DEF Section
<1> QED BY <1>1, FS_Subset, FS_CardinalityType, ProxyAssumption

LEMMA Enters ==
    ASSUME ProxyTypeOK, NEW c \in Clients, NEW r, ~InSection(req[c]), InSection(r)
    PROVE  Cardinality(Section([req EXCEPT ![c] = r])) = Cardinality(Section(req)) + 1
<1>1. Section([req EXCEPT ![c] = r]) = Section(req) \union {c} /\ c \notin Section(req)
  BY DEF Section, ProxyTypeOK
<1> QED BY <1>1, SectionFinite, FS_AddElement

LEMMA Leaves ==
    ASSUME ProxyTypeOK, NEW c \in Clients, NEW r, InSection(req[c]), ~InSection(r)
    PROVE  /\ Cardinality(Section([req EXCEPT ![c] = r])) = Cardinality(Section(req)) - 1
           /\ Cardinality(Section(req)) > 0
<1>1. Section([req EXCEPT ![c] = r]) = Section(req) \ {c} /\ c \in Section(req)
  BY DEF Section, ProxyTypeOK
<1>2. Cardinality(Section(req) \ {c}) = Cardinality(Section(req)) - 1
  BY <1>1, SectionFinite, FS_RemoveElement
<1>3. Cardinality(Section(req)) \in Nat /\ Cardinality(Section(req) \ {c}) \in Nat
  BY SectionFinite, FS_RemoveElement, FS_CardinalityType
<1>4. Cardinality(Section([req EXCEPT ![c] = r])) = Cardinality(Section(req) \ {c})
  BY <1>1
<1> HIDE DEF Section
<1> QED BY <1>2, <1>3, <1>4

LEMMA Stays ==
    ASSUME ProxyTypeOK, NEW c \in Clients, NEW r, InSection(req[c]) <=> InSection(r)
    PROVE  Cardinality(Section([req EXCEPT ![c] = r])) = Cardinality(Section(req))
<1>1. Section([req EXCEPT ![c] = r]) = Section(req)
  BY DEF Section, ProxyTypeOK
<1> QED BY <1>1

LEMMA ToldType == \A c, answer : answer \in Answers =>
                      /\ Told(c, answer) \in Requests
                      /\ ~InSection(Told(c, answer)) /\ ~Waiting(Told(c, answer))
<1>1. 0 \in 0 .. MaxTokens
  BY Bounds
<1>2. NoRequest \in Requests /\ NoRequest.pc = "idle"
  BY <1>1 DEF NoRequest, Requests, Answers
<1>3. \A a \in Answers : LET r == [NoRequest EXCEPT !.pc = "done", !.answer = a]
                        IN  r \in Requests /\ r.pc = "done"
  BY <1>2 DEF Requests
<1> QED BY <1>2, <1>3 DEF Told, InSection, Waiting

LEMMA CountSection == SlotsCounted <=> inFlight = Cardinality(Section(req))
BY DEF SlotsCounted, Section

LEMMA CountSectionNext == SlotsCounted' <=> inFlight' = Cardinality(Section(req'))
BY DEF SlotsCounted, Section

(* The request of one client changes, and nobody but it begins to wait. *)
LEMMA OneChanges ==
    ASSUME ProxyInv, NEW c \in Clients, NEW r \in Requests,
           req' = [req EXCEPT ![c] = r],
           Waiting(r) => pending', pending' = pending \/ pending' = TRUE,
           \/ ~InSection(req[c]) /\ InSection(r) /\ inFlight' = inFlight + 1 /\ inFlight < MaxConcurrent
           \/ InSection(req[c]) /\ ~InSection(r) /\ inFlight' = inFlight - 1
           \/ (InSection(req[c]) <=> InSection(r)) /\ inFlight' = inFlight,
           provider' \in [token : 0 .. MaxTokens, fresh : BOOLEAN], UNCHANGED dev
    PROVE  ProxyInv'
<1> USE DEF ProxyInv
<1>1. SlotsCounted' /\ inFlight' \in 0 .. MaxConcurrent
  <2>1. inFlight = Cardinality(Section(req)) /\ inFlight \in 0 .. MaxConcurrent
    BY CountSection DEF ProxyTypeOK
  <2>2. CASE ~InSection(req[c]) /\ InSection(r) /\ inFlight' = inFlight + 1 /\ inFlight < MaxConcurrent
    <3>1. Cardinality(Section(req')) = inFlight + 1
      BY <2>1, <2>2, Enters
    <3>2. inFlight + 1 \in 0 .. MaxConcurrent
      BY <2>1, <2>2, Bounds
    <3> QED BY <2>2, <3>1, <3>2, CountSectionNext
  <2>3. CASE InSection(req[c]) /\ ~InSection(r) /\ inFlight' = inFlight - 1
    <3>1. Cardinality(Section(req')) = inFlight - 1 /\ inFlight > 0
      BY <2>1, <2>3, Leaves
    <3>2. inFlight - 1 \in 0 .. MaxConcurrent
      BY <2>1, <3>1, Bounds
    <3> QED BY <2>3, <3>1, <3>2, CountSectionNext
  <2>4. CASE (InSection(req[c]) <=> InSection(r)) /\ inFlight' = inFlight
    BY <2>1, <2>4, Stays, CountSectionNext
  <2> QED BY <2>2, <2>3, <2>4
<1>2. pending' \in BOOLEAN
  BY DEF ProxyTypeOK
<1>3. req' \in [Clients -> Requests]
  BY DEF ProxyTypeOK, Requests
<1>4. ProxyTypeOK'
  BY <1>1, <1>2, <1>3 DEF ProxyTypeOK, Requests
<1>5. NobodyWaitsInVain'
  BY DEF NobodyWaitsInVain, ProxyTypeOK
<1> QED BY <1>1, <1>4, <1>5

-----------------------------------------------------------------------------
(* Every step of the proxy, one lemma for each action. *)

LEMMA ProxyInitInv == ProxyInit => ProxyInv
<1> SUFFICES ASSUME ProxyInit PROVE ProxyInv
  OBVIOUS
<1>1. ProxyTypeOK /\ NobodyWaitsInVain
  <2>1. 0 \in 0 .. MaxTokens /\ 0 \in 0 .. MaxConcurrent
    BY Bounds
  <2>2. NoRequest \in Requests
    BY <2>1 DEF NoRequest, Requests, Answers
  <2>3. ProxyTypeOK
    BY <2>1, <2>2 DEF ProxyInit, ProxyTypeOK, Requests
  <2> QED BY <2>3 DEF ProxyInit, NobodyWaitsInVain, NoRequest, Waiting
<1>2. Section(req) = {}
  BY DEF Section, ProxyInit, NoRequest, InSection
<1>3. SlotsCounted
  BY <1>2, CountSection, FS_EmptySet DEF ProxyInit
<1> QED BY <1>1, <1>3 DEF ProxyInv

LEMMA ArriveKeeps ==
    ASSUME ProxyInv, NEW c \in Clients, NEW route \in Routes, Arrive(c, route)
    PROVE  ProxyInv'
<1>1. ~InSection(req[c]) /\ req[c] \in Requests /\ pending \in BOOLEAN /\ provider.token \in 0 .. MaxTokens
  BY DEF Arrive, InSection, ProxyInv, ProxyTypeOK, Requests
<1>2. CASE route # "allowed" /\ req' = [req EXCEPT ![c] = Told(c, route)] /\ UNCHANGED <<inFlight, pending>>
  <2>1. route \in Answers
    BY <1>2 DEF Routes, Answers, ProxyErrors
  <2> QED BY <1>1, <1>2, <2>1, ToldType, OneChanges DEF Arrive, ProxyInv, ProxyTypeOK
<1>3. CASE req' = [req EXCEPT ![c] = Told(c, "busy")] /\ UNCHANGED <<inFlight, pending>>
  <2>1. "busy" \in Answers
    BY DEF Answers, ProxyErrors
  <2> QED BY <1>1, <1>3, <2>1, ToldType, OneChanges DEF Arrive, ProxyInv, ProxyTypeOK
<1>4. CASE /\ inFlight < MaxConcurrent /\ inFlight' = inFlight + 1
           /\ provider.fresh /\ UNCHANGED pending
           /\ req' = [req EXCEPT ![c].pc = "call", ![c].token = provider.token]
  <2> DEFINE r == [req[c] EXCEPT !.pc = "call", !.token = provider.token]
  <2>1. r \in Requests /\ InSection(r) /\ ~Waiting(r)
    BY <1>1 DEF Requests, InSection, Waiting
  <2>2. req' = [req EXCEPT ![c] = r]
    BY <1>4 DEF ProxyInv, ProxyTypeOK
  <2> HIDE DEF r
  <2> QED BY <1>1, <1>4, <2>1, <2>2, OneChanges DEF Arrive, ProxyInv, ProxyTypeOK
<1>5. CASE /\ inFlight < MaxConcurrent /\ inFlight' = inFlight + 1
           /\ req' = [req EXCEPT ![c].pc = "wait"] /\ pending' = TRUE
  <2> DEFINE r == [req[c] EXCEPT !.pc = "wait"]
  <2>1. r \in Requests /\ InSection(r)
    BY <1>1 DEF Requests, InSection
  <2>2. req' = [req EXCEPT ![c] = r]
    BY <1>5 DEF ProxyInv, ProxyTypeOK
  <2> HIDE DEF r
  <2> QED BY <1>1, <1>5, <2>1, <2>2, OneChanges DEF Arrive, ProxyInv, ProxyTypeOK
<1> QED BY <1>2, <1>3, <1>4, <1>5 DEF Arrive

LEMMA AnswerKeeps ==
    ASSUME ProxyInv, NEW c \in Clients, NEW answer \in Answers, InSection(req[c]), Answer(c, answer)
    PROVE  ProxyInv'
BY ToldType, OneChanges DEF Answer, ProxyInv, ProxyTypeOK

LEMMA RejectedKeeps == ASSUME ProxyInv, NEW c \in Clients, Rejected(c) PROVE ProxyInv'
<1>1. req[c] \in Requests /\ InSection(req[c]) /\ pending \in BOOLEAN
  BY DEF Rejected, ProxyInv, ProxyTypeOK, Requests, InSection
<1>2. provider' \in [token : 0 .. MaxTokens, fresh : BOOLEAN]
  BY DEF Rejected, Invalidate, ProxyInv, ProxyTypeOK
<1>3. CASE req' = [req EXCEPT ![c].pc = "recall", ![c].token = provider'.token] /\ UNCHANGED pending
  <2> DEFINE r == [req[c] EXCEPT !.pc = "recall", !.token = provider'.token]
  <2>1. r \in Requests /\ InSection(r) /\ ~Waiting(r)
    BY <1>1, <1>2 DEF Requests, InSection, Waiting
  <2>2. req' = [req EXCEPT ![c] = r]
    BY <1>3 DEF ProxyInv, ProxyTypeOK
  <2> HIDE DEF r
  <2> QED BY <1>1, <1>2, <1>3, <2>1, <2>2, OneChanges DEF Rejected
<1>4. CASE req' = [req EXCEPT ![c].pc = "rewait"] /\ pending' = TRUE
  <2> DEFINE r == [req[c] EXCEPT !.pc = "rewait"]
  <2>1. r \in Requests /\ InSection(r)
    BY <1>1 DEF Requests, InSection
  <2>2. req' = [req EXCEPT ![c] = r]
    BY <1>4 DEF ProxyInv, ProxyTypeOK
  <2> HIDE DEF r
  <2> QED BY <1>1, <1>2, <1>4, <2>1, <2>2, OneChanges DEF Rejected
<1> QED BY <1>3, <1>4 DEF Rejected

(* The login ends for all who wait for it. *)
LEMMA LoggedInKeeps == ASSUME ProxyInv, LoggedIn PROVE ProxyInv'
<1>1. dev.issued + 1 \in 0 .. MaxTokens
  <2>1. dev.issued \in 0 .. MaxTokens /\ dev.issued < MaxTokens
    BY DEF LoggedIn, ProxyInv, ProxyTypeOK
  <2> QED BY <2>1, Bounds
<1>2. \A c \in Clients : /\ req'[c] \in Requests /\ ~Waiting(req'[c])
                         /\ InSection(req'[c]) <=> InSection(req[c])
  BY <1>1 DEF LoggedIn, ProxyInv, ProxyTypeOK, Requests, Waiting, InSection
<1>3. req' \in [Clients -> Requests]
  BY <1>2 DEF LoggedIn
<1>4. ProxyTypeOK'
  BY <1>1, <1>3 DEF LoggedIn, ProxyInv, ProxyTypeOK, Requests
<1>5. Section(req') = Section(req)
  BY <1>2 DEF Section
<1> QED BY <1>2, <1>4, <1>5, CountSection, CountSectionNext DEF LoggedIn, ProxyInv, NobodyWaitsInVain

LEMMA LoginFailsKeeps == ASSUME ProxyInv, LoginFails PROVE ProxyInv'
<1> DEFINE waiting == {c \in Clients : Waiting(req[c])}
<1>1. \A c \in Clients : /\ req'[c] \in Requests /\ ~Waiting(req'[c])
                         /\ InSection(req'[c]) <=> InSection(req[c]) /\ ~Waiting(req[c])
  <2> TAKE c \in Clients
  <2>1. {"credential", "rejected"} \subseteq Answers
    BY DEF Answers, ProxyErrors
  <2>2. req[c] \in Requests
    BY DEF ProxyInv, ProxyTypeOK, Requests
  <2> QED BY <2>1, <2>2, ToldType DEF LoginFails, Waiting, InSection
<1>2. Section(req') = Section(req) \ waiting /\ waiting \subseteq Section(req)
  BY <1>1 DEF Section, Waiting, InSection
<1> HIDE DEF waiting
<1>3. /\ IsFiniteSet(waiting) /\ Cardinality(waiting) \in Nat
      /\ Cardinality(Section(req')) = Cardinality(Section(req)) - Cardinality(waiting)
  <2>1. IsFiniteSet(waiting) /\ Cardinality(waiting) \in Nat
    BY <1>2, SectionFinite, FS_Subset, FS_CardinalityType
  <2>2. Section(req) \intersect waiting = waiting
    BY <1>2
  <2> QED BY <1>2, <2>1, <2>2, SectionFinite, FS_Difference
<1>4. SlotsCounted' /\ inFlight' \in 0 .. MaxConcurrent
  <2>1. inFlight' = inFlight - Cardinality(waiting)
    BY DEF LoginFails, waiting
  <2>2. inFlight = Cardinality(Section(req)) /\ inFlight \in 0 .. MaxConcurrent
    BY CountSection DEF ProxyInv, ProxyTypeOK
  <2>3. Cardinality(Section(req')) \in Nat
    BY SectionFinite
  <2> QED BY <1>3, <2>1, <2>2, <2>3, CountSectionNext, ProxyAssumption
<1>5. req' \in [Clients -> Requests]
  BY <1>1 DEF LoginFails
<1>6. ProxyTypeOK'
  BY <1>4, <1>5 DEF LoginFails, ProxyInv, ProxyTypeOK, Requests
<1> QED BY <1>1, <1>4, <1>6 DEF ProxyInv, NobodyWaitsInVain

(* The verifier has its answer, or dies when it waits for none. *)
LEMMA VerifierFreed ==
    ASSUME ProxyInv, req[Verifier].pc \in {"idle", "done"},
           req' = [req EXCEPT ![Verifier] = NoRequest],
           UNCHANGED <<inFlight, provider, pending, dev>>
    PROVE  ProxyInv'
<1>1. NoRequest \in Requests /\ ~InSection(NoRequest) /\ ~Waiting(NoRequest)
  BY ProxyAssumption DEF NoRequest, Requests, Answers, InSection, Waiting
<1> QED BY <1>1, OneChanges, ProxyAssumption DEF InSection, ProxyInv, ProxyTypeOK

LEMMA CallEndsKeeps == ASSUME ProxyInv, NEW c \in Clients, CallEnds(c) PROVE ProxyInv'
<1>1. {"upstream", "upstream-timeout", "too-large", "match", "mismatch", "5xx", "rejected"} \subseteq Answers
  BY DEF Answers, ProxyErrors, DevAnswers
<1>2. CASE Breaks(c)
  BY <1>1, <1>2, AnswerKeeps DEF Breaks, InSection
<1>3. CASE Answers200(c, FromDev(c))
  <2>1. FromDev(c) \subseteq Answers
    BY <1>1 DEF FromDev
  <2> QED BY <1>3, <2>1, AnswerKeeps DEF Answers200, InSection
<1>4. CASE Rejected(c)
  BY <1>4, RejectedKeeps
<1>5. CASE RejectedAgain(c)
  BY <1>1, <1>5, AnswerKeeps DEF RejectedAgain, InSection
<1> QED BY <1>2, <1>3, <1>4, <1>5 DEF CallEnds

LEMMA DevChangesKeeps == ASSUME ProxyInv, DevChanges PROVE ProxyInv'
<1>1. UNCHANGED <<req, inFlight, pending>> /\ ProxyTypeOK'
  BY DEF DevChanges, Expire, Forget, ProxyInv, ProxyTypeOK
<1> QED BY <1>1 DEF ProxyInv, SlotsCounted, NobodyWaitsInVain

LEMMA ProxyStutters == ASSUME ProxyInv, UNCHANGED proxyVars PROVE ProxyInv'
BY DEF proxyVars, ProxyInv, ProxyTypeOK, SlotsCounted, NobodyWaitsInVain

LEMMA ProxyKept == ProxyInv /\ [Next]_vars => ProxyInv'
<1> SUFFICES ASSUME ProxyInv, [Next]_vars PROVE ProxyInv'
  OBVIOUS
<1>1. CASE UNCHANGED proxyVars
  BY <1>1, ProxyStutters
<1>2. CASE AskDev
  <2>1. Route \in Routes /\ Arrive(Verifier, Route)
    BY <1>2 DEF AskDev, Route, Routes
  <2> QED BY <2>1, ArriveKeeps, ProxyAssumption
<1>3. CASE ReadDev \/ Crash
  BY <1>3, VerifierFreed DEF ReadDev, Read, Crash
<1>4. CASE LoginEnds
  BY <1>4, LoggedInKeeps, LoginFailsKeeps DEF LoginEnds
<1>5. CASE OthersAsk
  BY <1>5, ArriveKeeps DEF OthersAsk, Routes
<1>6. CASE DevChanges
  BY <1>6, DevChangesKeeps
<1>7. CASE \E c \in Clients : CallEnds(c)
  BY <1>7, CallEndsKeeps
<1>8. CASE Start \/ CodexEnds \/ NotDeployed \/ BeginVerify \/ Smoke \/ Ui \/ ReadHistory
           \/ RecordFailure \/ EnqueueFollowUp \/ Recover
  <2>1. UNCHANGED proxyVars
    BY <1>8 DEF Start, CodexEnds, NotDeployed, BeginVerify, Smoke, Ui, ReadHistory, RecordFailure,
       EnqueueFollowUp, Recover
  <2> QED BY <2>1, ProxyStutters
<1> QED BY <1>1, <1>2, <1>3, <1>4, <1>5, <1>6, <1>7, <1>8 DEF Next, Releaser, vars

(* createDevApiProxy counts the requests in its handler on every way out   *)
(* of it: a failed login, which many wait for at once, a rejected token, a *)
(* call that breaks.  The limit is neither exceeded nor lost.              *)
THEOREM SlotsAreCounted == Spec => []SlotsCounted
<1>1. Init => ProxyInv
  BY ProxyInitInv DEF Init
<1>2. ProxyInv => SlotsCounted
  BY DEF ProxyInv
<1> QED BY <1>1, <1>2, ProxyKept, PTL DEF Spec

(* createServiceLoginProvider: whoever waits for a token has a login under *)
(* way, although the login is shared and any of its users can invalidate   *)
(* the token meanwhile.                                                    *)
THEOREM LoginIsUnderWay == Spec => []NobodyWaitsInVain
<1>1. Init => ProxyInv
  BY ProxyInitInv DEF Init
<1>2. ProxyInv => NobodyWaitsInVain
  BY DEF ProxyInv
<1> QED BY <1>1, <1>2, ProxyKept, PTL DEF Spec

-----------------------------------------------------------------------------
(* The types of the desk and of the verification. *)

RunType == [reason : Reasons, followUp : {"none", "requested", "exhausted"}]
VerifyType == [pc : {"idle", "smoke", "live", "asked", "ui", "history", "record", "enqueue"},
               attempt : 0 .. Attempts, check : 0 .. Checks, failed : BOOLEAN,
               infra : BOOLEAN, down : BOOLEAN, chain : 0 .. MaxRuns]

DeskTypeOK ==
    /\ run \in Seq(RunType) /\ Len(run) <= MaxRuns
    /\ state \in RunStates
    /\ status \in {"new", "in_progress", "blocked", "ready_for_retest"}
    /\ scenario \in Scenarios
    /\ verify \in VerifyType
    /\ blind \in BOOLEAN /\ faults \in 0 .. MaxFaults

(* What a verification relies on: its result does not change under it, the *)
(* check it asks for is one of the spec, and nobody else asks for it.      *)
InHand ==
    /\ verify.pc \in {"smoke", "live", "asked", "ui", "history", "record"} => state = "verifying"
    /\ verify.pc \in {"live", "asked"} => verify.check \in 1 .. Checks /\ verify.attempt \in 1 .. Attempts
    /\ req[Verifier].pc # "idle" => verify.pc = "asked"

(* A result that works is contradicted neither by the answer at hand nor   *)
(* by what the attempt has counted so far.                                 *)
Contradicts(r) == r.pc = "done" /\ r.answer \in {"none", "mismatch", "policy", "method"}
Unblamed ==
    Works => /\ ~Contradicts(req[Verifier])
             /\ (verify.pc \in {"smoke", "live", "asked"} /\ verify.failed) => verify.infra \/ verify.down

IInv == ProxyInv /\ DeskTypeOK /\ InHand /\ Unblamed /\ EnvironmentNotCharged

LEMMA LiveBounds == /\ Checks \in Nat /\ Checks > 0 /\ Attempts \in Nat /\ Attempts > 0
                    /\ MaxRuns \in Nat /\ MaxFaults \in Nat
BY LiveAssumption

LEMMA NotVerifyingType == /\ NotVerifying \in VerifyType /\ NotVerifying.pc = "idle"
                          /\ [NotVerifying EXCEPT !.pc = "smoke"] \in VerifyType
                          /\ [NotVerifying EXCEPT !.pc = "smoke"].pc = "smoke"
                          /\ ~[NotVerifying EXCEPT !.pc = "smoke"].failed
                          /\ [NotVerifying EXCEPT !.pc = "enqueue"] \in VerifyType
                          /\ [NotVerifying EXCEPT !.pc = "enqueue"].pc = "enqueue"
<1>1. 0 \in 0 .. Attempts /\ 0 \in 0 .. Checks /\ 0 \in 0 .. MaxRuns
  BY LiveBounds
<1>2. NotVerifying \in VerifyType /\ NotVerifying.pc = "idle"
  BY <1>1 DEF NotVerifying, VerifyType
<1>3. ~[NotVerifying EXCEPT !.pc = "smoke"].failed
  BY DEF NotVerifying
<1> QED BY <1>2, <1>3 DEF VerifyType

LEMMA NoScenarioType == NoScenario \in Scenarios
BY DEF NoScenario, Scenarios

(* The returns at the end of a history: all of its runs after the last one *)
(* that no failed verification started.                                    *)
OthersOf(r) == {i \in DOMAIN r : r[i].reason # "verification_failed"}
NewestOf(S) == CHOOSE i \in S : \A j \in S : j <= i
ChainOf(r) == Len(r) - (IF OthersOf(r) = {} THEN 0 ELSE NewestOf(OthersOf(r)))
EndsWith(r, k) ==
    /\ k \in 0 .. Len(r)
    /\ \A j \in Len(r) - k + 1 .. Len(r) : r[j].reason = "verification_failed"
    /\ k < Len(r) => r[Len(r) - k].reason # "verification_failed"

LEMMA NewestIs ==
    ASSUME NEW n \in Nat, NEW S \in SUBSET (1 .. n), S # {}
    PROVE  NewestOf(S) \in S /\ \A j \in S : j <= NewestOf(S)
<1> DEFINE ends == {n - i : i \in S}
<1>1. ends \subseteq Nat /\ ends # {}
  <2>1. \A i \in S : n - i \in Nat
    OBVIOUS
  <2> QED BY <2>1
<1>2. PICK e \in ends : \A d \in ends : e <= d
  <2> DEFINE below == OpToRel(<, Nat)
  <2>1. PICK e \in ends : \A d \in ends : <<d, e>> \notin below
    BY <1>1, NatLessThanWellFounded, WFMin
  <2>2. SUFFICES ASSUME NEW d \in ends PROVE e <= d
    OBVIOUS
  <2>3. e \in Nat /\ d \in Nat
    BY <1>1
  <2>4. d < e => <<d, e>> \in below
    BY <2>3 DEF OpToRel
  <2> HIDE DEF below
  <2>5. ~(d < e)
    BY <2>1, <2>4
  <2> QED BY <2>3, <2>5
<1>3. PICK i \in S : e = n - i
  OBVIOUS
<1>4. \A j \in S : j <= i
  <2> TAKE j \in S
  <2>1. n - j \in ends
    OBVIOUS
  <2>2. e <= n - j
    BY <1>2, <2>1
  <2>3. i \in Nat /\ j \in Nat
    OBVIOUS
  <2> QED BY <1>3, <2>2, <2>3
<1> HIDE DEF ends
<1> QED BY <1>4 DEF NewestOf

LEMMA ChainEnds == ASSUME NEW r \in Seq(RunType) PROVE EndsWith(r, ChainOf(r))
<1> DEFINE n == Len(r)
<1>1. n \in Nat /\ DOMAIN r = 1 .. n
  BY LenProperties
<1>2. CASE OthersOf(r) = {}
  <2>1. ChainOf(r) = n
    BY <1>1, <1>2 DEF ChainOf
  <2>2. \A j \in 1 .. n : r[j].reason = "verification_failed"
    BY <1>1, <1>2 DEF OthersOf
  <2> HIDE DEF n
  <2>3. n \in 0 .. n /\ n - n + 1 = 1 /\ ~(n < n)
    BY <1>1
  <2> QED BY <2>1, <2>2, <2>3 DEF EndsWith, n
<1>3. CASE OthersOf(r) # {}
  <2> DEFINE m == NewestOf(OthersOf(r))
  <2>1. m \in OthersOf(r) /\ \A j \in OthersOf(r) : j <= m
    <3>1. OthersOf(r) \in SUBSET (1 .. n)
      BY <1>1 DEF OthersOf
    <3> QED BY <1>1, <1>3, <3>1, NewestIs
  <2>2. ChainOf(r) = n - m
    BY <1>3 DEF ChainOf
  <2> HIDE DEF m
  <2>3. m \in 1 .. n /\ r[m].reason # "verification_failed"
    BY <1>1, <2>1 DEF OthersOf
  <2>4. \A j \in 1 .. n : j > m => r[j].reason = "verification_failed"
    <3> TAKE j \in 1 .. n
    <3>1. j \in OthersOf(r) => j <= m
      BY <2>1
    <3> QED BY <1>1, <2>3, <3>1 DEF OthersOf
  <2> HIDE DEF n
  <2>5. /\ n - m \in 0 .. n /\ n - (n - m) = m
        /\ \A j \in n - (n - m) + 1 .. n : j \in 1 .. n /\ j > m
    BY <1>1, <2>3
  <2> QED BY <2>2, <2>3, <2>4, <2>5 DEF EndsWith, n
<1> QED BY <1>2, <1>3

LEMMA EndsOnce ==
    ASSUME NEW r \in Seq(RunType), NEW k, NEW m, EndsWith(r, k), EndsWith(r, m)
    PROVE  k = m
<1>1. Len(r) \in Nat /\ k \in 0 .. Len(r) /\ m \in 0 .. Len(r)
  BY LenProperties DEF EndsWith
<1>2. ~(k < m)
  <2>1. SUFFICES ASSUME k < m PROVE FALSE
    OBVIOUS
  <2>2. k < Len(r) /\ Len(r) - k \in Len(r) - m + 1 .. Len(r)
    BY <1>1, <2>1
  <2> QED BY <2>2 DEF EndsWith
<1>3. ~(m < k)
  <2>1. SUFFICES ASSUME m < k PROVE FALSE
    OBVIOUS
  <2>2. m < Len(r) /\ Len(r) - m \in Len(r) - k + 1 .. Len(r)
    BY <1>1, <2>1
  <2> QED BY <2>2 DEF EndsWith
<1> QED BY <1>1, <1>2, <1>3

LEMMA ChainIs ==
    ASSUME NEW r \in Seq(RunType), NEW k, EndsWith(r, k)
    PROVE  ChainOf(r) = k
BY ChainEnds, EndsOnce

LEMMA ChainNat == ASSUME NEW r \in Seq(RunType) PROVE ChainOf(r) \in Nat
<1>1. Len(r) \in Nat /\ ChainOf(r) \in 0 .. Len(r)
  BY ChainEnds, LenProperties DEF EndsWith
<1> QED BY <1>1

LEMMA ChainDef == Chain = ChainOf(run)
BY DEF Chain, ChainOf, OthersOf, NewestOf

LEMMA ChainType == ASSUME DeskTypeOK PROVE Chain \in 0 .. MaxRuns
<1>1. Len(run) \in Nat /\ Len(run) <= MaxRuns /\ ChainOf(run) \in 0 .. Len(run)
  BY ChainEnds, LenProperties DEF DeskTypeOK, EndsWith
<1> QED BY <1>1, ChainDef, LiveBounds

-----------------------------------------------------------------------------
(* What a step of the proxy means for the verifier. *)

ProxyStep == LoginEnds \/ OthersAsk \/ DevChanges \/ \E c \in Clients : CallEnds(c)

LEMMA VerifierHeard ==
    ASSUME ProxyInv, ProxyStep
    PROVE  /\ req[Verifier].pc = "idle" => req'[Verifier].pc = "idle"
           /\ Works /\ Contradicts(req'[Verifier]) => Contradicts(req[Verifier])
<1>1. Verifier \in Clients /\ req \in [Clients -> Requests]
  BY ProxyAssumption DEF ProxyInv, ProxyTypeOK, Requests
<1>2. \A answer : Told(Verifier, answer).answer = answer /\ Told(Verifier, answer).pc = "done"
  BY DEF Told, NoRequest
<1>3. CASE req'[Verifier] = req[Verifier]
  BY <1>3
<1>4. CASE LoginEnds
  <2>1. CASE LoggedIn
    BY <1>1, <2>1 DEF LoggedIn, Contradicts, Requests
  <2>2. CASE LoginFails
    BY <1>1, <1>2, <2>2 DEF LoginFails, Contradicts
  <2> QED BY <1>4, <2>1, <2>2 DEF LoginEnds
<1>5. CASE OthersAsk
  <2>1. PICK c \in Clients \ {Verifier} : Arrive(c, "allowed")
    BY <1>5 DEF OthersAsk
  <2>2. req'[Verifier] = req[Verifier]
    BY <1>1, <2>1 DEF Arrive
  <2> QED BY <1>3, <2>2
<1>6. CASE DevChanges
  BY <1>3, <1>6 DEF DevChanges, Expire, Forget
<1>7. ASSUME NEW c \in Clients, CallEnds(c)
      PROVE  /\ req[Verifier].pc = "idle" => req'[Verifier].pc = "idle"
             /\ Works /\ Contradicts(req'[Verifier]) => Contradicts(req[Verifier])
  <2>1. CASE c # Verifier
    <3>1. req'[Verifier] = req[Verifier]
      BY <1>1, <1>7, <2>1 DEF CallEnds, Breaks, Answers200, Answer, Rejected, RejectedAgain
    <3> QED BY <1>3, <3>1
  <2>2. CASE c = Verifier
    <3>1. req[Verifier].pc # "idle"
      BY <1>7, <2>2 DEF CallEnds, Breaks, Answers200, Rejected, RejectedAgain
    <3>2. CASE Breaks(c) \/ RejectedAgain(c)
      BY <1>1, <1>2, <2>2, <3>1, <3>2 DEF Breaks, RejectedAgain, Answer, Contradicts
    <3>3. CASE Answers200(c, FromDev(c))
      BY <1>1, <1>2, <2>2, <3>1, <3>3 DEF Answers200, FromDev, Answer, Contradicts, Works
    <3>4. CASE Rejected(c)
      BY <1>1, <2>2, <3>1, <3>4 DEF Rejected, Contradicts, Requests
    <3> QED BY <1>7, <3>2, <3>3, <3>4 DEF CallEnds
  <2> QED BY <2>1, <2>2
<1> QED BY <1>4, <1>5, <1>6, <1>7 DEF ProxyStep

LEMMA ProxyStepKeeps == ASSUME IInv, ProxyStep, ProxyInv' PROVE IInv'
<1>1. UNCHANGED taskVars
  BY DEF ProxyStep, LoginEnds, OthersAsk, DevChanges, CallEnds
<1>2. DeskTypeOK' /\ EnvironmentNotCharged'
  BY <1>1 DEF IInv, DeskTypeOK, EnvironmentNotCharged, taskVars, Works
<1>3. InHand' /\ Unblamed'
  BY <1>1, VerifierHeard DEF IInv, InHand, Unblamed, taskVars, Works
<1> QED BY <1>2, <1>3 DEF IInv

-----------------------------------------------------------------------------
(* The steps of the desk and of the release worker, one lemma for each. *)

LEMMA EnqueueType == ASSUME DeskTypeOK, NEW reason \in Reasons, Enqueue(reason)
                     PROVE  run' \in Seq(RunType) /\ Len(run') <= MaxRuns /\ state' \in RunStates
<1> DEFINE r == [reason |-> reason, followUp |-> "none"]
<1>1. r \in RunType
  BY DEF RunType
<1>2. run' = Append(run, r) /\ state' = "queued" /\ Len(run) < MaxRuns /\ run \in Seq(RunType)
  BY DEF Enqueue, DeskTypeOK
<1> HIDE DEF r
<1>3. run' \in Seq(RunType) /\ Len(run') = Len(run) + 1 /\ Len(run) \in Nat
  BY <1>1, <1>2, AppendProperties, LenProperties
<1> QED BY <1>2, <1>3, LiveBounds DEF RunStates

LEMMA StartKeeps == ASSUME IInv, Start, ProxyInv' PROVE IInv'
<1>1. DeskTypeOK'
  BY EnqueueType DEF IInv, DeskTypeOK, Start, Reasons
<1>2. InHand' /\ Unblamed' /\ EnvironmentNotCharged'
  BY DEF IInv, InHand, Unblamed, EnvironmentNotCharged, Start, Accepts, proxyVars, Works
<1> QED BY <1>1, <1>2 DEF IInv

LEMMA CodexEndsKeeps == ASSUME IInv, CodexEnds, ProxyInv' PROVE IInv'
<1>1. DeskTypeOK'
  BY EnqueueType DEF IInv, DeskTypeOK, CodexEnds, Reasons, RunStates
<1>2. verify.pc \in {"idle", "enqueue"} /\ req[Verifier].pc = "idle" /\ UNCHANGED <<verify, req>>
  BY DEF IInv, InHand, DeskTypeOK, VerifyType, CodexEnds, proxyVars
<1>3. InHand' /\ Unblamed' /\ EnvironmentNotCharged'
  BY <1>2 DEF InHand, Unblamed, Contradicts, EnvironmentNotCharged
<1> QED BY <1>1, <1>3 DEF IInv

(* A step after which no verification is under way. *)
LEMMA AtRest ==
    ASSUME DeskTypeOK', ProxyInv', verify'.pc \in {"idle", "enqueue"}, req'[Verifier].pc = "idle"
    PROVE  IInv'
BY DEF IInv, InHand, Unblamed, Contradicts, EnvironmentNotCharged

LEMMA NotDeployedKeeps == ASSUME IInv, NotDeployed, ProxyInv' PROVE IInv'
<1>1. DeskTypeOK'
  BY NoScenarioType DEF IInv, DeskTypeOK, NotDeployed, RunStates
<1>2. verify'.pc = "idle" /\ req'[Verifier].pc = "idle"
  BY DEF IInv, InHand, NotDeployed, proxyVars
<1> QED BY <1>1, <1>2, AtRest

LEMMA BeginVerifyKeeps == ASSUME IInv, BeginVerify, ProxyInv' PROVE IInv'
<1>1. DeskTypeOK' /\ verify'.pc = "smoke" /\ ~verify'.failed
  BY NotVerifyingType DEF IInv, DeskTypeOK, BeginVerify, RunStates
<1>2. req'[Verifier].pc = "idle" /\ state' = "verifying"
  BY DEF IInv, InHand, BeginVerify, proxyVars
<1> QED BY <1>1, <1>2 DEF IInv, InHand, Unblamed, Contradicts, EnvironmentNotCharged

(* The environment is at fault: the verification is over. *)
LEMMA TransientKeeps ==
    ASSUME IInv, Transient, UNCHANGED <<run, blind, faults>>, ProxyInv', req'[Verifier].pc = "idle"
    PROVE  IInv'
<1>1. DeskTypeOK' /\ verify'.pc = "idle"
  BY NotVerifyingType DEF IInv, DeskTypeOK, Transient, RunStates
<1> QED BY <1>1, AtRest

(* The scenario is at fault: it must not be one that works. *)
LEMMA ChargeKeeps ==
    ASSUME IInv, Charge, ~Works, verify.pc \in {"smoke", "ui"},
           UNCHANGED <<proxyVars, run, blind, faults>>, ProxyInv'
    PROVE  IInv'
<1>1. DeskTypeOK' /\ verify'.pc = "history"
  BY DEF IInv, DeskTypeOK, VerifyType, Charge
<1>2. ~Works' /\ req'[Verifier].pc = "idle" /\ state' = "verifying"
  BY DEF IInv, InHand, Charge, proxyVars, Works
<1> QED BY <1>1, <1>2 DEF IInv, InHand, Unblamed, EnvironmentNotCharged

LEMMA SmokeKeeps == ASSUME IInv, Smoke, ProxyInv' PROVE IInv'
<1>1. verify.pc = "smoke" /\ req[Verifier].pc = "idle" /\ state = "verifying" /\ UNCHANGED req
  BY DEF IInv, InHand, Smoke, proxyVars
<1>2. CASE verify' = Contract(scenario.spec) /\ UNCHANGED <<state, status, scenario>>
  <2>1. 1 \in 0 .. Attempts /\ 1 \in 0 .. Checks /\ 1 \in 1 .. Checks /\ 1 \in 1 .. Attempts
    BY LiveBounds
  <2>2. verify' \in VerifyType
    BY <1>2, <2>1 DEF IInv, DeskTypeOK, VerifyType, Contract
  <2>3. DeskTypeOK'
    BY <1>2, <2>2 DEF IInv, DeskTypeOK, Smoke
  <2>4. verify'.pc \in {"live", "ui", "history"} /\ verify'.failed = verify.failed
    BY <1>2 DEF IInv, DeskTypeOK, VerifyType, Contract
  <2>5. verify'.pc = "live" => verify'.check = 1 /\ verify'.attempt = 1
    BY <1>2 DEF IInv, DeskTypeOK, VerifyType, Contract
  <2>6. verify'.pc = "history" => ~Works
    BY <1>2 DEF IInv, DeskTypeOK, VerifyType, Contract, Works
  <2>7. Works' = Works
    BY <1>2 DEF Works
  <2>8. InHand'
    BY <1>1, <1>2, <2>1, <2>4, <2>5 DEF InHand
  <2>9. verify'.infra = verify.infra /\ verify'.down = verify.down
    BY <1>2 DEF IInv, DeskTypeOK, VerifyType, Contract
  <2>10. Unblamed' /\ EnvironmentNotCharged'
    BY <1>1, <2>4, <2>6, <2>7, <2>9 DEF IInv, Unblamed, Contradicts, EnvironmentNotCharged
  <2> QED BY <2>3, <2>8, <2>10 DEF IInv
<1>3. CASE Transient
  BY <1>1, <1>3, TransientKeeps DEF Smoke
<1>4. CASE Charge /\ ~Works
  BY <1>1, <1>4, ChargeKeeps DEF Smoke
<1> QED BY <1>2, <1>3, <1>4 DEF Smoke

LEMMA AskDevKeeps == ASSUME IInv, AskDev, ProxyInv' PROVE IInv'
<1>1. DeskTypeOK' /\ verify' = [verify EXCEPT !.pc = "asked"] /\ verify'.pc = "asked"
  BY DEF IInv, DeskTypeOK, VerifyType, AskDev
<1>2. InHand'
  BY <1>1 DEF IInv, InHand, DeskTypeOK, VerifyType, AskDev
<1>3. ~(Works /\ Contradicts(req'[Verifier]))
  <2>1. SUFFICES ASSUME Works PROVE ~Contradicts(req'[Verifier])
    OBVIOUS
  <2>2. Verifier \in Clients /\ req \in [Clients -> Requests] /\ req[Verifier].pc = "idle"
    BY ProxyAssumption DEF IInv, ProxyInv, ProxyTypeOK, Requests, AskDev, Arrive
  <2>3. Route = "allowed"
    BY <2>1 DEF Works, Route
  <2>4. Arrive(Verifier, "allowed")
    BY <2>3 DEF AskDev
  <2> QED BY <2>2, <2>4 DEF Arrive, Told, NoRequest, Contradicts, Requests
<1> QED BY <1>1, <1>2, <1>3 DEF IInv, Unblamed, EnvironmentNotCharged, AskDev, Works, DeskTypeOK, VerifyType

LEMMA ReadDevKeeps == ASSUME IInv, ReadDev, ProxyInv' PROVE IInv'
<1> DEFINE answer == req[Verifier].answer
           v == [verify EXCEPT !.failed = @ \/ Fails(answer),
                               !.infra = @ \/ Infrastructure(answer),
                               !.down = @ \/ answer = "5xx"]
<1>1. v \in VerifyType /\ v.check \in 1 .. Checks /\ v.attempt \in 1 .. Attempts
  BY DEF IInv, DeskTypeOK, VerifyType, InHand, ReadDev
<1>2. Works /\ v.failed => v.infra \/ v.down
  <2>1. SUFFICES ASSUME Works, v.failed PROVE v.infra \/ v.down
    OBVIOUS
  <2>2. answer \in Answers /\ answer \notin {"none", "mismatch", "policy", "method"} /\ req[Verifier].pc = "done"
    BY <2>1, ProxyAssumption DEF IInv, ProxyInv, ProxyTypeOK, Unblamed, Contradicts, ReadDev
  <2>3. CASE verify.failed
    <3>1. verify.infra \/ verify.down
      BY <2>1, <2>3 DEF IInv, Unblamed, ReadDev
    <3>2. (verify.infra => v.infra) /\ (verify.down => v.down)
      BY DEF IInv, DeskTypeOK, VerifyType
    <3> QED BY <3>1, <3>2
  <2>4. CASE Fails(answer)
    BY <2>2, <2>4 DEF IInv, DeskTypeOK, VerifyType, Fails, Answers, ProxyErrors, DevAnswers, Infrastructure
  <2>5. verify.failed \/ Fails(answer)
    BY <2>1 DEF IInv, DeskTypeOK, VerifyType
  <2> QED BY <2>3, <2>4, <2>5
<1>3. req'[Verifier].pc = "idle"
  BY ProxyAssumption DEF ReadDev, Read, NoRequest, IInv, ProxyInv, ProxyTypeOK
<1>4. CASE Transient
  BY <1>3, <1>4, TransientKeeps DEF ReadDev
<1>5. CASE verify' = NextStep(v) /\ ~(NextStep(v).pc = "history" /\ v.infra) /\ UNCHANGED <<state, status, scenario>>
  <2> HIDE DEF v, answer
  <2>1. /\ NextStep(v) \in VerifyType /\ NextStep(v).pc \in {"live", "ui", "history"}
        /\ NextStep(v).pc = "live" =>
              /\ NextStep(v).check \in 1 .. Checks /\ NextStep(v).attempt \in 1 .. Attempts
              /\ NextStep(v).failed => v.failed /\ NextStep(v).infra = v.infra /\ NextStep(v).down = v.down
        /\ NextStep(v).pc = "history" => v.failed /\ NextStep(v).down = v.down
    <3>1. CASE v.check < Checks
      <4> DEFINE n == v.check + 1
      <4>1. NextStep(v) = [v EXCEPT !.pc = "live", !.check = n]
        BY <1>1, <3>1, LiveBounds DEF NextStep
      <4>2. n \in 1 .. Checks /\ n \in 0 .. Checks
        BY <1>1, <3>1, LiveBounds
      <4> HIDE DEF n
      <4> QED BY <1>1, <4>1, <4>2 DEF VerifyType
    <3>2. CASE v.check = Checks /\ ~v.failed
      <4>1. NextStep(v) = [v EXCEPT !.pc = "ui"]
        BY <3>2, LiveBounds DEF NextStep
      <4> QED BY <1>1, <4>1 DEF VerifyType
    <3>3. CASE v.check = Checks /\ v.failed /\ v.attempt < Attempts
      <4> DEFINE n == v.attempt + 1
      <4>1. NextStep(v) = [v EXCEPT !.pc = "live", !.attempt = n, !.check = 1,
                                    !.failed = FALSE, !.infra = FALSE, !.down = FALSE]
        BY <3>3, LiveBounds DEF NextStep, NextAttempt
      <4>2. n \in 1 .. Attempts /\ n \in 0 .. Attempts /\ 1 \in 1 .. Checks /\ 1 \in 0 .. Checks
        BY <1>1, <3>3, LiveBounds
      <4> HIDE DEF n
      <4> QED BY <1>1, <4>1, <4>2 DEF VerifyType
    <3>4. CASE v.check = Checks /\ v.failed /\ ~(v.attempt < Attempts)
      <4>1. NextStep(v) = [v EXCEPT !.pc = "history"]
        BY <3>4, LiveBounds DEF NextStep
      <4> QED BY <1>1, <3>4, <4>1 DEF VerifyType
    <3>5. v.check < Checks \/ v.check = Checks
      BY <1>1, LiveBounds
    <3>6. v.failed \in BOOLEAN
      BY <1>1 DEF VerifyType
    <3> QED BY <3>1, <3>2, <3>3, <3>4, <3>5, <3>6
  <2>2. DeskTypeOK'
    BY <1>5, <2>1 DEF IInv, DeskTypeOK, ReadDev
  <2>3. state = "verifying"
    BY DEF IInv, InHand, ReadDev
  <2>4. InHand'
    BY <1>3, <1>5, <2>1, <2>3 DEF InHand
  <2>5. Works' = Works
    BY <1>5 DEF Works
  <2>6. Unblamed' /\ EnvironmentNotCharged'
    BY <1>2, <1>3, <1>5, <2>1, <2>5 DEF Unblamed, Contradicts, EnvironmentNotCharged
  <2> QED BY <2>2, <2>4, <2>6 DEF IInv
<1> QED BY <1>4, <1>5 DEF ReadDev

LEMMA UiKeeps == ASSUME IInv, Ui, ProxyInv' PROVE IInv'
<1>1. verify.pc = "ui" /\ req'[Verifier].pc = "idle"
  BY DEF IInv, InHand, Ui, proxyVars
<1>2. CASE Verified
  <2>1. DeskTypeOK' /\ verify'.pc = "idle"
    BY <1>2, NoScenarioType, NotVerifyingType DEF IInv, DeskTypeOK, Verified, Ui, RunStates
  <2> QED BY <1>1, <2>1, AtRest
<1>3. CASE Charge /\ ~Works
  BY <1>1, <1>3, ChargeKeeps DEF Ui
<1>4. CASE Transient
  BY <1>1, <1>4, TransientKeeps DEF Ui
<1> QED BY <1>2, <1>3, <1>4 DEF Ui

LEMMA ReadHistoryKeeps == ASSUME IInv, ReadHistory, ProxyInv' PROVE IInv'
<1>1. 0 \in 0 .. MaxRuns /\ Chain \in 0 .. MaxRuns
  BY ChainType, LiveBounds DEF IInv
<1>2. faults' \in 0 .. MaxFaults
  BY LiveBounds DEF IInv, DeskTypeOK, ReadHistory
<1>3. DeskTypeOK' /\ verify'.pc = "record" /\ verify'.down = verify.down
  BY <1>1, <1>2 DEF IInv, DeskTypeOK, VerifyType, ReadHistory
<1>4. req'[Verifier].pc = "idle" /\ state' = "verifying" /\ Works' = Works
  BY DEF IInv, InHand, ReadHistory, proxyVars, Works
<1> QED BY <1>3, <1>4 DEF IInv, InHand, Unblamed, Contradicts, EnvironmentNotCharged, ReadHistory

LEMMA RecordFailureKeeps == ASSUME IInv, RecordFailure, ProxyInv' PROVE IInv'
<1>1. PICK mark \in {"exhausted", "requested"} : run' = [run EXCEPT ![Len(run)].followUp = mark]
  BY DEF RecordFailure
<1>2. run \in Seq(RunType) /\ Len(run) \in Nat /\ DOMAIN run = 1 .. Len(run) /\ Len(run) <= MaxRuns
  BY LenProperties DEF IInv, DeskTypeOK
<1>3. run' \in Seq(RunType) /\ Len(run') <= MaxRuns
  <2>1. CASE Len(run) \in 1 .. Len(run)
    <3> DEFINE r == [run[Len(run)] EXCEPT !.followUp = mark]
    <3>1. r \in RunType
      <4>1. run[Len(run)] \in RunType
        BY <1>2, <2>1, ElementOfSeq
      <4> QED BY <4>1 DEF RunType
    <3>2. run' = [run EXCEPT ![Len(run)] = r]
      BY <1>1
    <3> HIDE DEF r
    <3> QED BY <1>2, <2>1, <3>1, <3>2, ExceptSeq
  <2>2. CASE Len(run) \notin 1 .. Len(run)
    <3>1. run = <<>>
      BY <1>2, <2>2, EmptySeq
    <3>2. run' = run
      BY <1>1, <1>2, <2>2, <3>1
    <3> QED BY <1>2, <3>2
  <2> QED BY <2>1, <2>2
<1>4. verify' \in VerifyType /\ verify'.pc \in {"idle", "enqueue"}
  BY NotVerifyingType DEF RecordFailure
<1>5. DeskTypeOK'
  BY <1>3, <1>4, NoScenarioType DEF IInv, DeskTypeOK, RecordFailure, RunStates
<1>6. req'[Verifier].pc = "idle"
  BY DEF IInv, InHand, RecordFailure, proxyVars
<1> QED BY <1>4, <1>5, <1>6, AtRest

LEMMA PostType == ASSUME DeskTypeOK, PostFollowUp
                  PROVE  /\ run' \in Seq(RunType) /\ Len(run') <= MaxRuns /\ state' \in RunStates
                         /\ faults' \in 0 .. MaxFaults
<1>1. faults' \in 0 .. MaxFaults
  BY LiveBounds DEF DeskTypeOK, PostFollowUp
<1> QED BY <1>1, EnqueueType DEF DeskTypeOK, PostFollowUp, Reasons

LEMMA FollowUpKeeps == ASSUME IInv, EnqueueFollowUp \/ Recover, ProxyInv' PROVE IInv'
<1>1. DeskTypeOK' /\ verify'.pc = "idle"
  BY PostType, NotVerifyingType DEF IInv, DeskTypeOK, EnqueueFollowUp, Recover
<1>2. req'[Verifier].pc = "idle"
  BY DEF IInv, InHand, EnqueueFollowUp, Recover, proxyVars
<1> QED BY <1>1, <1>2, AtRest

LEMMA CrashKeeps == ASSUME IInv, Crash, ProxyInv' PROVE IInv'
<1>1. faults' \in 0 .. MaxFaults
  BY LiveBounds DEF IInv, DeskTypeOK, Crash
<1>2. DeskTypeOK' /\ verify'.pc = "idle"
  BY <1>1, NotVerifyingType DEF IInv, DeskTypeOK, Crash
<1>3. req'[Verifier].pc = "idle"
  BY ProxyAssumption DEF IInv, ProxyInv, ProxyTypeOK, Crash, NoRequest
<1> QED BY <1>2, <1>3, AtRest

LEMMA StutterKeeps == ASSUME IInv, UNCHANGED vars PROVE IInv'
<1>1. ProxyInv'
  BY ProxyStutters DEF IInv, vars
<1> QED BY <1>1 DEF vars, proxyVars, taskVars, IInv, DeskTypeOK, InHand, Unblamed, EnvironmentNotCharged, Works

LEMMA InitInv == Init => IInv
<1> SUFFICES ASSUME Init PROVE IInv
  OBVIOUS
<1>1. ProxyInv
  BY ProxyInitInv DEF Init
<1>2. run \in Seq(RunType) /\ Len(run) = 0
  BY EmptySeq DEF Init
<1>3. Len(run) <= MaxRuns /\ faults \in 0 .. MaxFaults
  BY <1>2, LiveBounds DEF Init
<1>4. DeskTypeOK /\ verify.pc = "idle"
  BY <1>2, <1>3, NotVerifyingType, NoScenarioType DEF Init, DeskTypeOK, RunStates
<1>5. req[Verifier].pc = "idle"
  BY ProxyAssumption DEF Init, ProxyInit, NoRequest
<1> QED BY <1>1, <1>4, <1>5 DEF IInv, InHand, Unblamed, Contradicts, EnvironmentNotCharged

LEMMA NextKeeps == IInv /\ [Next]_vars => IInv'
<1> SUFFICES ASSUME IInv, [Next]_vars PROVE IInv'
  OBVIOUS
<1>1. ProxyInv'
  BY ProxyKept DEF IInv
<1>2. CASE ProxyStep
  BY <1>1, <1>2, ProxyStepKeeps
<1>3. CASE ~ProxyStep
  BY <1>1, <1>3, StartKeeps, CodexEndsKeeps, NotDeployedKeeps, BeginVerifyKeeps, SmokeKeeps, AskDevKeeps,
     ReadDevKeeps, UiKeeps, ReadHistoryKeeps, RecordFailureKeeps, FollowUpKeeps, CrashKeeps, StutterKeeps
     DEF Next, Releaser, ProxyStep
<1> QED BY <1>2, <1>3

-----------------------------------------------------------------------------
(* verifyScenario and handleScenarioFailure: a failure of the proxy, of    *)
(* its credential or of the machine is never charged to a scenario that    *)
(* works, whatever the other clients do and whenever the worker dies; only *)
(* a server error of DEV itself is.                                        *)
THEOREM OnlyScenarioCharged == Spec => []EnvironmentNotCharged
<1>1. IInv => EnvironmentNotCharged
  BY DEF IInv
<1> QED BY <1>1, InitInv, NextKeeps, PTL DEF Spec

(* The desk, the release worker and the proxy keep their types, and with   *)
(* them the counters of attempts, checks and follow-ups their limits.      *)
THEOREM VerificationTypeCorrect == Spec => []TypeOK
<1>1. IInv => TypeOK
  BY DEF IInv, ProxyInv, DeskTypeOK, TypeOK, RunType, VerifyType
<1> QED BY <1>1, InitInv, NextKeeps, PTL DEF Spec

-----------------------------------------------------------------------------
(* The history of the task: how many of its first k runs a failed          *)
(* verification started, and how many of them were returned to Codex.      *)

Returns(r, k) == {j \in 1 .. k : r[j].reason = "verification_failed"}
Asked(r, k) == {j \in 1 .. k : r[j].followUp = "requested"}
Earned(r) == \A k \in 1 .. Len(r) : Cardinality(Returns(r, k)) <= Cardinality(Asked(r, k - 1))
Spare(r) == Cardinality(Returns(r, Len(r))) < Cardinality(Asked(r, Len(r)))

(* A return is owed: it is about to be asked for, or the newest run asks. *)
Due == verify.pc = "enqueue" \/ (run # <<>> /\ Newest.followUp = "requested")

(* Every return was earned by a failure before it, the one at hand has not *)
(* been used yet, and the number of returns in a row leaves room for it.   *)
HistoryInv ==
    /\ state # "none" => run # <<>>
    /\ Earned(run)
    /\ verify.pc = "enqueue" => Spare(run)
    /\ (verify.pc = "record" /\ ~blind) => verify.chain = ChainOf(run)
    /\ ~blind => ChainOf(run) < MaxVerification
    /\ (~blind /\ Due) => ChainOf(run) + 1 < MaxVerification
    /\ Due => MaxVerification >= 2

(* The runs of a history that another run joins. *)
LEMMA Joined ==
    ASSUME NEW r \in Seq(RunType), NEW x \in RunType, NEW s, s = Append(r, x)
    PROVE  /\ s \in Seq(RunType) /\ Len(r) \in Nat /\ Len(s) = Len(r) + 1 /\ s # <<>>
           /\ s[Len(s)] = x /\ \A j \in 1 .. Len(r) : s[j] = r[j]
<1>1. /\ s \in Seq(RunType) /\ Len(r) \in Nat /\ Len(s) = Len(r) + 1
      /\ s[Len(r) + 1] = x /\ \A j \in 1 .. Len(r) : s[j] = r[j]
  BY AppendProperties, LenProperties
<1> QED BY <1>1, EmptySeq

LEMMA ChainGrows ==
    ASSUME NEW r \in Seq(RunType), NEW x \in RunType, NEW s, s = Append(r, x),
           x.reason = "verification_failed"
    PROVE  ChainOf(s) = ChainOf(r) + 1
<1> DEFINE k == ChainOf(r)
<1>1. /\ s \in Seq(RunType) /\ Len(r) \in Nat /\ Len(s) = Len(r) + 1
      /\ s[Len(s)] = x /\ \A j \in 1 .. Len(r) : s[j] = r[j]
  BY Joined
<1>2. EndsWith(r, k)
  BY ChainEnds
<1> HIDE DEF k
<1>3. k \in 0 .. Len(r)
  BY <1>2 DEF EndsWith
<1>4. k + 1 \in 0 .. Len(s)
  BY <1>1, <1>3
<1>5. \A j \in Len(s) - (k + 1) + 1 .. Len(s) : s[j].reason = "verification_failed"
  <2> TAKE j \in Len(s) - (k + 1) + 1 .. Len(s)
  <2>1. j = Len(s) \/ (j \in Len(r) - k + 1 .. Len(r) /\ j \in 1 .. Len(r))
    <3>1. Len(s) - (k + 1) + 1 = Len(r) - k + 1
      BY <1>1, <1>3
    <3>2. j \in Len(r) - k + 1 .. Len(r) + 1
      BY <1>1, <3>1
    <3> QED BY <1>1, <1>3, <3>2
  <2> QED BY <1>1, <1>2, <2>1 DEF EndsWith
<1>6. k + 1 < Len(s) => s[Len(s) - (k + 1)].reason # "verification_failed"
  <2>1. SUFFICES ASSUME k + 1 < Len(s) PROVE s[Len(s) - (k + 1)].reason # "verification_failed"
    OBVIOUS
  <2>2. k < Len(r) /\ Len(s) - (k + 1) = Len(r) - k /\ Len(r) - k \in 1 .. Len(r)
    BY <1>1, <1>3, <2>1
  <2> QED BY <1>1, <1>2, <2>2 DEF EndsWith
<1>7. ChainOf(s) = k + 1
  <2>1. EndsWith(s, k + 1)
    BY <1>4, <1>5, <1>6 DEF EndsWith
  <2> QED BY <1>1, <2>1, ChainIs
<1> QED BY <1>7 DEF k

LEMMA ChainBreaks ==
    ASSUME NEW r \in Seq(RunType), NEW x \in RunType, NEW s, s = Append(r, x),
           x.reason # "verification_failed"
    PROVE  ChainOf(s) = 0
<1>1. s \in Seq(RunType) /\ Len(s) \in Nat /\ Len(s) > 0 /\ s[Len(s)] = x
  BY Joined
<1>2. 0 \in 0 .. Len(s) /\ Len(s) - 0 + 1 > Len(s) /\ Len(s) - 0 = Len(s)
  BY <1>1
<1>3. \A j \in Len(s) - 0 + 1 .. Len(s) : s[j].reason = "verification_failed"
  BY <1>1
<1>4. EndsWith(s, 0)
  BY <1>1, <1>2, <1>3 DEF EndsWith
<1> QED BY <1>1, <1>4, ChainIs

(* A history whose newest run is marked. *)
MarkedAs(r, mark) == [r EXCEPT ![Len(r)].followUp = mark]
MarkedIn(r, s, mark) ==
    /\ s \in Seq(RunType) /\ Len(s) = Len(r) /\ Len(r) > 0
    /\ s[Len(r)].followUp = mark
    /\ \A j \in 1 .. Len(r) : s[j].reason = r[j].reason
    /\ \A j \in 1 .. Len(r) - 1 : s[j] = r[j]
LEMMA Marked ==
    ASSUME NEW r \in Seq(RunType), r # <<>>, NEW mark \in {"requested", "exhausted"}
    PROVE  MarkedIn(r, MarkedAs(r, mark), mark)
<1> DEFINE s == MarkedAs(r, mark)
           n == Len(r)
<1>1. n \in Nat /\ DOMAIN r = 1 .. n /\ n > 0
  BY LenProperties, EmptySeq
<1>2. n \in 1 .. n /\ r[n] \in RunType
  BY <1>1, ElementOfSeq
<1> DEFINE x == [r[n] EXCEPT !.followUp = mark]
<1>3. x \in RunType /\ x.followUp = mark /\ x.reason = r[n].reason
  BY <1>2 DEF RunType
<1>4. s = [r EXCEPT ![n] = x]
  BY <1>1, <1>2 DEF MarkedAs
<1> HIDE DEF x, s
<1>5. s \in Seq(RunType) /\ Len(s) = n
  BY <1>2, <1>3, <1>4, ExceptSeq
<1> HIDE DEF n
<1>6. s[n] = x /\ \A j \in 1 .. n : j # n => s[j] = r[j]
  BY <1>1, <1>2, <1>4
<1>7. \A j \in 1 .. n : s[j].reason = r[j].reason
  BY <1>3, <1>6
<1>8. \A j \in 1 .. n - 1 : s[j] = r[j]
  BY <1>1, <1>6
<1>9. MarkedIn(r, s, mark)
  BY <1>1, <1>3, <1>5, <1>6, <1>7, <1>8 DEF MarkedIn, n
<1> QED BY <1>9 DEF s

LEMMA ChainSame ==
    ASSUME NEW r \in Seq(RunType), NEW s \in Seq(RunType), Len(s) = Len(r),
           \A j \in 1 .. Len(r) : s[j].reason = r[j].reason
    PROVE  ChainOf(s) = ChainOf(r)
<1>1. EndsWith(r, ChainOf(r)) /\ Len(r) \in Nat
  BY ChainEnds, LenProperties
<1>2. EndsWith(s, ChainOf(r))
  BY <1>1 DEF EndsWith
<1> QED BY <1>2, ChainIs

-----------------------------------------------------------------------------
(* How the returns and what asks for them are counted. *)

LEMMA CountsFinite ==
    ASSUME NEW r, NEW k \in Nat
    PROVE  /\ IsFiniteSet(Returns(r, k)) /\ Cardinality(Returns(r, k)) \in Nat
           /\ IsFiniteSet(Asked(r, k)) /\ Cardinality(Asked(r, k)) \in Nat
<1>1. IsFiniteSet(1 .. k)
  BY FS_Interval
<1>2. Returns(r, k) \subseteq 1 .. k /\ Asked(r, k) \subseteq 1 .. k
  BY DEF Returns, Asked
<1> QED BY <1>1, <1>2, FS_Subset, FS_CardinalityType

LEMMA AskedGrows ==
    ASSUME NEW r, NEW k \in Nat
    PROVE  Cardinality(Asked(r, k)) <= Cardinality(Asked(r, k + 1))
<1>1. Asked(r, k) \subseteq Asked(r, k + 1)
  BY DEF Asked
<1> QED BY <1>1, CountsFinite, FS_Subset

LEMMA AskedOnceMore ==
    ASSUME NEW r, NEW k \in Nat, r[k + 1].followUp = "requested"
    PROVE  Cardinality(Asked(r, k)) < Cardinality(Asked(r, k + 1))
<1>1. Asked(r, k + 1) = Asked(r, k) \union {k + 1} /\ k + 1 \notin Asked(r, k)
  BY DEF Asked
<1>2. Cardinality(Asked(r, k + 1)) = Cardinality(Asked(r, k)) + 1
  BY <1>1, CountsFinite, FS_AddElement
<1> QED BY <1>2, CountsFinite

LEMMA SameCounts ==
    ASSUME NEW r, NEW s, NEW k \in Nat, \A j \in 1 .. k : s[j] = r[j]
    PROVE  Returns(s, k) = Returns(r, k) /\ Asked(s, k) = Asked(r, k)
BY DEF Returns, Asked

LEMMA ReturnAdded ==
    ASSUME NEW r, NEW k \in Nat
    PROVE  /\ r[k + 1].reason = "verification_failed" =>
                Cardinality(Returns(r, k + 1)) = Cardinality(Returns(r, k)) + 1
           /\ r[k + 1].reason # "verification_failed" => Returns(r, k + 1) = Returns(r, k)
<1>1. ASSUME r[k + 1].reason = "verification_failed"
      PROVE  Cardinality(Returns(r, k + 1)) = Cardinality(Returns(r, k)) + 1
  <2>1. Returns(r, k + 1) = Returns(r, k) \union {k + 1} /\ k + 1 \notin Returns(r, k)
    BY <1>1 DEF Returns
  <2> QED BY <2>1, CountsFinite, FS_AddElement
<1>2. ASSUME r[k + 1].reason # "verification_failed"
      PROVE  Returns(r, k + 1) = Returns(r, k)
  BY <1>2 DEF Returns
<1> QED BY <1>1, <1>2

LEMMA EarnedInAll ==
    ASSUME NEW r \in Seq(RunType), Earned(r)
    PROVE  Cardinality(Returns(r, Len(r))) <= Cardinality(Asked(r, Len(r)))
<1>1. Len(r) \in Nat
  BY LenProperties
<1>2. CASE Len(r) = 0
  <2>1. Returns(r, 0) = {} /\ Asked(r, 0) = {}
    BY DEF Returns, Asked
  <2>2. Cardinality({}) = 0 /\ 0 <= 0
    BY FS_EmptySet
  <2> QED BY <1>2, <2>1, <2>2
<1>3. CASE Len(r) # 0
  <2> DEFINE k == Len(r) - 1
  <2>1. k \in Nat /\ k + 1 = Len(r) /\ Len(r) \in 1 .. Len(r)
    BY <1>1, <1>3
  <2>2. Cardinality(Returns(r, k + 1)) <= Cardinality(Asked(r, k))
    BY <2>1 DEF Earned
  <2> HIDE DEF k
  <2>3. /\ Cardinality(Asked(r, k)) <= Cardinality(Asked(r, k + 1))
        /\ Cardinality(Returns(r, k + 1)) \in Nat /\ Cardinality(Asked(r, k)) \in Nat
        /\ Cardinality(Asked(r, k + 1)) \in Nat
    <3>1. Cardinality(Asked(r, k)) <= Cardinality(Asked(r, k + 1))
      BY <2>1, AskedGrows
    <3> QED BY <2>1, <3>1, CountsFinite
  <2>4. Cardinality(Returns(r, k + 1)) <= Cardinality(Asked(r, k + 1))
    BY <2>2, <2>3
  <2> QED BY <2>1, <2>4
<1> QED BY <1>2, <1>3

(* Another run that is no return, or one that was earned. *)
LEMMA EarnedJoined ==
    ASSUME NEW r \in Seq(RunType), NEW x \in RunType, NEW s, s = Append(r, x), Earned(r),
           x.reason = "verification_failed" => Spare(r)
    PROVE  Earned(s)
<1>1. /\ s \in Seq(RunType) /\ Len(r) \in Nat /\ Len(s) = Len(r) + 1
      /\ s[Len(r) + 1] = x /\ \A j \in 1 .. Len(r) : s[j] = r[j]
  BY Joined
<1> SUFFICES ASSUME NEW k \in 1 .. Len(s)
             PROVE  Cardinality(Returns(s, k)) <= Cardinality(Asked(s, k - 1))
  BY DEF Earned
<1>2. CASE k \in 1 .. Len(r)
  <2>1. k \in Nat /\ k - 1 \in Nat /\ (\A j \in 1 .. k : s[j] = r[j]) /\ (\A j \in 1 .. k - 1 : s[j] = r[j])
    BY <1>1, <1>2
  <2>2. Returns(s, k) = Returns(r, k) /\ Asked(s, k - 1) = Asked(r, k - 1)
    BY <2>1, SameCounts
  <2> QED BY <1>2, <2>2 DEF Earned
<1>3. CASE k = Len(r) + 1
  <2> DEFINE n == Len(r)
  <2>1. n \in Nat /\ k = n + 1 /\ k - 1 = n /\ s[n + 1] = x
    BY <1>1, <1>3
  <2>2. Returns(s, n) = Returns(r, n) /\ Asked(s, n) = Asked(r, n)
    BY <1>1, SameCounts
  <2>3. Cardinality(Returns(r, n)) <= Cardinality(Asked(r, n))
    BY EarnedInAll
  <2>4. x.reason = "verification_failed" => Cardinality(Returns(r, n)) < Cardinality(Asked(r, n))
    BY DEF Spare
  <2> HIDE DEF n
  <2>5. Cardinality(Returns(r, n)) \in Nat /\ Cardinality(Asked(r, n)) \in Nat
    BY <2>1, CountsFinite
  <2>6. Cardinality(Returns(s, n + 1)) <= Cardinality(Asked(s, n))
    <3>1. CASE s[n + 1].reason = "verification_failed"
      <4>1. Cardinality(Returns(s, n + 1)) = Cardinality(Returns(s, n)) + 1
        BY <2>1, <3>1, ReturnAdded
      <4> QED BY <2>1, <2>2, <2>4, <2>5, <3>1, <4>1
    <3>2. CASE s[n + 1].reason # "verification_failed"
      <4>1. Returns(s, n + 1) = Returns(s, n)
        BY <2>1, <3>2, ReturnAdded
      <4> QED BY <2>2, <2>3, <4>1
    <3> QED BY <3>1, <3>2
  <2> QED BY <2>1, <2>6
<1>4. k \in 1 .. Len(r) \/ k = Len(r) + 1
  BY <1>1
<1> QED BY <1>2, <1>3, <1>4

LEMMA SpareJoined ==
    ASSUME NEW r \in Seq(RunType), NEW x \in RunType, NEW s, s = Append(r, x), Spare(r),
           x.reason # "verification_failed"
    PROVE  Spare(s)
<1> DEFINE n == Len(r)
<1>1. n \in Nat /\ Len(s) = n + 1 /\ s[n + 1] = x /\ \A j \in 1 .. n : s[j] = r[j]
  BY Joined
<1>2. Cardinality(Returns(r, n)) < Cardinality(Asked(r, n))
  BY DEF Spare
<1> HIDE DEF n
<1>3. Returns(s, n) = Returns(r, n) /\ Asked(s, n) = Asked(r, n)
  BY <1>1, SameCounts
<1>4. Returns(s, n + 1) = Returns(s, n)
  BY <1>1, ReturnAdded
<1>5. Cardinality(Asked(s, n)) <= Cardinality(Asked(s, n + 1))
  BY <1>1, AskedGrows
<1>6. /\ Cardinality(Returns(r, n)) \in Nat /\ Cardinality(Asked(r, n)) \in Nat
      /\ Cardinality(Asked(s, n + 1)) \in Nat
  BY <1>1, CountsFinite
<1>7. Cardinality(Returns(s, n + 1)) < Cardinality(Asked(s, n + 1))
  BY <1>2, <1>3, <1>4, <1>5, <1>6
<1> QED BY <1>1, <1>7 DEF Spare

(* The newest run asks for a return, and none has been made for it. *)
LEMMA NewestAsks ==
    ASSUME NEW r \in Seq(RunType), r # <<>>, Earned(r), r[Len(r)].followUp = "requested"
    PROVE  Spare(r)
<1> DEFINE k == Len(r) - 1
<1>1. k \in Nat /\ k + 1 = Len(r) /\ Len(r) \in 1 .. Len(r)
  BY LenProperties, EmptySeq
<1>2. Cardinality(Returns(r, k + 1)) <= Cardinality(Asked(r, k))
  BY <1>1 DEF Earned
<1> HIDE DEF k
<1>3. Cardinality(Asked(r, k)) < Cardinality(Asked(r, k + 1))
  BY <1>1, AskedOnceMore
<1>4. /\ Cardinality(Returns(r, k + 1)) \in Nat /\ Cardinality(Asked(r, k)) \in Nat
      /\ Cardinality(Asked(r, k + 1)) \in Nat
  BY <1>1, CountsFinite
<1>5. Cardinality(Returns(r, k + 1)) < Cardinality(Asked(r, k + 1))
  BY <1>2, <1>3, <1>4
<1> QED BY <1>1, <1>5 DEF Spare

LEMMA EarnedMarked ==
    ASSUME NEW r \in Seq(RunType), NEW s, Earned(r), Len(s) = Len(r),
           \A j \in 1 .. Len(r) : s[j].reason = r[j].reason,
           \A j \in 1 .. Len(r) - 1 : s[j] = r[j]
    PROVE  Earned(s)
<1> SUFFICES ASSUME NEW k \in 1 .. Len(r)
             PROVE  Cardinality(Returns(s, k)) <= Cardinality(Asked(s, k - 1))
  BY DEF Earned
<1>1. Len(r) \in Nat
  BY LenProperties
<1>2. Returns(s, k) = Returns(r, k) /\ Asked(s, k - 1) = Asked(r, k - 1)
  BY <1>1 DEF Returns, Asked
<1> QED BY <1>2 DEF Earned

-----------------------------------------------------------------------------
(* Every step keeps the history. *)

LEMMA Limit == MaxVerification \in Nat /\ MaxVerification >= 1
BY LiveAssumption

(* No run is added and none is marked. *)
LEMMA NoRunAdded ==
    ASSUME HistoryInv, run' = run, blind => blind', state = "none" => state' = "none",
           verify'.pc = "enqueue" => verify.pc = "enqueue",
           (verify'.pc = "record" /\ ~blind') => verify'.chain = ChainOf(run)
    PROVE  HistoryInv'
BY DEF HistoryInv, Due, Newest, Last

(* A run is added that is no return. *)
LEMMA RunStarts ==
    ASSUME DeskTypeOK, HistoryInv, NEW reason \in Reasons, reason # "verification_failed",
           Enqueue(reason), verify' = verify, verify.pc # "record"
    PROVE  HistoryInv'
<1> DEFINE x == [reason |-> reason, followUp |-> "none"]
<1>1. run \in Seq(RunType) /\ x \in RunType /\ run' = Append(run, x)
  BY DEF DeskTypeOK, Enqueue, RunType
<1>2. x.reason # "verification_failed" /\ x.followUp # "requested"
  OBVIOUS
<1> HIDE DEF x
<1>3. run' # <<>> /\ run'[Len(run')] = x /\ ChainOf(run') = 0 /\ Earned(run')
  <2>1. run' # <<>> /\ run'[Len(run')] = x
    BY <1>1, Joined
  <2>2. ChainOf(run') = 0
    BY <1>1, <1>2, ChainBreaks
  <2>3. Earned(run) /\ x.reason # "verification_failed"
    BY <1>2 DEF HistoryInv
  <2>4. Earned(run')
    BY <1>1, <2>3, EarnedJoined
  <2> QED BY <2>1, <2>2, <2>4
<1>4. verify.pc = "enqueue" => Spare(run')
  BY <1>1, <1>2, SpareJoined DEF HistoryInv
<1>5. Due' => verify.pc = "enqueue"
  BY <1>2, <1>3 DEF Due, Newest, Last
<1>6. Due' => MaxVerification >= 2
  BY <1>5 DEF HistoryInv, Due
<1>7. 0 < MaxVerification /\ (MaxVerification >= 2 => 0 + 1 < MaxVerification)
  BY Limit
<1> QED BY <1>3, <1>4, <1>6, <1>7 DEF HistoryInv

(* A return is added that is due. *)
LEMMA RunReturns ==
    ASSUME DeskTypeOK, HistoryInv, Enqueue("verification_failed"), Due, Spare(run),
           verify'.pc = "idle", blind' = blind
    PROVE  HistoryInv'
<1> DEFINE x == [reason |-> "verification_failed", followUp |-> "none"]
<1>1. run \in Seq(RunType) /\ x \in RunType /\ run' = Append(run, x)
  BY DEF DeskTypeOK, Enqueue, RunType, Reasons
<1>2. x.reason = "verification_failed" /\ x.followUp # "requested"
  OBVIOUS
<1> HIDE DEF x
<1>3. run' # <<>> /\ run'[Len(run')] = x /\ ChainOf(run') = ChainOf(run) + 1 /\ Earned(run')
  <2>1. run' # <<>> /\ run'[Len(run')] = x
    BY <1>1, Joined
  <2>2. ChainOf(run') = ChainOf(run) + 1
    BY <1>1, <1>2, ChainGrows
  <2>3. Earned(run)
    BY DEF HistoryInv
  <2>4. Earned(run')
    BY <1>1, <2>3, EarnedJoined
  <2> QED BY <2>1, <2>2, <2>4
<1>4. ~Due'
  BY <1>2, <1>3 DEF Due, Newest, Last
<1>5. ~blind => ChainOf(run') < MaxVerification
  BY <1>3 DEF HistoryInv
<1> QED BY <1>3, <1>4, <1>5 DEF HistoryInv

LEMMA PostKeepsHistory ==
    ASSUME DeskTypeOK, HistoryInv, PostFollowUp, Due, Spare(run), verify'.pc = "idle", blind' = blind
    PROVE  HistoryInv'
<1>1. CASE Enqueue("verification_failed")
  BY <1>1, RunReturns
<1>2. CASE UNCHANGED <<run, state>>
  BY <1>2, NoRunAdded
<1> QED BY <1>1, <1>2 DEF PostFollowUp

(* handleScenarioFailure marks the newest run and asks for a return only   *)
(* below its limit.                                                        *)
LEMMA RecordKeepsHistory == ASSUME IInv, HistoryInv, RecordFailure PROVE HistoryInv'
<1> DEFINE out == Exhausted(verify.chain)
           mark == IF out THEN "exhausted" ELSE "requested"
<1>1. run \in Seq(RunType) /\ run # <<>> /\ state' # "none"
  BY DEF IInv, DeskTypeOK, InHand, HistoryInv, RecordFailure
<1>2. run' = MarkedAs(run, mark) /\ mark \in {"requested", "exhausted"}
  BY DEF RecordFailure, MarkedAs
<1>3. out => mark = "exhausted" /\ verify'.pc = "idle"
  BY NotVerifyingType DEF RecordFailure
<1>4. ~out => mark = "requested" /\ verify'.pc = "enqueue"
  BY NotVerifyingType DEF RecordFailure
<1>5. out <=> verify.chain + 1 >= MaxVerification
  BY DEF Exhausted
<1> HIDE DEF out, mark
<1>6. /\ run' \in Seq(RunType) /\ Len(run') = Len(run) /\ Len(run) \in Nat /\ Len(run) > 0
      /\ run'[Len(run)].followUp = mark
      /\ \A j \in 1 .. Len(run) : run'[j].reason = run[j].reason
      /\ \A j \in 1 .. Len(run) - 1 : run'[j] = run[j]
  <2>1. MarkedIn(run, run', mark)
    BY <1>1, <1>2, Marked
  <2>2. Len(run) \in Nat
    BY <1>1, LenProperties
  <2> QED BY <2>1, <2>2 DEF MarkedIn
<1>7. Earned(run') /\ ChainOf(run') = ChainOf(run) /\ run' # <<>>
  <2>1. Earned(run')
    BY <1>1, <1>6, EarnedMarked DEF HistoryInv
  <2>2. ChainOf(run') = ChainOf(run)
    BY <1>1, <1>6, ChainSame
  <2> QED BY <1>6, <2>1, <2>2, EmptySeq
<1>8. Due' => ~out
  BY <1>3, <1>6 DEF Due, Newest, Last
<1>9. ~out => Spare(run')
  BY <1>4, <1>6, <1>7, NewestAsks
<1>10. verify.chain \in Nat
  BY LiveBounds DEF IInv, DeskTypeOK, VerifyType
<1>11. ~out => verify.chain + 1 < MaxVerification /\ MaxVerification >= 2
  BY <1>5, <1>10, Limit
<1>12. ~blind => verify.chain = ChainOf(run) /\ ChainOf(run) < MaxVerification
  BY DEF HistoryInv, RecordFailure
<1>13. blind' = blind /\ (verify'.pc = "enqueue" => ~out) /\ verify'.pc # "record"
  BY <1>3, <1>4 DEF RecordFailure
<1> QED BY <1>1, <1>7, <1>8, <1>9, <1>11, <1>12, <1>13 DEF HistoryInv

LEMMA ReleaserKeepsHistory ==
    ASSUME IInv, HistoryInv,
           BeginVerify \/ Smoke \/ AskDev \/ ReadDev \/ Ui \/ ReadHistory \/ NotDeployed \/ Crash
    PROVE  HistoryInv'
<1>1. run' = run /\ (blind => blind') /\ (state = "none" => state' = "none")
  BY DEF IInv, InHand, BeginVerify, Smoke, AskDev, ReadDev, Ui, ReadHistory, NotDeployed, Crash
<1>2. verify'.pc # "enqueue" /\ (verify'.pc = "record" => ReadHistory)
  <2>1. CASE BeginVerify \/ NotDeployed \/ Crash
    BY <2>1, NotVerifyingType DEF IInv, DeskTypeOK, BeginVerify, NotDeployed, Crash
  <2>2. CASE Smoke
    BY <2>2, NotVerifyingType DEF IInv, DeskTypeOK, VerifyType, Smoke, Contract, Transient, Charge
  <2>3. CASE AskDev
    BY <2>3 DEF IInv, DeskTypeOK, VerifyType, AskDev
  <2>4. CASE ReadDev
    <3>1. CASE Transient
      BY <3>1, NotVerifyingType DEF Transient
    <3>2. PICK v \in VerifyType : verify' = NextStep(v) \/ Transient
      <4>1. [verify EXCEPT !.failed = @ \/ Fails(req[Verifier].answer),
                           !.infra = @ \/ Infrastructure(req[Verifier].answer),
                           !.down = @ \/ req[Verifier].answer = "5xx"] \in VerifyType
        BY DEF IInv, DeskTypeOK, VerifyType
      <4> QED BY <2>4, <4>1 DEF ReadDev
    <3>3. NextStep(v).pc \in {"live", "ui", "history"}
      BY DEF NextStep, NextAttempt, VerifyType
    <3> QED BY <3>1, <3>2, <3>3
  <2>5. CASE Ui
    BY <2>5, NotVerifyingType DEF IInv, DeskTypeOK, VerifyType, Ui, Verified, Charge, Transient
  <2>6. CASE ReadHistory
    BY <2>6 DEF IInv, DeskTypeOK, VerifyType, ReadHistory
  <2> QED BY <2>1, <2>2, <2>3, <2>4, <2>5, <2>6
<1>3. (verify'.pc = "record" /\ ~blind') => verify'.chain = ChainOf(run)
  BY <1>2, ChainDef DEF IInv, DeskTypeOK, VerifyType, ReadHistory
<1> QED BY <1>1, <1>2, <1>3, NoRunAdded

LEMMA FollowUpKeepsHistory == ASSUME IInv, HistoryInv, EnqueueFollowUp \/ Recover PROVE HistoryInv'
<1>1. Due /\ Spare(run)
  <2>1. CASE EnqueueFollowUp
    BY <2>1 DEF EnqueueFollowUp, HistoryInv, Due
  <2>2. CASE Recover
    <3>1. run # <<>> /\ run[Len(run)].followUp = "requested" /\ Due
      BY <2>2 DEF Recover, Owed, HistoryInv, Due, Newest, Last
    <3> QED BY <3>1, NewestAsks DEF IInv, DeskTypeOK, HistoryInv
  <2> QED BY <2>1, <2>2
<1>2. PostFollowUp /\ verify'.pc = "idle" /\ blind' = blind
  BY NotVerifyingType DEF EnqueueFollowUp, Recover
<1> QED BY <1>1, <1>2, PostKeepsHistory DEF IInv

LEMMA DeskKeepsHistory == ASSUME IInv, HistoryInv, Start \/ CodexEnds PROVE HistoryInv'
<1>1. verify' = verify /\ verify.pc # "record"
  BY DEF IInv, InHand, Start, Accepts, CodexEnds
<1>2. CASE Start
  BY <1>1, <1>2, RunStarts DEF IInv, Start, Reasons
<1>3. CASE CodexEnds
  <2>1. CASE Enqueue("auto_continue")
    BY <1>1, <2>1, RunStarts DEF IInv, Reasons
  <2>2. CASE run' = run
    BY <1>1, <1>3, <2>2, NoRunAdded DEF CodexEnds
  <2> QED BY <1>3, <2>1, <2>2 DEF CodexEnds
<1> QED BY <1>2, <1>3

LEMMA HistoryKept == IInv /\ HistoryInv /\ [Next]_vars => HistoryInv'
<1> SUFFICES ASSUME IInv, HistoryInv, [Next]_vars PROVE HistoryInv'
  OBVIOUS
<1>1. CASE UNCHANGED taskVars
  <2>1. run' = run /\ blind' = blind /\ state' = state /\ verify' = verify
    BY <1>1 DEF taskVars
  <2>2. (verify'.pc = "record" /\ ~blind') => verify'.chain = ChainOf(run)
    BY <2>1 DEF HistoryInv
  <2> QED BY <2>1, <2>2, NoRunAdded
<1>2. CASE ProxyStep \/ UNCHANGED vars
  BY <1>1, <1>2 DEF ProxyStep, LoginEnds, OthersAsk, DevChanges, CallEnds, vars
<1> QED BY <1>2, DeskKeepsHistory, ReleaserKeepsHistory, RecordKeepsHistory, FollowUpKeepsHistory
        DEF Next, Releaser, ProxyStep

LEMMA HistoryBegins == Init => HistoryInv
<1> SUFFICES ASSUME Init PROVE HistoryInv
  OBVIOUS
<1>1. run = <<>> /\ run \in Seq(RunType) /\ Len(run) = 0 /\ state = "none" /\ verify.pc = "idle"
  BY EmptySeq, NotVerifyingType DEF Init
<1>2. EndsWith(run, 0)
  BY <1>1 DEF EndsWith
<1>3. ChainOf(run) = 0
  BY <1>1, <1>2, ChainIs
<1>4. Earned(run)
  BY <1>1 DEF Earned
<1> QED BY <1>1, <1>3, <1>4, Limit DEF HistoryInv, Due

(* handleScenarioFailure and recoverVerificationFollowUps: every return to *)
(* Codex was earned by a failure of its own, for every number of runs and  *)
(* faults.                                                                 *)
THEOREM FailuresAreFollowedOnce == Spec => []OneFollowUpPerFailure
<1>1. IInv /\ HistoryInv => OneFollowUpPerFailure
  <2> SUFFICES ASSUME IInv, HistoryInv, NEW i \in DOMAIN run
               PROVE  Cardinality(Returns(run, i)) <= Cardinality(Asked(run, i - 1))
    BY DEF OneFollowUpPerFailure, Returns, Asked
  <2>1. run \in Seq(RunType) /\ Earned(run)
    BY DEF IInv, DeskTypeOK, HistoryInv
  <2> QED BY <2>1, LenProperties DEF Earned
<1> QED BY <1>1, InitInv, NextKeeps, HistoryBegins, HistoryKept, PTL DEF Spec

(* handleScenarioFailure: the newest runs are never MaxVerification        *)
(* returns in a row, unless a history could not be read, for every limit.  *)
THEOREM ReturnsAreBounded == Spec => []DirectReturnsBounded
<1>1. IInv /\ HistoryInv => DirectReturnsBounded
  <2> SUFFICES ASSUME IInv, HistoryInv, ~blind, Len(run) >= MaxVerification
               PROVE  \E j \in Len(run) - MaxVerification + 1 .. Len(run) :
                          run[j].reason # "verification_failed"
    BY DEF DirectReturnsBounded
  <2>1. run \in Seq(RunType) /\ Len(run) \in Nat
    BY LenProperties DEF IInv, DeskTypeOK
  <2>2. EndsWith(run, ChainOf(run)) /\ ChainOf(run) < MaxVerification /\ ChainOf(run) \in Nat
    BY <2>1, ChainEnds, ChainNat DEF HistoryInv
  <2>3. ChainOf(run) < Len(run)
    BY <2>1, <2>2, Limit
  <2>4. run[Len(run) - ChainOf(run)].reason # "verification_failed"
    BY <2>2, <2>3 DEF EndsWith
  <2>5. Len(run) - ChainOf(run) \in Len(run) - MaxVerification + 1 .. Len(run)
    BY <2>1, <2>2, Limit
  <2> QED BY <2>4, <2>5
<1> QED BY <1>1, InitInv, NextKeeps, HistoryBegins, HistoryKept, PTL DEF Spec
================================================================================
