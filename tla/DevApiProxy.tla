------------------------------ MODULE DevApiProxy ------------------------------
(***************************************************************************)
(* The read-only proxy to DEV (server/dev-api-proxy.js): it bounds the     *)
(* calls in flight, adds the bearer token of the service login and repeats *)
(* a call once when DEV rejects the token.                                 *)
(*                                                                         *)
(* Abstracted: a request is known by what evaluateDevApiPath and the       *)
(* method check say of it (its route); tokens are numbered in the order    *)
(* DEV issues them, and DEV forgets every token issued so far when it      *)
(* restarts; only the service-login provider is modelled; what the other   *)
(* clients make of their answers is left out.                              *)
(***************************************************************************)
EXTENDS Integers, FiniteSets

CONSTANTS Clients,
          Verifier,      \* the one of them that is the release worker
          MaxConcurrent,
          MaxTokens      \* bound: tokens DEV issues

ASSUME ProxyAssumption ==
    /\ IsFiniteSet(Clients) /\ Verifier \in Clients
    /\ {MaxConcurrent, MaxTokens} \subseteq Nat

VARIABLES req,       \* client -> its request
          inFlight,
          provider,  \* the cached token (0: none), and whether it is fresh enough
          pending,   \* a login is under way
          dev        \* tokens issued so far, and those of them DEV has forgotten
proxyVars == <<req, inFlight, provider, pending, dev>>

Routes == {"allowed", "policy", "method"}

(* What a client can be told.  The last three come from DEV itself: what   *)
(* the scenario expects, something else, or a server error.                *)
ProxyErrors == {"method", "policy", "busy", "credential", "upstream", "upstream-timeout",
                "too-large"}
DevAnswers == {"match", "mismatch", "5xx"}
Answers == ProxyErrors \union DevAnswers \union {"rejected", "none"}

NoRequest == [pc |-> "idle", token |-> 0, answer |-> "none"]
InSection(r) == r.pc \in {"wait", "call", "rewait", "recall"}

ProxyTypeOK ==
    /\ req \in [Clients -> [pc : {"idle", "wait", "call", "rewait", "recall", "done"},
                            token : 0 .. MaxTokens, answer : Answers]]
    /\ inFlight \in 0 .. MaxConcurrent
    /\ provider \in [token : 0 .. MaxTokens, fresh : BOOLEAN]
    /\ pending \in BOOLEAN
    /\ dev \in [issued : 0 .. MaxTokens, forgotten : 0 .. MaxTokens]

ProxyInit ==
    /\ req = [c \in Clients |-> NoRequest]
    /\ inFlight = 0
    /\ provider = [token |-> 0, fresh |-> FALSE]
    /\ pending = FALSE
    /\ dev = [issued |-> 0, forgotten |-> 0]

(* The client is answered; the answer matters to the verifier alone. *)
Told(c, answer) ==
    IF c = Verifier THEN [NoRequest EXCEPT !.pc = "done", !.answer = answer] ELSE NoRequest

(* The handler up to its first await: the refusals, then the slot, then    *)
(* the cached token or the login that is shared by all who need one.       *)
Arrive(c, route) ==
    /\ req[c].pc = "idle"
    /\ \/ /\ route # "allowed"
          /\ req' = [req EXCEPT ![c] = Told(c, route)]
          /\ UNCHANGED <<inFlight, pending>>
       \/ /\ route = "allowed" /\ inFlight >= MaxConcurrent
          /\ req' = [req EXCEPT ![c] = Told(c, "busy")]
          /\ UNCHANGED <<inFlight, pending>>
       \/ /\ route = "allowed" /\ inFlight < MaxConcurrent
          /\ inFlight' = inFlight + 1
          /\ IF provider.fresh
             THEN /\ req' = [req EXCEPT ![c].pc = "call", ![c].token = provider.token]
                  /\ UNCHANGED pending
             ELSE req' = [req EXCEPT ![c].pc = "wait"] /\ pending' = TRUE
    /\ UNCHANGED <<provider, dev>>

(* Mutant of LoggedIn: who waits a second time is not told. *)
LoggedInOnce ==
    /\ pending /\ dev.issued < MaxTokens
    /\ dev' = [dev EXCEPT !.issued = @ + 1]
    /\ provider' = [token |-> dev.issued + 1, fresh |-> TRUE]
    /\ req' = [c \in Clients |->
                  IF req[c].pc = "wait" THEN [req[c] EXCEPT !.pc = "call", !.token = dev.issued + 1]
                                        ELSE req[c]]
    /\ pending' = FALSE
    /\ UNCHANGED inFlight

(* The login (or the refresh, and the login after a refused refresh) ends  *)
(* for everyone who waits for it.  Who waits a second time goes on with    *)
(* the 401 it has when the login fails.                                    *)
LoggedIn ==
    /\ pending /\ dev.issued < MaxTokens
    /\ dev' = [dev EXCEPT !.issued = @ + 1]
    /\ provider' = [token |-> dev.issued + 1, fresh |-> TRUE]
    /\ req' = [c \in Clients |->
                  LET r == req[c]
                  IN  CASE r.pc = "wait"   -> [r EXCEPT !.pc = "call", !.token = dev.issued + 1]
                        [] r.pc = "rewait" -> [r EXCEPT !.pc = "recall", !.token = dev.issued + 1]
                        [] OTHER           -> r]
    /\ pending' = FALSE
    /\ UNCHANGED inFlight
Waiting(r) == r.pc \in {"wait", "rewait"}
(* Mutant of LoginFails: the slots of those who gave up are not counted back. *)
LoginFailsHolding ==
    /\ pending
    /\ req' = [c \in Clients |->
                  LET r == req[c]
                  IN  CASE r.pc = "wait"   -> Told(c, "credential")
                        [] r.pc = "rewait" -> Told(c, "rejected")
                        [] OTHER           -> r]
    /\ inFlight' = inFlight - Cardinality({c \in Clients : req[c].pc = "wait"})
    /\ pending' = FALSE
    /\ UNCHANGED <<provider, dev>>
LoginFails ==
    /\ pending
    /\ req' = [c \in Clients |->
                  LET r == req[c]
                  IN  CASE r.pc = "wait"   -> Told(c, "credential")
                        [] r.pc = "rewait" -> Told(c, "rejected")
                        [] OTHER           -> r]
    /\ inFlight' = inFlight - Cardinality({c \in Clients : Waiting(req[c])})
    /\ pending' = FALSE
    /\ UNCHANGED <<provider, dev>>

Answer(c, answer) ==
    /\ req' = [req EXCEPT ![c] = Told(c, answer)]
    /\ inFlight' = inFlight - 1
    /\ UNCHANGED <<provider, pending, dev>>

(* DEV does not answer, or its answer cannot be read or is too large. *)
Breaks(c) ==
    /\ req[c].pc \in {"call", "recall"}
    /\ \E error \in {"upstream", "upstream-timeout", "too-large"} : Answer(c, error)

Forgotten(r) == r.token <= dev.forgotten

(* DEV answers a call it accepts. *)
Answers200(c, answers) ==
    /\ req[c].pc \in {"call", "recall"}
    /\ ~Forgotten(req[c])
    /\ \E answer \in answers : Answer(c, answer)

(* A call that is rejected for its token: the token is invalidated unless  *)
(* a newer one is cached already, and the call is repeated with the token  *)
(* the provider has or gets now.                                           *)
Invalidate(token) == IF provider.token = token THEN [provider EXCEPT !.fresh = FALSE] ELSE provider
(* Mutant of Rejected: the renewal is taken to be under way. *)
RejectedUnrenewed(c) ==
    /\ req[c].pc = "call" /\ Forgotten(req[c])
    /\ provider' = Invalidate(req[c].token)
    /\ req' = [req EXCEPT ![c] = IF provider'.fresh
                                 THEN [@ EXCEPT !.pc = "recall", !.token = provider'.token]
                                 ELSE [@ EXCEPT !.pc = "rewait"]]
    /\ UNCHANGED <<inFlight, pending, dev>>
Rejected(c) ==
    /\ req[c].pc = "call" /\ Forgotten(req[c])
    /\ provider' = Invalidate(req[c].token)
    /\ IF provider'.fresh
       THEN /\ req' = [req EXCEPT ![c].pc = "recall", ![c].token = provider'.token]
            /\ UNCHANGED pending
       ELSE req' = [req EXCEPT ![c].pc = "rewait"] /\ pending' = TRUE
    /\ UNCHANGED <<inFlight, dev>>

(* The second rejection is passed on, marked as one of the credential. *)
RejectedAgain(c) ==
    /\ req[c].pc = "recall" /\ Forgotten(req[c])
    /\ Answer(c, "rejected")

(* The verifier has read its answer. *)
Read == req' = [req EXCEPT ![Verifier] = NoRequest]

(* The cached token comes near its end; DEV restarts and forgets. *)
Expire ==
    /\ provider.fresh
    /\ provider' = [provider EXCEPT !.fresh = FALSE]
    /\ UNCHANGED <<req, inFlight, pending, dev>>
Forget ==
    /\ dev.forgotten < dev.issued
    /\ dev' = [dev EXCEPT !.forgotten = dev.issued]
    /\ UNCHANGED <<req, inFlight, provider, pending>>

-----------------------------------------------------------------------------
(* inFlight is what it counts on every path out of the handler, so the     *)
(* limit neither leaks away nor is exceeded.                               *)
SlotsCounted ==
    inFlight = Cardinality({c \in Clients : InSection(req[c])})

(* Whoever waits for a token, a login is under way: a login that ends      *)
(* leaves nobody behind (the shared promise of the provider).              *)
NobodyWaitsInVain == (\E c \in Clients : Waiting(req[c])) => pending
=============================================================================
