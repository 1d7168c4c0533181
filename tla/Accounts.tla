------------------------------ MODULE Accounts ------------------------------
(***************************************************************************)
(* A server, its operator and the DePix API: the requests the gateway      *)
(* tools make with whichever credential wins, the tools that change the    *)
(* agent's keys, and the commands that change the owner's login beside     *)
(* them, on one machine.                                                   *)
(*                                                                         *)
(* A request resolves its credential once. It is repeated after a network  *)
(* failure or a transient refusal only if repeating it is harmless, and    *)
(* after a 401 of the owner's session once, with a renewed one.            *)
(***************************************************************************)
EXTENDS OwnerSession, AgentKeys

CONSTANT MaxAttempts  \* attempts of one request

ASSUME MaxAttemptsAssumption == MaxAttempts \in Nat \ {0}

VARIABLES
  cred,       \* the credential each request presents
  attempt,    \* its attempt
  refreshed,  \* it has used its renewal
  effects     \* times it took effect at the API

requestVars == <<cred, attempt, refreshed, effects>>
vars == <<processVars, ownerVars, agentVars, requestVars>>

Requests == {"get", "post", "keyedPost"}  \* keyedPost: with an Idempotency-Key
ServedBy == Requests \cup {"register", "upgrade", "create", "revoke", "activate"}
Kinds == ServedBy \cup {"login", "logout", "useOwner", "useAgent", "none"}

ASSUME KindsAssumption == \A w \in Workloads : w.kind \in [Calls -> Kinds]

NoCred == [kind |-> "none", key |-> None, session |-> NoSession]

\* resolveCredential: the persona that won, and its token.
Persona == DecidePersona(envKey, storeKey # None, ownerToken # NoSession, selected)
ResolveCredential ==
  CASE Persona = "env" -> [NoCred EXCEPT !.kind = "env"]
    [] Persona = "owner" -> [NoCred EXCEPT !.kind = "oauth", !.session = ownerToken]
    [] Persona = "agent" -> [NoCred EXCEPT !.kind = "apiKey", !.key = storeKey]
    [] OTHER -> NoCred

\* What the API makes of it.
Accepts(k) ==
  \/ k.kind = "env"
  \/ k.kind = "apiKey" /\ k.key \notin revoked
  \/ k.kind = "oauth" /\ k.session \in accepted

\* Mutant: every request is repeated.
RetryAll(c) == kind[c] \in Requests

RetrySafe(c) == kind[c] \in {"get", "keyedPost"}

AttemptsLeft(c) == attempt[c] < MaxAttempts

TypeOK ==
  /\ kind \in [Calls -> Kinds]
  /\ \A c \in Calls : kind[c] = "none" => pc[c] = "done"
  /\ up \in BOOLEAN /\ envKey \in BOOLEAN /\ faults \in 0..MaxFaults
  /\ selection \in Personas \cup {"none"} /\ selected \in Personas \cup {"none"}
  /\ OwnerTypeOK /\ AgentTypeOK
  /\ \A c \in Calls : attempt[c] \in 1..(MaxAttempts + (IF refreshed[c] THEN 1 ELSE 0))

Init ==
  /\ \E w \in Workloads :
       /\ kind = w.kind /\ envKey = w.envKey /\ selection = w.selection
       /\ OwnerInit(w) /\ AgentInit(w)
  /\ pc = [c \in Calls |-> IF kind[c] = "none" THEN "done" ELSE "idle"]
  /\ up = TRUE /\ faults = 0 /\ selected = selection
  /\ cred = [c \in Calls |-> NoCred]
  /\ attempt = [c \in Calls |-> 1]
  /\ refreshed = [c \in Calls |-> FALSE]
  /\ effects = [c \in Calls |-> 0]

----------------------------------------------------------------------------
\* ApiClient.request

Request(c) ==
  /\ kind[c] \in Requests /\ pc[c] = "idle" /\ up
  /\ cred' = [cred EXCEPT ![c] = ResolveCredential]
  /\ Goto(c, IF Persona = "none" THEN "failed" ELSE "sending")
  /\ UNCHANGED <<kind, up, envKey, faults, selection, selected, ownerVars, agentVars,
                 attempt, refreshed, effects>>

\* The API takes the credential: the request takes effect, once for its key.
TakesEffect(c) ==
  /\ Accepts(cred[c])
  /\ effects' = [effects EXCEPT ![c] = IF kind[c] = "post" THEN @ + 1 ELSE 1]

Answered(c) ==
  /\ pc[c] = "sending"
  /\ TakesEffect(c)
  /\ Goto(c, "done")
  /\ UNCHANGED <<kind, up, envKey, faults, selection, selected, ownerVars, agentVars,
                 cred, attempt, refreshed>>

\* Turned away for good: a refusal no retry helps, a wait past the budget, or the
\* caller's own deadline, which may fall after the request took effect.
Ends(c) ==
  /\ pc[c] = "sending"
  /\ TakesEffect(c) \/ UNCHANGED effects
  /\ Goto(c, "failed")
  /\ UNCHANGED <<kind, up, envKey, faults, selection, selected, ownerVars, agentVars,
                 cred, attempt, refreshed>>

\* A network failure, before or after the request took effect, or a refusal that
\* passes: tried again if that is safe and attempts are left.
FailsForNow(c) ==
  /\ pc[c] = "sending" /\ Fault
  /\ TakesEffect(c) \/ UNCHANGED effects
  /\ IF RetrySafe(c) /\ AttemptsLeft(c)
     THEN attempt' = [attempt EXCEPT ![c] = @ + 1] /\ UNCHANGED pc
     ELSE Goto(c, "failed") /\ UNCHANGED attempt
  /\ UNCHANGED <<kind, up, envKey, selection, selected, ownerVars, agentVars, cred,
                 refreshed>>

\* A 401: the API did nothing. The owner's session is renewed, once per request.
Unauthorized(c) ==
  /\ pc[c] = "sending" /\ ~Accepts(cred[c])
  /\ IF cred[c].kind = "oauth" /\ ~refreshed[c]
     THEN /\ refreshed' = [refreshed EXCEPT ![c] = TRUE]
          /\ JoinRenewal(c)
          /\ Goto(c, "renewing")
     ELSE Goto(c, "failed") /\ UNCHANGED <<refreshed, flight>>
  /\ UNCHANGED <<kind, up, envKey, faults, selection, selected, file, ownerToken, live,
                 accepted, renewable, answer, loginVars, historyVars, agentVars, cred,
                 attempt, effects>>

\* The renewal settled. The credential is resolved again: it may be another's.
Renewed(c) ==
  /\ pc[c] = "renewing" /\ answer[c] # "none"
  /\ IF answer[c] = "renewed" /\ Persona # "none"
     THEN /\ cred' = [cred EXCEPT ![c] = ResolveCredential]
          /\ attempt' = [attempt EXCEPT ![c] = @ + 1]
          /\ Goto(c, "sending")
     ELSE Goto(c, "failed") /\ UNCHANGED <<cred, attempt>>
  /\ UNCHANGED <<kind, up, envKey, faults, selection, selected, ownerVars, agentVars,
                 refreshed, effects>>

----------------------------------------------------------------------------
\* depix-mcp account use: only a persona that has a credential can be chosen, as
\* far as the command saw; the server learns of it when it is started again.

Wanted(c) == IF kind[c] = "useOwner" THEN "owner" ELSE "agent"

ReadSituation(c) ==
  /\ kind[c] \in {"useOwner", "useAgent"} /\ pc[c] = "idle"
  /\ Goto(c, IF (IF Wanted(c) = "owner" THEN file # NoSession ELSE VaultExists)
             THEN "selecting" ELSE "failed")
  /\ UNCHANGED <<kind, up, envKey, faults, selection, selected, ownerVars, agentVars,
                 requestVars>>

SetPreference(c) ==
  /\ pc[c] = "selecting"
  /\ selection' = Wanted(c)
  /\ Goto(c, "done")
  /\ UNCHANGED <<kind, up, envKey, faults, selected, ownerVars, agentVars, requestVars>>

----------------------------------------------------------------------------
\* The server dies: its calls are lost, its renewal and its vault operation too.

Crash ==
  /\ up /\ Fault /\ up' = FALSE
  /\ pc' = [c \in Calls |-> IF kind[c] \in ServedBy /\ Running(c) THEN "failed" ELSE pc[c]]
  /\ LoseFlight
  /\ vaultOp' = <<>> /\ storeKey' = None /\ staleKey' = FALSE
  /\ UNCHANGED <<kind, envKey, selection, selected, file, live, accepted, renewable,
                 answer, loginVars, twice, identity, accounts, minted, revoked,
                 vault, arg, overwritten, requestVars>>

\* serve(): both credentials are seeded from the disk. One that does not open
\* leaves its persona out until the next start.
Boot ==
  /\ ~up /\ up' = TRUE
  /\ selected' = selection
  /\ \/ SeedOwner(TRUE) /\ SeedAgent(TRUE) /\ UNCHANGED faults
     \/ Fault /\ SeedOwner(FALSE) /\ SeedAgent(FALSE)
  /\ UNCHANGED <<kind, pc, envKey, selection, file, live, accepted, renewable, flight,
                 answer, loginVars, historyVars, identity, accounts, minted, revoked,
                 vault, vaultOp, arg, overwritten, staleKey,
                 requestVars>>

RequestNext(c) ==
  \/ Request(c) \/ Answered(c) \/ Ends(c) \/ FailsForNow(c) \/ Unauthorized(c)
  \/ Renewed(c) \/ ReadSituation(c) \/ SetPreference(c)

Next ==
  \/ OwnerNext /\ UNCHANGED <<agentVars, requestVars>>
  \/ AgentNext /\ UNCHANGED <<ownerVars, requestVars>>
  \/ \E c \in Calls : RequestNext(c)
  \/ Crash \/ Boot

Sends(c) == Answered(c) \/ Ends(c) \/ FailsForNow(c) \/ Unauthorized(c)

\* The event loop runs what it has started: an attempt ends by its answer or its
\* deadline, a renewal by its own, and a request that was started is carried on.
Fairness ==
  /\ \A c \in Calls : WF_vars(Sends(c)) /\ WF_vars(Renewed(c))
  /\ WF_vars((LoadSession \/ PostRefresh \/ SaveSession) /\ UNCHANGED <<agentVars, requestVars>>)

Spec == Init /\ [][Next]_vars /\ Fairness

----------------------------------------------------------------------------
\* "A dropped connection on a non-idempotent POST could double-create"
\* (apiClient.ts): a request without an idempotency key takes effect at most once,
\* through failures after the effect, renewals and replays.
EffectsOnce == \A c \in Calls : effects[c] <= 1

\* However the renewal it awaits ends, a request ends: the gate never keeps a
\* waiter, and no 401 loops.
EveryRequestEnds ==
  \A c \in Calls : (kind[c] \in Requests /\ Running(c)) ~> Ended(c)

=============================================================================
