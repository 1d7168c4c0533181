---------------------------- MODULE Credentials ----------------------------
(***************************************************************************)
(* Which identity a local server acts as, and the calls that run against   *)
(* one installation: the tool calls its server serves and the commands an  *)
(* operator types beside it.                                               *)
(*                                                                         *)
(* A machine may hold three credentials: DEPIX_API_KEY in the server's     *)
(* environment, the API key of the agent's own account, and the owner's    *)
(* login. The server keeps what it resolved at boot in memory; the files   *)
(* they come from change under it.                                         *)
(***************************************************************************)
EXTENDS Naturals, FiniteSets

CONSTANTS
  Calls,     \* tool calls and commands, each made at most once
  Workloads, \* machines as they are found, and the calls then made together on each
  MaxFaults  \* lost answers, failed writes and crashes in one behaviour

ASSUME MaxFaultsAssumption == MaxFaults \in Nat

None == 0    \* no key, no session, no selection

Personas == {"agent", "owner"}

\* A machine: is DEPIX_API_KEY set, which persona is selected, has the owner signed
\* in, has the agent an account; and what each call is.
Machine(w) ==
  /\ w.envKey \in BOOLEAN /\ w.signedIn \in BOOLEAN /\ w.registered \in BOOLEAN
  /\ w.selection \in Personas \cup {"none"}

ASSUME WorkloadsAssumption == \A w \in Workloads : Machine(w)

VARIABLES
  kind,      \* what each call is
  pc,        \* where it is; "idle" before it starts, "done" and "failed" after
  up,        \* the server is running
  envKey,    \* DEPIX_API_KEY is set in its environment
  faults,    \* faults so far
  selection, \* account-preference.json: a persona, or "none"
  selected   \* the selection as the running server read it at boot

processVars == <<kind, pc, up, envKey, faults, selection, selected>>

Goto(c, where) == pc' = [pc EXCEPT ![c] = where]
Ended(c) == pc[c] \in {"done", "failed"}
Running(c) == pc[c] \notin {"idle", "done", "failed"}

\* The ladder: the environment, an explicit selection that has a credential,
\* the agent's account, the owner's login.
DecidePersona(env, hasAgent, hasOwner, preference) ==
  CASE env -> "env"
    [] ~env /\ preference = "owner" /\ hasOwner -> "owner"
    [] ~env /\ ~(preference = "owner" /\ hasOwner) /\ hasAgent -> "agent"
    [] ~env /\ ~hasAgent /\ hasOwner -> "owner"
    [] OTHER -> "none"
=============================================================================
