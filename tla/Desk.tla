-------------------------------- MODULE Desk --------------------------------
(***************************************************************************)
(* The provider-facing operations of one wallet instance together: market  *)
(* swaps and provider orders queue on the same opMutex, and one process    *)
(* runs them all.                                                          *)
(***************************************************************************)
EXTENDS Market, Orders

CONSTANT MaxStops  \* bound on the times the process stops

\* The calls are calls of their own, each with its own place on the chain.
ASSUME DeskAssumption ==
  /\ Calls \cap Execs = {}
  /\ Operations \cap (Calls \cup Execs) = {}
  /\ MaxStops \in Nat

VARIABLE stops

deskVars == <<marketVars, orderVars, chain, stops>>

DeskTypeOK ==
  /\ MarketTypeOK
  /\ OrdersTypeOK
  /\ stops \in 0 .. MaxStops
  \* Nobody is on the chain twice, and whoever is has an operation to finish.
  /\ \A i \in DOMAIN chain : \A j \in DOMAIN chain : chain[i] = chain[j] => i = j

DeskInit ==
  /\ MarketInit
  /\ OrdersInit
  /\ chain = <<>>
  /\ stops = 0

\* The process stops and its sockets with it; the server of a new one knows
\* none of the quotes.
Stop ==
  /\ stops < MaxStops
  /\ stops' = stops + 1
  /\ quoting' = [c \in Calls |-> IF quoting[c] = "idle" THEN "idle" ELSE "failed"]
  /\ sock' = [c \in Calls |-> IF sock[c] = "none" THEN "none" ELSE "destroyed"]
  /\ sub' = [c \in Calls |-> IF sub[c] = "none" THEN "none" ELSE "dead"]
  /\ markets' = [c \in Calls |-> "unknown"]
  /\ running' = [e \in Execs |-> IF running[e] = "idle" THEN "idle" ELSE "done"]
  /\ held' = {}
  /\ disposed' = FALSE
  /\ OrdersStop
  /\ chain' = <<>>
  /\ UNCHANGED <<tries, promise, quote, target, money, drops>>

DeskNext ==
  \/ MarketNext /\ UNCHANGED <<orderVars, stops>>
  \/ OrdersNext /\ UNCHANGED <<marketVars, stops>>
  \/ Stop

DeskSpec == DeskInit /\ [][DeskNext]_deskVars
DeskFairSpec == DeskSpec /\ MarketFairness /\ OrdersFairness

-----------------------------------------------------------------------------
(* Properties                                                              *)

\* The executions and the operations whose section of opMutex has begun and not
\* settled (an address is one step).
Inside == {e \in Execs : running[e] \in Executing \ {"queued"}} \cup {o \in Operations : InSection(o)}

Section == INSTANCE ExclusiveSection WITH Callers <- Execs \cup Operations, inside <- Inside

\* Whoever values, signs and pays is alone: the sections of market swaps and of
\* provider orders never overlap, whichever await fails and whichever socket drops.
SectionsExclude == Section!Spec

\* Every call comes to an end, whatever the providers, the sockets and the
\* other operations on opMutex do: a lost answer, a reconnect or a failed
\* section never leaves a tool call, and everyone queued behind it, waiting.
EveryCallEnds ==
  /\ \A c \in Calls : quoting[c] \in Quoting ~> quoting[c] \notin Quoting
  /\ \A e \in Execs : running[e] \in Executing ~> running[e] \notin Executing
  /\ \A o \in Operations : at[o] # 0 ~> at[o] = 0
=============================================================================
