------------------------------ MODULE Providers ------------------------------
(***************************************************************************)
(* Which backend creates a swap (wallet-engine/convert/boltz/providers.ts). *)
(* Lightning swaps go to the first of the list that answers a probe of its  *)
(* creation path; the answer is kept for a while by the whole process, as   *)
(* is the answer for the stablecoin route, which only Boltz serves.  Calls  *)
(* of one process share these answers, pending ones included.               *)
(*                                                                          *)
(* Time is counted in ticks of minutes: a probe, cut off after 8 seconds,   *)
(* ends within the tick it starts in.  What only ages is kept as an age,    *)
(* which stops growing past TTL, or when no answer is kept.                 *)
(***************************************************************************)
EXTENDS Naturals, FiniteSets, Sequences

CONSTANTS Callers,  \* conversions of the process
          TTL       \* SELECTION_TTL_MS, in ticks

ASSUME TTLAssumption == TTL \in Nat \ {0}

SwapProviders == <<"boltz", "coinos">>
StablecoinProvider == "boltz"
ProviderIds == {SwapProviders[i] : i \in DOMAIN SwapProviders}

\* A conversion asks before it starts, and again when it creates its swap.
Promises == Callers \X {"check", "create"}
NoPromise == <<>>
Says == {"lightning", "stablecoinOn", "stablecoinOff"}

VARIABLES
  creating,    \* the providers that are creating swaps
  flipped,     \* ticks since each was switched on or off
  walk,        \* each walk of the list: the index it probes, and its outcome
  selection,   \* the walk whose answer is kept
  selectionAge,
  pinned,      \* the provider the operator forced, or "none"
  selected,    \* the provider chosen last
  probe,       \* each probe for the stablecoin route: "none", "sent", "live", "dead"
  liveness,    \* the probe whose answer is kept
  livenessAge,
  overdue      \* the kinds of answer a call went on with more than TTL too late

lightningVars == <<walk, selection, selectionAge, pinned, selected>>
stablecoinVars == <<probe, liveness, livenessAge>>
providerVars == <<creating, flipped, lightningVars, stablecoinVars, overdue>>

NoWalk == [at |-> 0, outcome |-> "none"]
Walking(w) == walk[w].at > 0 /\ walk[w].outcome = "none"

Older(age) == IF age > TTL THEN age ELSE age + 1

ProvidersTypeOK ==
  /\ creating \subseteq ProviderIds
  /\ flipped \in [ProviderIds -> 0 .. TTL + 1]
  /\ walk \in [Promises -> [at : 0 .. Len(SwapProviders), outcome : ProviderIds \cup {"none", "rejected"}]]
  /\ selection \in Promises \cup {NoPromise} /\ selectionAge \in 0 .. TTL + 1
  /\ pinned \in ProviderIds \cup {"none"} /\ selected \in ProviderIds \cup {"none"}
  /\ probe \in [Promises -> {"none", "sent", "live", "dead"}]
  /\ liveness \in Promises \cup {NoPromise} /\ livenessAge \in 0 .. TTL + 1
  /\ overdue \subseteq Says

ProvidersInit(on) ==
  /\ creating = on
  /\ flipped = [p \in ProviderIds |-> 0]
  /\ walk = [w \in Promises |-> NoWalk]
  /\ selection = NoPromise /\ selectionAge = 0
  /\ pinned = "none" /\ selected = "none"
  /\ probe = [w \in Promises |-> "none"]
  /\ liveness = NoPromise /\ livenessAge = 0
  /\ overdue = {}

----------------------------------------------------------------------------
\* selectSwapProvider: the promise a call at stage s of c awaits.

SelectionIsFresh == pinned # "none" \/ selectionAge < TTL

\* Mutant: what was selected once stays selected.
KeptSelection == IF selection # NoPromise THEN {selection} ELSE {}

\* The kept walk, if it may still be used.
UsableSelection == IF selection # NoPromise /\ SelectionIsFresh THEN {selection} ELSE {}

SelectSwapProvider(w) ==
  IF UsableSelection # {} THEN UNCHANGED lightningVars
  ELSE /\ walk' = [walk EXCEPT ![w] = [at |-> 1, outcome |-> "none"]]
       /\ selection' = w /\ selectionAge' = 0 /\ pinned' = "none"
       /\ UNCHANGED selected

\* One probe of a walk is answered: the only proof of life is a complaint about
\* the amount. The first provider alive ends the walk; a walk that found none is
\* forgotten, unless another one took its place.
WalkProbed(w) ==
  /\ Walking(w)
  /\ LET p == SwapProviders[walk[w].at]
         last == walk[w].at = Len(SwapProviders)
     IN  IF p \in creating
         THEN /\ walk' = [walk EXCEPT ![w].outcome = p]
              /\ selected' = p
              /\ UNCHANGED selection
         ELSE /\ walk' = IF last THEN [walk EXCEPT ![w].outcome = "rejected"]
                         ELSE [walk EXCEPT ![w].at = @ + 1]
              /\ selection' = IF last /\ selection = w THEN NoPromise ELSE selection
              /\ UNCHANGED selected
  /\ UNCHANGED <<creating, flipped, selectionAge, pinned, stablecoinVars, overdue>>

\* invalidateSelectionOnCreationFailure, when the backend refused.
InvalidateSelection == selection' = NoPromise

\* forceSwapProvider: an answered promise of its own, which w stands for.
ForceSwapProvider(w, p) ==
  /\ walk' = [walk EXCEPT ![w] = [at |-> 0, outcome |-> p]]
  /\ selection' = w /\ selected' = p /\ pinned' = p
  /\ UNCHANGED selectionAge

\* providersFrom: the whole list, starting with p.
ProvidersFrom(p) == <<p>> \o SelectSeq(SwapProviders, LAMBDA q : q # p)

----------------------------------------------------------------------------
\* isStablecoinProviderLive

StablecoinAnswered == selected = StablecoinProvider

UsableLiveness == IF liveness # NoPromise /\ livenessAge < TTL THEN {liveness} ELSE {}

AskStablecoin(w) ==
  IF StablecoinAnswered \/ UsableLiveness # {} THEN UNCHANGED stablecoinVars
  ELSE /\ probe' = [probe EXCEPT ![w] = "sent"]
       /\ liveness' = w /\ livenessAge' = 0

StablecoinProbed(w) ==
  /\ probe[w] = "sent"
  /\ probe' = [probe EXCEPT ![w] = IF StablecoinProvider \in creating THEN "live" ELSE "dead"]
  /\ UNCHANGED <<creating, flipped, lightningVars, liveness, livenessAge, overdue>>

----------------------------------------------------------------------------
\* The operators of the backends, and time.

Flip(p) ==
  /\ creating' = IF p \in creating THEN creating \ {p} ELSE creating \cup {p}
  /\ flipped' = [flipped EXCEPT ![p] = 0]
  /\ UNCHANGED <<lightningVars, stablecoinVars, overdue>>

Clock ==
  /\ \A w \in Promises : ~Walking(w) /\ probe[w] # "sent"
  /\ flipped' = [p \in ProviderIds |-> Older(flipped[p])]
  /\ selectionAge' = IF selection = NoPromise THEN selectionAge ELSE Older(selectionAge)
  /\ livenessAge' = IF liveness = NoPromise THEN livenessAge ELSE Older(livenessAge)
  /\ UNCHANGED <<creating, walk, selection, pinned, selected, probe, liveness, overdue>>

----------------------------------------------------------------------------
\* What the answers are worth. A call that hears that a backend is creating, or
\* is not, goes on with something that was so some ticks ago.

Untrue(p, isCreating) == IF (p \in creating) = isCreating THEN 0 ELSE flipped[p]

Hear(s, ages) == overdue' = IF \E a \in ages : a > TTL THEN overdue \cup {s} ELSE overdue

\* A walk that chose a provider says that those above it were not creating.
HearWalk(outcome) ==
  Hear("lightning",
       {Untrue(SwapProviders[i], SwapProviders[i] = outcome) :
          i \in {j \in DOMAIN SwapProviders : \A k \in 1 .. j - 1 : SwapProviders[k] # outcome}})

HearStablecoin(isLive) ==
  Hear(IF isLive THEN "stablecoinOn" ELSE "stablecoinOff", {Untrue(StablecoinProvider, isLive)})

\* "How long a probed answer - the Lightning selection and the pinned stablecoin
\* route's liveness alike - is trusted" (providers.ts): unless the operator pinned a
\* backend, no call goes on with the word that one is creating, or is not, more than
\* TTL after that changed. A backend switched back on is noticed on both rails.
TrustedForTheTTL == overdue \subseteq {"stablecoinOn"}

=============================================================================
