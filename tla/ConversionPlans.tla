--------------------------- MODULE ConversionPlans ---------------------------
(***************************************************************************)
(* Multi-hop conversions: convert() with a route of several legs, and the  *)
(* recovery of the plans it leaves behind (convert/multihop.ts,            *)
(* convert/plan-store.ts, the guardrail hooks of wallet.ts).               *)
(*                                                                         *)
(* The plan is durable before its first leg runs.  A driver claims a leg   *)
(* in the plan, hands it to a provider, waits, records the result, goes on *)
(* with the next leg.  Recovery reads all plans, asks the provider what    *)
(* became of a leg that was under way, and drives the legs that remain, or *)
(* parks a plan it cannot continue.                                        *)
(*                                                                         *)
(* A thread is one convert(), named by its plan, or one pass of recovery;  *)
(* each step is what runs between two awaits.                              *)
(***************************************************************************)
EXTENDS Naturals, Sequences, FiniteSets

CONSTANTS
  Plans,       \* the calls of convert(), one plan each
  Recoveries,  \* callers of recover(), each again and again
  Routes,      \* the routes, sequences of leg kinds
  MaxFaults    \* bound: crashes, failed writes, failed probes and refusals

\* "receive" and "lightning" bring funds in.  "swap" and "send" (a shift or a
\* peg-out) spend through the guardrail hooks of the wallet; "lockup" (an
\* invoice or a stablecoin) spends through lockupLbtc.
Inflows == {"receive", "lightning"}
Kinds == Inflows \union {"swap", "send", "lockup"}

ASSUME RoutesAssumption == Routes \subseteq Seq(Kinds) /\ \A route \in Routes : Len(route) > 0
ASSUME ThreadsAssumption == Plans \intersect Recoveries = {}
ASSUME FaultsAssumption == MaxFaults \in Nat

Threads == Plans \union Recoveries

VARIABLES
  route,    \* the route of each plan
  overlapped, \* the plans whose convert() may be running when recovery runs
  plan,     \* its record in conversion-plans.json
  handed,   \* history: the legs handed to a provider, in order
  outcome,  \* what became of each leg at its provider
  counted,  \* how often the plan's value was recorded in the spending window
  pc,       \* where each thread stands
  job,      \* the plan it is driving
  at,       \* the leg it is driving
  todo,     \* the records a recovery has read and not driven yet
  faults    \* faults so far

vars == <<route, overlapped, plan, handed, outcome, counted, pc, job, at, todo, faults>>
money == <<handed, outcome, counted>>
given == <<route, overlapped>>

\* A leg in the record: "pending" and "awaiting" carry a tracking id, "settled"
\* the amount received, "unsized" is settled without a reported amount.
LegStates == {"unset", "in_flight", "awaiting", "pending", "settled", "unsized"}
Settled == {"settled", "unsized"}

\* cur: currentLegIndex; review: 0, or the leg a needs_review note is about.
NoPlan == [made |-> FALSE, cur |-> 1, review |-> 0, leg |-> <<>>]
NewPlan(legs) == [made |-> TRUE, cur |-> 1, review |-> 0, leg |-> [i \in 1..legs |-> "unset"]]

Driving == {"claim", "guard", "record", "hand", "wait", "reset", "threw", "park", "remove", "probe"}
Places == {"idle", "next", "done"} \union Driving
Working(t) == pc[t] \in Driving \union {"next"}

TypeOK ==
  /\ route \in [Plans -> Routes] /\ overlapped \subseteq Plans
  /\ \A p \in Plans :
       /\ plan[p].made \in BOOLEAN
       /\ plan[p].leg \in [1..(IF plan[p].made THEN Len(route[p]) ELSE 0) -> LegStates]
       /\ plan[p].made => plan[p].cur \in DOMAIN route[p] /\ plan[p].review \in {0} \union DOMAIN route[p]
       /\ handed[p] \in Seq(DOMAIN route[p])
       /\ outcome[p] \in [DOMAIN route[p] -> {"none", "open", "settled", "over"}]
  /\ counted \in [Plans -> Nat]
  /\ pc \in [Threads -> Places]
  /\ \A t \in Threads : Working(t) /\ pc[t] # "next" => job[t] \in Plans /\ at[t] \in DOMAIN route[job[t]]
  /\ faults \in 0..MaxFaults

Init ==
  /\ route \in [Plans -> Routes]
  /\ overlapped \in SUBSET Plans
  /\ plan = [p \in Plans |-> NoPlan]
  /\ handed = [p \in Plans |-> <<>>]
  /\ outcome = [p \in Plans |-> [i \in DOMAIN route[p] |-> "none"]]
  /\ counted = [p \in Plans |-> 0]
  /\ pc = [t \in Threads |-> "idle"]
  /\ job = [t \in Threads |-> IF t \in Plans THEN t ELSE "none"]
  /\ at = [t \in Threads |-> 1]
  /\ todo = [r \in Recoveries |-> {}]
  /\ faults = 0

Goto(t, place) == pc' = [pc EXCEPT ![t] = place]
Finish(t) == Goto(t, IF t \in Recoveries THEN "next" ELSE "done")
GoOn(t, place, i) == Goto(t, place) /\ at' = [at EXCEPT ![t] = i]
Fault == faults < MaxFaults /\ faults' = faults + 1

Kind(t) == route[job[t]][at[t]]
IsLast(t) == at[t] = Len(route[job[t]])

-----------------------------------------------------------------------------
(* plan-store.ts: one read-modify-write of a record under the store mutex  *)

\* patch: a record that is gone stays gone.
Patch(p, rec) == plan' = IF plan[p].made THEN [plan EXCEPT ![p] = rec] ELSE plan
RemovePlan(p) == plan' = [plan EXCEPT ![p] = NoPlan]
WithLeg(p, i, state) == [plan[p] EXCEPT !.leg = [@ EXCEPT ![i] = state]]
\* Every state a driver writes takes the plan out of needs_review.
Result(p, i, state) == [WithLeg(p, i, state) EXCEPT !.review = 0]

-----------------------------------------------------------------------------
(* drivePlan()                                                             *)

\* executeMultiHopRoute: the plan is stored before anything runs.
Start(p) ==
  /\ pc[p] = "idle"
  /\ p \notin overlapped => \A r \in Recoveries : ~Working(r)
  /\ plan' = [plan EXCEPT ![p] = NewPlan(Len(route[p]))]
  /\ Goto(p, "claim")
  /\ UNCHANGED <<given, money, job, at, todo, faults>>

\* Faulty variant: the claim trusts the caller's snapshot.
ClaimBlindly(t) ==
  LET p == job[t] IN
  /\ pc[t] = "claim"
  /\ IF plan[p].made
       THEN /\ plan' = [plan EXCEPT ![p] = [Result(p, at[t], "in_flight") EXCEPT !.cur = at[t]]]
            /\ Goto(t, IF Kind(t) \in Inflows THEN "hand" ELSE "guard")
       ELSE UNCHANGED plan /\ Finish(t)
  /\ UNCHANGED <<given, money, job, at, todo, faults>>

\* claimLeg: the leg is unset in the fresh record, or another driver owns it.
Claim(t) ==
  LET p == job[t] IN
  /\ pc[t] = "claim"
  /\ IF plan[p].made /\ plan[p].leg[at[t]] = "unset"
       THEN /\ plan' = [plan EXCEPT ![p] = [Result(p, at[t], "in_flight") EXCEPT !.cur = at[t]]]
            /\ Goto(t, IF Kind(t) \in Inflows THEN "hand" ELSE "guard")
       ELSE UNCHANGED plan /\ Finish(t)
  /\ UNCHANGED <<given, money, job, at, todo, faults>>

\* The first leg that moves the wallet's own funds.
FirstValueLeg(p) ==
  CHOOSE i \in 1..(Len(route[p]) + 1) :
    /\ \A j \in 1..(i - 1) : route[p][j] \in Inflows
    /\ i <= Len(route[p]) => route[p][i] \notin Inflows

\* Faulty variant: the stored plan is asked, the running leg is not.
ExemptFromTheFirst(t) == plan[job[t]].made /\ Kind(t) # "lockup"

\* Faulty variant: the exemption starts one leg late.
ExemptOneLegLate(t) ==
  plan[job[t]].made /\ Kind(t) # "lockup" /\ at[t] > FirstValueLeg(job[t]) + 1

\* isAuthorizedPlanContinuation: the driver runs the leg as a continuation, and
\* the stored plan stands past its first value leg.  lockupLbtc never asks.
Exempt(t) ==
  LET p == job[t] IN
  /\ Kind(t) # "lockup"
  /\ at[t] > FirstValueLeg(p)
  /\ plan[p].made /\ plan[p].cur > FirstValueLeg(p)

\* The choke point lets the leg pass; a continuation skips its value ceilings.
Guard(t) ==
  /\ pc[t] = "guard"
  /\ Goto(t, "record")
  /\ UNCHANGED <<given, plan, money, job, at, todo, faults>>

\* A GuardrailError, from the allowlist, a ceiling or recordSpend; or lockupLbtc
\* fails before its broadcast and says so (nothingLocked).
Refuse(t) ==
  /\ Fault
  /\ \/ pc[t] = "guard"
     \/ pc[t] = "record" /\ ~Exempt(t)
     \/ pc[t] = "hand" /\ Kind(t) = "lockup"
  /\ Goto(t, "reset")
  /\ UNCHANGED <<given, plan, money, job, at, todo>>

\* recordSpend, unless the plan's value has been counted at an earlier leg.
Record(t) ==
  /\ pc[t] = "record"
  /\ counted' = IF Exempt(t) THEN counted ELSE [counted EXCEPT ![job[t]] = @ + 1]
  /\ Goto(t, "hand")
  /\ UNCHANGED <<given, plan, handed, outcome, job, at, todo, faults>>

\* The provider gets the leg.  A market swap settles at once.
HandOver(p, i) ==
  /\ handed' = [handed EXCEPT ![p] = Append(@, i)]
  /\ outcome' = [outcome EXCEPT ![p][i] = IF route[p][i] = "swap" THEN "settled" ELSE "open"]

Hand(t) ==
  /\ pc[t] = "hand"
  /\ HandOver(job[t], at[t])
  /\ Goto(t, "wait")
  /\ UNCHANGED <<given, plan, counted, job, at, todo, faults>>

\* Anything else that throws, before, while or after the provider gets the leg.
Throw(t) ==
  /\ \/ pc[t] \in {"guard", "record", "hand"} /\ UNCHANGED <<handed, outcome>>
     \/ pc[t] = "hand" /\ HandOver(job[t], at[t])
     \/ pc[t] = "wait" /\ Kind(t) \in {"send", "lockup"} /\ UNCHANGED <<handed, outcome>>
  /\ Goto(t, "threw")
  /\ UNCHANGED <<given, plan, counted, job, at, todo, faults>>

\* An inflow has to be funded; a swap that returned has settled; an exit may
\* settle, come to nothing, or outlive the wait.
Answers(t) ==
  LET end == outcome[job[t]][at[t]] IN
  CASE Kind(t) \in Inflows -> {"awaiting"}
    [] Kind(t) = "swap" -> {"settled"}
    [] OTHER -> {"pending"} \union (IF end = "settled" THEN {"settled", "unsized"} ELSE {})

\* The result is recorded, and decides how the driver goes on.
Wait(t) ==
  LET p == job[t]
      i == at[t]
  IN
  /\ pc[t] = "wait"
  /\ \E answer \in Answers(t) :
       /\ Patch(p, Result(p, i, answer))
       /\ IF answer \notin Settled THEN Finish(t) /\ UNCHANGED at
          ELSE IF IsLast(t) THEN GoOn(t, "remove", i)
          ELSE GoOn(t, "claim", i + 1)
  /\ UNCHANGED <<given, money, job, todo, faults>>

\* The exit came to nothing: refunded or failed.
WaitOver(t) ==
  LET p == job[t] IN
  /\ pc[t] = "wait"
  /\ Kind(t) \in {"send", "lockup"}
  /\ outcome[p][at[t]] = "over"
  /\ Patch(p, Result(p, at[t], "pending"))
  /\ Goto(t, "remove")
  /\ UNCHANGED <<given, money, job, at, todo, faults>>

\* The first leg of a convert() failed: its plan is dropped, the caller told.
FirstLegFailed(t) == t \in Plans /\ at[t] = 1 /\ pc[t] \in {"reset", "threw"}

Drop(t) ==
  /\ FirstLegFailed(t)
  /\ RemovePlan(job[t])
  /\ Goto(t, "done")
  /\ UNCHANGED <<given, money, job, at, todo, faults>>

\* Provably nothing moved: the leg is unset again.
Reset(t) ==
  LET p == job[t] IN
  /\ pc[t] = "reset" /\ ~FirstLegFailed(t)
  /\ Patch(p, Result(p, at[t], "unset"))
  /\ Finish(t)
  /\ UNCHANGED <<given, money, job, at, todo, faults>>

\* Faulty variant: the note counts the legs from zero.
ParkOneLegEarly(t) ==
  LET p == job[t] IN
  /\ pc[t] \in {"threw", "park"} /\ ~FirstLegFailed(t)
  /\ Patch(p, [plan[p] EXCEPT !.review = at[t] - 1])
  /\ Finish(t)
  /\ UNCHANGED <<given, money, job, at, todo, faults>>

\* An ambiguous failure, or a plan recovery cannot continue: needs_review.
Park(t) ==
  LET p == job[t] IN
  /\ pc[t] \in {"threw", "park"} /\ ~FirstLegFailed(t)
  /\ Patch(p, [plan[p] EXCEPT !.review = at[t]])
  /\ Finish(t)
  /\ UNCHANGED <<given, money, job, at, todo, faults>>

Remove(t) ==
  /\ pc[t] = "remove"
  /\ RemovePlan(job[t])
  /\ Finish(t)
  /\ UNCHANGED <<given, money, job, at, todo, faults>>

\* A write of the plan file fails: a removal's failure is swallowed, any other
\* ends what the thread does with this plan.
WriteFails(t) ==
  /\ Fault
  /\ pc[t] \in {"claim", "wait", "reset", "threw", "park", "remove"}
  /\ Finish(t)
  /\ UNCHANGED <<given, plan, money, job, at, todo>>

-----------------------------------------------------------------------------
(* resumeConversionPlans(), under recoveryMutex                            *)

Recover(r) ==
  /\ pc[r] = "idle"
  /\ \A t \in Threads \ overlapped : ~Working(t)
  /\ \E p \in Plans : plan[p].made
  /\ todo' = [todo EXCEPT ![r] = {<<p, plan[p]>> : p \in {q \in Plans : plan[q].made}}]
  /\ Goto(r, "next")
  /\ UNCHANGED <<given, plan, money, job, at, faults>>

\* Faulty variant: a leg under way is always left to its provider.
ResumeLeavesInFlight(rec, i, kind, last) ==
  IF rec.leg[i] = "in_flight" THEN <<"next", i>> ELSE <<"park", i>>

\* Where recovery goes on with leg i, as the record it has read shows it.  A leg
\* under way without a tracking id cannot be asked about: an invoice then counts
\* as still unpaid, anything else is parked.
ResumeAt(rec, i, kind, last) ==
  CASE rec.leg[i] = "unset" ->
         IF i = 1 \/ rec.leg[i - 1] = "settled" THEN <<"claim", i>> ELSE <<"park", i>>
    [] rec.leg[i] \in Settled /\ last -> <<"remove", i>>
    [] rec.leg[i] = "settled" /\ ~last -> <<"claim", i + 1>>
    [] rec.leg[i] = "unsized" /\ ~last -> <<"park", i>>
    [] rec.leg[i] = "in_flight" -> IF kind = "lightning" THEN <<"next", i>> ELSE <<"park", i>>
    [] OTHER -> <<"probe", i>>

\* resumeOnePlan: the next plan of the list; one under review is left alone.
Take(r) ==
  /\ pc[r] = "next"
  /\ \E item \in todo[r] :
       LET p == item[1]
           rec == item[2]
           step == ResumeAt(rec, rec.cur, route[p][rec.cur], rec.cur = Len(route[p]))
       IN
       /\ todo' = [todo EXCEPT ![r] = @ \ {item}]
       /\ IF rec.review # 0
            THEN UNCHANGED <<pc, job, at>>
            ELSE job' = [job EXCEPT ![r] = p] /\ GoOn(r, step[1], step[2])
  /\ UNCHANGED <<given, plan, money, faults>>

\* probeLeg: what a leg with a tracking id has come to.
Probe(r) ==
  LET p == job[r]
      i == at[r]
      end == outcome[p][i]
      Settle(state) == Patch(p, WithLeg(p, i, state))
  IN
  /\ pc[r] = "probe"
  /\ \/ end = "open" /\ Finish(r) /\ UNCHANGED <<plan, at>>
     \/ end # "open" /\ Kind(r) = "lightning" /\ Goto(r, "park") /\ UNCHANGED <<plan, at>>
     \/ end = "over" /\ Kind(r) # "lightning" /\ Goto(r, "remove") /\ UNCHANGED <<plan, at>>
     \/ end = "settled" /\ Kind(r) = "lockup" /\ Goto(r, "remove") /\ UNCHANGED <<plan, at>>
     \/ end = "settled" /\ Kind(r) # "lightning" /\ IsLast(r) /\ Settle("unsized")
          /\ Goto(r, "remove") /\ UNCHANGED at
     \/ end = "settled" /\ Kind(r) = "receive" /\ ~IsLast(r) /\ Settle("unsized")
          /\ Goto(r, "park") /\ UNCHANGED at
     \/ end = "settled" /\ Kind(r) = "receive" /\ ~IsLast(r) /\ Settle("settled")
          /\ GoOn(r, "claim", i + 1)
  /\ UNCHANGED <<given, money, job, todo, faults>>

\* The provider or the store does not answer: the plan waits for the next pass.
ProbeFails(r) ==
  /\ Fault
  /\ pc[r] = "probe"
  /\ Goto(r, "next")
  /\ UNCHANGED <<given, plan, money, job, at, todo>>

RecoverEnds(r) ==
  /\ pc[r] = "next"
  /\ todo[r] = {}
  /\ Goto(r, "idle")
  /\ UNCHANGED <<given, plan, money, job, at, todo, faults>>

-----------------------------------------------------------------------------
(* What happens around them                                                *)

\* A provider ends an order: it delivered, or it expired or was refunded.
ProviderEnds(p) ==
  /\ \E i \in DOMAIN route[p] :
       /\ outcome[p][i] = "open"
       /\ \E end \in {"settled", "over"} : outcome' = [outcome EXCEPT ![p][i] = end]
  /\ UNCHANGED <<given, plan, handed, counted, pc, job, at, todo, faults>>

\* The process dies and is started again.
Crash ==
  /\ Fault
  /\ pc' = [t \in Threads |-> IF t \in Plans /\ pc[t] # "idle" THEN "done" ELSE "idle"]
  /\ todo' = [r \in Recoveries |-> {}]
  /\ UNCHANGED <<given, plan, money, job, at>>

Drive(t) ==
  \/ Claim(t) \/ Guard(t) \/ Record(t) \/ Hand(t) \/ Throw(t) \/ Wait(t) \/ WaitOver(t)
  \/ Drop(t) \/ Reset(t) \/ Park(t) \/ Remove(t)

Pass(r) == Recover(r) \/ Take(r) \/ Probe(r) \/ RecoverEnds(r)

Next ==
  \/ \E p \in Plans : Start(p) \/ ProviderEnds(p)
  \/ \E t \in Threads : Drive(t) \/ Refuse(t) \/ WriteFails(t)
  \/ \E r \in Recoveries : Pass(r) \/ ProbeFails(r)
  \/ Crash

\* The event loop runs what is ready; providers answer and end their orders; an
\* agent or the next start of the wallet calls recover() again.
Fairness ==
  /\ \A t \in Threads : WF_vars(Drive(t))
  /\ \A r \in Recoveries : WF_vars(Pass(r))
  /\ \A p \in Plans : WF_vars(ProviderEnds(p))

Spec == Init /\ [][Next]_vars
FairSpec == Spec /\ Fairness

-----------------------------------------------------------------------------
(* Properties                                                              *)

Has(p, kind) == \E i \in DOMAIN route[p] : route[p][i] = kind

\* "A started leg is NEVER re-executed": each leg reaches its provider once, and
\* only after the leg before it has delivered, however drivers, recoveries and
\* crashes interleave.
LegsOnceInOrder ==
  \A p \in Plans : \A n \in 1..Len(handed[p]) :
    /\ handed[p][n] = n
    /\ n > 1 => outcome[p][n - 1] = "settled"

\* Nothing leaves the wallet uncounted: before a provider gets a leg that spends,
\* the plan's value is in the spending window.
NeverUncounted ==
  \A p \in Plans : (\E n \in 1..Len(handed[p]) : route[p][n] \notin Inflows) => counted[p] > 0

\* The count-once carve-out works for the legs that know of it: whatever a
\* refused leg, a retry or a recovery adds, the value is not counted again.
CountedOnce == \A p \in Plans : ~Has(p, "lockup") => counted[p] <= 1

\* The note of a parked plan tells its reader to run the remaining legs by hand:
\* no leg after the one it is about has been handed to a provider.  Recovery that
\* reads a plan while its convert() goes on breaks this; alone it keeps it.
NoteIsExact ==
  \A p \in Plans \ overlapped : plan[p].review # 0 => Len(handed[p]) <= plan[p].review

\* "A crash at ANY point leaves the plan on disk with enough state to resume":
\* once faults cease, every plan is finished or parked for a human.  A Lightning
\* entry whose tracking id was lost is the exception: it is pending for ever.
EveryPlanConcludes ==
  \A p \in Plans :
    plan[p].made /\ ~Has(p, "lightning") ~> (~plan[p].made \/ plan[p].review # 0)
=============================================================================
