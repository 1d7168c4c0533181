------------------------ MODULE ConversionPlansProofs ------------------------
(***************************************************************************)
(* Proofs about ConversionPlans, for any plans, routes, recoveries and     *)
(* faults, recovery beside running conversions included: a leg reaches its *)
(* provider once, after the leg before it has delivered; nothing leaves    *)
(* the wallet before it is counted, and a plan's value is counted once;    *)
(* the note of a parked plan is exact where recovery runs apart from its   *)
(* convert().                                                              *)
(*                                                                         *)
(* A leg is claimed by whoever finds it unset in the fresh record.  What a *)
(* driver or a recovery believes may be old; it is enough that what is     *)
(* settled stays settled, that a leg handed to a provider is never unset   *)
(* again, and that a claimed leg has one owner (PlanOK, ThreadOK, Apart).  *)
(* Counting and the notes need where the record on disk stands as well:    *)
(* Finer, an invariant on top of IInv; the types need what a record looks  *)
(* like before it is made and whom its note names (Shaped).                *)
(***************************************************************************)
EXTENDS ConversionPlans, WellFoundedInduction, TLAPS

N(p) == Len(route[p])
Ends == {"none", "open", "settled", "over"}
Legs == UNION {[1..n -> LegStates] : n \in Nat}
PlanSet == [made : BOOLEAN, cur : Nat, review : Nat, leg : Legs]

\* A thread that has claimed a leg no provider has got yet.
Owner(t) == pc[t] \in {"guard", "record", "hand", "reset"}

Types ==
  /\ route \in [Plans -> Routes]
  /\ plan \in [Plans -> PlanSet]
  /\ handed \in [Plans -> Seq(Nat)]
  /\ outcome \in [Plans -> UNION {[1..n -> Ends] : n \in Nat}]
  /\ \A p \in Plans : outcome[p] \in [1..N(p) -> Ends]
  /\ counted \in [Plans -> Nat]
  /\ pc \in [Threads -> Places]
  /\ job \in [Threads -> Plans \union {"none"}]
  /\ at \in [Threads -> Nat]
  /\ todo \in [Recoveries -> SUBSET (Plans \X PlanSet)]

\* The legs a provider has got are the first ones, and all but the last have delivered.
MoneyOK(p) ==
  /\ Len(handed[p]) <= N(p)
  /\ \A k \in 1..Len(handed[p]) : handed[p][k] = k
  /\ \A i \in 1..N(p) : outcome[p][i] = "none" <=> i > Len(handed[p])
  /\ \A i \in 1..N(p) : i < Len(handed[p]) => outcome[p][i] = "settled"

\* What a record says of its legs stays true, however long ago it was read.
RecOK(p, rec) ==
  /\ rec.cur \in 1..N(p) /\ rec.leg \in [1..N(p) -> LegStates]
  /\ \A i \in 1..N(p) :
       /\ rec.leg[i] \in Settled => outcome[p][i] = "settled"
       /\ rec.leg[i] \in {"pending", "awaiting"} => i <= Len(handed[p])

\* ... and the record on disk never calls a leg unset that a provider has got.
PlanOK(p) ==
  plan[p].made =>
    /\ RecOK(p, plan[p])
    /\ \A i \in 1..N(p) : i <= Len(handed[p]) => plan[p].leg[i] # "unset"

Delivered(p, i) == i = 1 \/ (i > 1 /\ outcome[p][i - 1] = "settled")

ThreadOK(t) ==
  pc[t] \in Driving =>
    /\ job[t] \in Plans /\ at[t] \in 1..N(job[t]) /\ pc[job[t]] # "idle"
    /\ pc[t] = "claim" => Delivered(job[t], at[t])
    /\ Owner(t) =>
         /\ Delivered(job[t], at[t]) /\ Len(handed[job[t]]) = at[t] - 1
         /\ plan[job[t]].made => plan[job[t]].leg[at[t]] # "unset"
    /\ pc[t] \in {"wait", "probe"} => at[t] <= Len(handed[job[t]])
    /\ pc[t] = "wait" /\ route[job[t]][at[t]] = "swap" => outcome[job[t]][at[t]] = "settled"
    /\ pc[t] = "hand" /\ route[job[t]][at[t]] \notin Inflows => counted[job[t]] > 0

\* A plan has one owner at most.
Apart == \A t, u \in Threads : Owner(t) /\ Owner(u) /\ job[t] = job[u] => t = u

IdleOK(p) ==
  /\ job[p] = p
  /\ pc[p] = "idle" => handed[p] = <<>> /\ ~plan[p].made /\ at[p] = 1

Items == \A r \in Recoveries : \A item \in todo[r] : RecOK(item[1], item[2]) /\ pc[item[1]] # "idle"

IInv ==
  /\ Types /\ Apart /\ Items /\ NeverUncounted
  /\ \A p \in Plans : MoneyOK(p) /\ PlanOK(p) /\ IdleOK(p)
  /\ \A t \in Threads : ThreadOK(t)

----------------------------------------------------------------------------
LEMMA RouteFacts ==
  ASSUME route \in [Plans -> Routes], NEW p \in Plans
  PROVE  /\ route[p] \in Seq(Kinds) /\ N(p) \in Nat /\ N(p) > 0
         /\ DOMAIN route[p] = 1..N(p)
BY RoutesAssumption DEF N

LEMMA ThreadFacts ==
  /\ Plans \subseteq Threads /\ Recoveries \subseteq Threads
  /\ \A p \in Plans : p \notin Recoveries
BY ThreadsAssumption DEF Threads

\* A nonempty set of numbers has a least element.
LEMMA Least ==
  ASSUME NEW T \in SUBSET Nat, T # {}
  PROVE  \E n \in T : \A m \in T : n <= m
<1>1. IsWellFoundedOn(OpToRel(<, Nat), Nat) BY NatLessThanWellFounded
<1>2. PICK x \in T : \A y \in T : ~(<<y, x>> \in OpToRel(<, Nat)) BY <1>1, WFMin
<1>3. \A y \in Nat : y < x => <<y, x>> \in OpToRel(<, Nat) BY DEF OpToRel
<1>4. \A y \in T : y \in Nat /\ ~(y < x) BY <1>2, <1>3
<1> QED BY <1>4

\* The first leg that spends exists, or is one past the end; the legs before it bring
\* funds in.
LEMMA FirstSpends ==
  ASSUME route \in [Plans -> Routes], NEW p \in Plans
  PROVE  /\ FirstValueLeg(p) \in 1..(N(p) + 1)
         /\ \A j \in 1..(FirstValueLeg(p) - 1) : route[p][j] \in Inflows
         /\ FirstValueLeg(p) <= N(p) => route[p][FirstValueLeg(p)] \notin Inflows
<1>0. route[p] \in Seq(Kinds) /\ N(p) \in Nat /\ N(p) > 0 BY RouteFacts
<1> DEFINE T == {i \in 1..(N(p) + 1) : i <= N(p) => route[p][i] \notin Inflows}
<1>1. T \in SUBSET Nat /\ N(p) + 1 \in T BY <1>0
<1>2. PICK n \in T : \A m \in T : n <= m
  <2> HIDE DEF T
  <2> QED BY <1>1, Least
<1>3. \A j \in 1..(n - 1) : route[p][j] \in Inflows
  <2> TAKE j \in 1..(n - 1)
  <2>1. j \in 1..(N(p) + 1) /\ j <= N(p) /\ ~(n <= j) BY <1>0, <1>2
  <2>2. j \notin T BY <1>2, <2>1
  <2> QED BY <2>1, <2>2
<1>4. n \in 1..(N(p) + 1) /\ (n <= N(p) => route[p][n] \notin Inflows) BY <1>2
<1> QED BY <1>3, <1>4 DEF FirstValueLeg, N

\* What is settled stays settled, what was handed over stays so.
Onward ==
  \A p \in Plans :
    /\ Len(handed[p]) <= Len(handed'[p])
    /\ \A i \in 1..N(p) : outcome[p][i] = "settled" => outcome'[p][i] = "settled"

LEMMA RecStays ==
  ASSUME Types, Types', UNCHANGED route, Onward, NEW p \in Plans, NEW rec, RecOK(p, rec)
  PROVE  RecOK(p, rec)'
<1>1. N(p)' = N(p) /\ N(p) \in Nat BY RouteFacts DEF Types, N
<1>2. Len(handed[p]) \in Nat /\ Len(handed'[p]) \in Nat BY DEF Types
<1> QED BY <1>1, <1>2 DEF RecOK, Onward

LEMMA DeliveredStays ==
  ASSUME Types, UNCHANGED route, Onward, NEW p \in Plans, NEW i \in 1..N(p), Delivered(p, i)
  PROVE  Delivered(p, i)'
<1>1. N(p) \in Nat BY RouteFacts DEF Types
<1>2. i > 1 => i - 1 \in 1..N(p) BY <1>1
<1> QED BY <1>2 DEF Delivered, Onward

\* A record that changes keeps what it says, and calls a leg unset only if it was or if
\* nobody has got it or owns it.
PlansKept ==
  \A p \in Plans : plan'[p].made =>
    /\ plan[p].made /\ RecOK(p, plan'[p])
    /\ \A i \in 1..N(p) : plan'[p].leg[i] = "unset" =>
         \/ plan[p].leg[i] = "unset"
         \/ /\ i > Len(handed[p])
            /\ \A u \in Threads : Owner(u)' /\ job'[u] = p => at'[u] # i

\* One thread moves.
LEMMA Moves ==
  ASSUME IInv, NEW t \in Threads, Types', UNCHANGED <<route, handed, outcome>>,
         \A p \in Plans : counted[p] <= counted'[p],
         \A u \in Threads : u # t => pc'[u] = pc[u] /\ job'[u] = job[u] /\ at'[u] = at[u],
         \A r \in Recoveries : todo'[r] \subseteq todo[r],
         PlansKept, ThreadOK(t)',
         t \in Plans => pc[t] # "idle" /\ pc'[t] # "idle" /\ job'[t] = t,
         Owner(t)' => \/ Owner(t) /\ job'[t] = job[t]
                      \/ \A u \in Threads : u # t /\ Owner(u) => job[u] # job'[t]
  PROVE  IInv'
<1>0. Types /\ Onward BY DEF IInv, Types, Onward
<1>1. \A p \in Plans : N(p)' = N(p) BY DEF N
<1>2. Apart' BY DEF IInv, Apart, Owner
<1>3. \A p \in Plans : pc'[p] = "idle" <=> pc[p] = "idle" BY ThreadFacts
<1>4. Items'
  <2> SUFFICES ASSUME NEW r \in Recoveries, NEW item \in todo'[r]
               PROVE  RecOK(item[1], item[2])' /\ pc'[item[1]] # "idle"
    BY DEF Items
  <2>1. item \in todo[r] /\ item[1] \in Plans BY <1>0 DEF Types
  <2>2. RecOK(item[1], item[2]) /\ pc[item[1]] # "idle" BY <2>1 DEF IInv, Items
  <2>3. RecOK(item[1], item[2])' BY <1>0, <2>1, <2>2, RecStays
  <2> QED BY <1>3, <2>1, <2>2, <2>3
<1>5. NeverUncounted' BY <1>0 DEF IInv, NeverUncounted, Types
<1>6. \A p \in Plans : MoneyOK(p)' BY <1>1 DEF IInv, MoneyOK
<1>7. \A p \in Plans : PlanOK(p)'
  <2> SUFFICES ASSUME NEW p \in Plans, plan'[p].made
               PROVE  /\ RecOK(p, plan[p])'
                      /\ \A i \in 1..N(p) : i <= Len(handed[p]) => plan'[p].leg[i] # "unset"
    BY <1>1 DEF PlanOK
  <2>1. plan[p].made /\ RecOK(p, plan'[p]) BY DEF PlansKept
  <2>2. RecOK(p, plan[p])'
    <3>1. PICK rec : rec = plan'[p] OBVIOUS
    <3>2. RecOK(p, rec)' BY <1>0, <2>1, <3>1, RecStays
    <3> QED BY <3>1, <3>2 DEF RecOK
  <2>3. N(p) \in Nat /\ Len(handed[p]) \in Nat BY <1>0, RouteFacts DEF Types
  <2> QED BY <2>1, <2>2, <2>3 DEF IInv, PlanOK, PlansKept
<1>8. \A p \in Plans : IdleOK(p)'
  <2> SUFFICES ASSUME NEW p \in Plans PROVE IdleOK(p)' OBVIOUS
  <2>1. IdleOK(p) /\ p \in Threads BY ThreadFacts DEF IInv
  <2> QED BY <2>1 DEF IdleOK, PlansKept
<1>9. \A u \in Threads : ThreadOK(u)'
  <2> SUFFICES ASSUME NEW u \in Threads, u # t, pc'[u] \in Driving PROVE ThreadOK(u)'
    BY DEF ThreadOK
  <2>0. PICK p, i : p = job[u] /\ i = at[u] OBVIOUS
  <2>1. /\ pc'[u] = pc[u] /\ job'[u] = p /\ at'[u] = i
        /\ p \in Plans /\ i \in 1..N(p) /\ pc[p] # "idle" /\ ThreadOK(u)
    BY <2>0 DEF IInv, ThreadOK
  <2>2. pc'[p] # "idle" BY <1>3, <2>1
  <2>3. counted[p] > 0 => counted'[p] > 0 BY <1>0, <2>1 DEF Types
  <2>4. Delivered(p, i) => Delivered(p, i)' BY DEF Delivered
  <2>5. Owner(u) /\ plan'[p].made => plan'[p].leg[i] # "unset"
    <3> SUFFICES ASSUME Owner(u), plan'[p].made, plan'[p].leg[i] = "unset" PROVE FALSE OBVIOUS
    <3>1. Owner(u)' BY <2>1 DEF Owner
    <3>2. plan[p].made /\ plan[p].leg[i] = "unset" BY <2>1, <3>1 DEF PlansKept
    <3> QED BY <2>0, <2>1, <3>2 DEF ThreadOK
  <2>6. /\ pc[u] = "claim" => Delivered(p, i)
        /\ Owner(u) => Delivered(p, i) /\ Len(handed[p]) = i - 1
        /\ pc[u] \in {"wait", "probe"} => i <= Len(handed[p])
        /\ pc[u] = "wait" /\ route[p][i] = "swap" => outcome[p][i] = "settled"
        /\ pc[u] = "hand" /\ route[p][i] \notin Inflows => counted[p] > 0
    BY <2>0, <2>1 DEF ThreadOK
  <2>7. i \in 1..N(p)' BY <1>1, <2>1
  <2>8. Owner(u)' <=> Owner(u) BY <2>1 DEF Owner
  <2>9. /\ pc'[u] = "claim" => Delivered(p, i)'
        /\ Owner(u)' => /\ Delivered(p, i)' /\ Len(handed'[p]) = i - 1
                        /\ plan'[p].made => plan'[p].leg[i] # "unset"
        /\ pc'[u] \in {"wait", "probe"} => i <= Len(handed'[p])
        /\ pc'[u] = "wait" /\ route'[p][i] = "swap" => outcome'[p][i] = "settled"
        /\ pc'[u] = "hand" /\ route'[p][i] \notin Inflows => counted'[p] > 0
    BY <2>1, <2>3, <2>4, <2>5, <2>6, <2>8
  <2>10. job'[u] = p /\ at'[u] = i /\ p \in Plans BY <2>1
  <2>11. /\ at'[u] \in 1..N(job[u])' /\ pc'[job'[u]] # "idle" /\ job'[u] \in Plans
    BY <2>2, <2>7, <2>10 DEF N
  <2>12. /\ (pc'[u] = "claim" \/ Owner(u)') => Delivered(job[u], at[u])'
    BY <2>9, <2>10 DEF Delivered
  <2> QED BY <2>9, <2>10, <2>11, <2>12 DEF ThreadOK
<1> QED BY <1>2, <1>4, <1>5, <1>6, <1>7, <1>8, <1>9 DEF IInv

----------------------------------------------------------------------------
\* What a write does to the plans.

LEMMA PlanSame == ASSUME IInv, UNCHANGED plan PROVE PlansKept
BY DEF IInv, PlanOK, PlansKept

LEMMA Removes ==
  ASSUME IInv, NEW p \in Plans, RemovePlan(p)
  PROVE  plan' \in [Plans -> PlanSet] /\ PlansKept
<1>1. NoPlan \in PlanSet /\ ~NoPlan.made
  <2>1. <<>> \in [1..0 -> LegStates] OBVIOUS
  <2> QED BY <2>1 DEF NoPlan, PlanSet, Legs
<1> QED BY <1>1 DEF IInv, Types, RemovePlan, PlanOK, PlansKept

LEMMA Reviews ==
  ASSUME IInv, NEW p \in Plans, NEW n \in Nat, Patch(p, [plan[p] EXCEPT !.review = n])
  PROVE  plan' \in [Plans -> PlanSet] /\ PlansKept
<1> DEFINE rec == [plan[p] EXCEPT !.review = n]
<1>1. plan[p] \in PlanSet BY DEF IInv, Types
<1>2. rec \in PlanSet /\ rec.leg = plan[p].leg /\ rec.made = plan[p].made /\ rec.cur = plan[p].cur
  BY <1>1 DEF PlanSet
<1>3. Patch(p, rec) OBVIOUS
<1> HIDE DEF rec
<1>4. plan' \in [Plans -> PlanSet] BY <1>2, <1>3 DEF IInv, Types, Patch
<1>5. PlansKept
  BY <1>2, <1>3 DEF IInv, Types, PlanOK, PlansKept, RecOK, Patch
<1> QED BY <1>4, <1>5

\* The records that differ from the stored one in leg i.
Written(p, i, state) ==
  {WithLeg(p, i, state), Result(p, i, state), [Result(p, i, state) EXCEPT !.cur = i]}

\* The state of one leg is written, truly.
LEMMA LegWritten ==
  ASSUME IInv, NEW p \in Plans, NEW i \in 1..N(p), NEW state \in LegStates,
         NEW rec \in Written(p, i, state), Patch(p, rec),
         state \in Settled => outcome[p][i] = "settled",
         state \in {"pending", "awaiting"} => i <= Len(handed[p]),
         state = "unset" => /\ i > Len(handed[p])
                            /\ \A u \in Threads : Owner(u)' /\ job'[u] = p => at'[u] # i
  PROVE  /\ plan' \in [Plans -> PlanSet] /\ PlansKept
         /\ plan'[p].made => plan[p].made /\ plan'[p].leg[i] = state
<1>0. plan[p] \in PlanSet /\ N(p) \in Nat BY RouteFacts DEF IInv, Types
<1>1. CASE ~plan[p].made BY <1>1, PlanSame DEF Patch, IInv, Types
<1>2. CASE plan[p].made
  <2>1. RecOK(p, plan[p]) BY <1>2 DEF IInv, PlanOK
  <2> DEFINE leg == [plan[p].leg EXCEPT ![i] = state]
  <2>2. leg \in [1..N(p) -> LegStates] /\ \A j \in 1..N(p) : leg[j] = IF j = i THEN state ELSE plan[p].leg[j]
    BY <2>1 DEF RecOK
  <2>3. leg \in Legs BY <1>0, <2>2 DEF Legs
  <2>4. rec.leg = leg /\ rec.made = TRUE /\ rec.cur \in {plan[p].cur, i} /\ rec \in PlanSet
    <3> HIDE DEF leg
    <3>1. WithLeg(p, i, state) = [plan[p] EXCEPT !.leg = leg] BY DEF WithLeg, leg
    <3>2. i \in Nat BY <1>0
    <3>3. /\ WithLeg(p, i, state) \in PlanSet /\ WithLeg(p, i, state).leg = leg
          /\ WithLeg(p, i, state).made = TRUE /\ WithLeg(p, i, state).cur = plan[p].cur
      BY <1>0, <1>2, <2>3, <3>1 DEF PlanSet
    <3>4. /\ Result(p, i, state) \in PlanSet /\ Result(p, i, state).leg = leg
          /\ Result(p, i, state).made = TRUE /\ Result(p, i, state).cur = plan[p].cur
      BY <3>3 DEF PlanSet, Result
    <3>5. LET r == [Result(p, i, state) EXCEPT !.cur = i]
          IN  r \in PlanSet /\ r.leg = leg /\ r.made = TRUE /\ r.cur = i
      BY <3>2, <3>4 DEF PlanSet
    <3> QED BY <3>3, <3>4, <3>5 DEF Written
  <2> HIDE DEF leg
  <2>5. plan' = [plan EXCEPT ![p] = rec] BY <1>2 DEF Patch
  <2>6. plan' \in [Plans -> PlanSet] /\ plan'[p] = rec /\ \A q \in Plans : q # p => plan'[q] = plan[q]
    BY <2>4, <2>5 DEF IInv, Types
  <2>7. RecOK(p, rec) BY <2>1, <2>2, <2>4 DEF RecOK
  <2>8. PlansKept
    <3> SUFFICES ASSUME NEW q \in Plans, plan'[q].made
                 PROVE  /\ plan[q].made /\ RecOK(q, plan'[q])
                        /\ \A j \in 1..N(q) : plan'[q].leg[j] = "unset" =>
                             \/ plan[q].leg[j] = "unset"
                             \/ /\ j > Len(handed[q])
                                /\ \A u \in Threads : Owner(u)' /\ job'[u] = q => at'[u] # j
      BY DEF PlansKept
    <3>1. CASE q = p
      <4>1. plan[q].made /\ RecOK(q, plan'[q]) /\ plan'[q].leg = leg
        BY <1>2, <2>4, <2>6, <2>7, <3>1
      <4>2. ASSUME NEW j \in 1..N(q), leg[j] = "unset"
            PROVE  \/ plan[q].leg[j] = "unset"
                   \/ /\ j > Len(handed[q])
                      /\ \A u \in Threads : Owner(u)' /\ job'[u] = q => at'[u] # j
        <5>1. CASE j # i BY <2>2, <3>1, <4>2, <5>1
        <5>2. CASE j = i
          <6>1. state = "unset" BY <2>2, <4>2, <5>2
          <6> QED BY <3>1, <5>2, <6>1
        <5> QED BY <5>1, <5>2
      <4> QED BY <4>1, <4>2
    <3>2. CASE q # p BY <2>6, <3>2 DEF IInv, PlanOK
    <3> QED BY <3>1, <3>2
  <2> QED BY <1>2, <2>2, <2>4, <2>6, <2>8
<1> QED BY <1>1, <1>2

\* The thread is done with its plan.
LEMMA Finishes ==
  ASSUME IInv, NEW t \in Threads, pc[t] \in Driving, Finish(t),
         UNCHANGED <<route, handed, outcome, counted, job, at>>, plan' \in [Plans -> PlanSet],
         PlansKept, UNCHANGED todo
  PROVE  IInv'
<1> DEFINE place == IF t \in Recoveries THEN "next" ELSE "done"
<1>1. \A u \in Threads : pc'[u] = IF u = t THEN place ELSE pc[u] BY DEF Finish, Goto, IInv, Types
<1>2. place \in Places /\ place \notin Driving /\ place # "idle" BY DEF Places, Driving
<1>3. Types' BY <1>2 DEF IInv, Types, Finish, Goto, N
<1> HIDE DEF place
<1>4. ThreadOK(t)' /\ ~Owner(t)' BY <1>1, <1>2 DEF ThreadOK, Owner, Driving
<1>5. t \in Plans => pc[t] # "idle" /\ pc'[t] # "idle" /\ job'[t] = t
  BY <1>1, <1>2 DEF IInv, IdleOK, Driving
<1>6. \A p \in Plans : counted[p] <= counted'[p] BY DEF IInv, Types
<1> QED BY <1>1, <1>3, <1>4, <1>5, <1>6, Moves

\* The thread goes on with the same plan.
LEMMA GoesOn ==
  ASSUME IInv, NEW t \in Threads, pc[t] \in Driving, NEW place \in Driving, NEW i \in 1..N(job[t]),
         GoOn(t, place, i), UNCHANGED <<route, handed, outcome, job, todo>>,
         counted' \in [Plans -> Nat], \A p \in Plans : counted[p] <= counted'[p],
         plan' \in [Plans -> PlanSet], PlansKept,
         place = "claim" => Delivered(job[t], i),
         place \in {"guard", "record", "hand", "reset"} =>
           /\ i = at[t]
           /\ Owner(t) \/ \A u \in Threads : u # t /\ Owner(u) => job[u] # job[t]
           /\ Delivered(job[t], i) /\ Len(handed[job[t]]) = i - 1
           /\ plan'[job[t]].made => plan'[job[t]].leg[i] # "unset",
         place = "probe" => i <= Len(handed[job[t]]), place # "wait",
         place = "hand" /\ route[job[t]][i] \notin Inflows => counted'[job[t]] > 0
  PROVE  IInv'
<1>1. \A u \in Threads : /\ pc'[u] = (IF u = t THEN place ELSE pc[u])
                         /\ at'[u] = (IF u = t THEN i ELSE at[u])
                         /\ job'[u] = job[u]
  BY DEF GoOn, Goto, IInv, Types
<1>2. job[t] \in Plans /\ pc[job[t]] # "idle" /\ N(job[t]) \in Nat
  BY RouteFacts DEF IInv, ThreadOK, Types
<1>3. Types'
  <2>1. i \in Nat /\ place \in Places BY <1>2 DEF Places
  <2> QED BY <2>1 DEF IInv, Types, GoOn, Goto, N
<1>4. ThreadOK(t)'
  <2>1. PICK p : p = job[t] OBVIOUS
  <2>2. p \in Plans /\ pc'[p] # "idle" /\ i \in 1..N(p)'
    BY <1>1, <1>2, <2>1, ThreadFacts DEF Driving, N
  <2>3. Delivered(p, i) => Delivered(p, i)' BY DEF Delivered
  <2>4. Owner(t)' <=> place \in {"guard", "record", "hand", "reset"} BY <1>1 DEF Owner
  <2>5. pc'[t] = place /\ job'[t] = p /\ at'[t] = i BY <1>1, <2>1
  <2>6. /\ place = "claim" => Delivered(p, i)'
        /\ Owner(t)' => /\ Delivered(p, i)' /\ Len(handed'[p]) = i - 1
                        /\ plan'[p].made => plan'[p].leg[i] # "unset"
        /\ place \in {"wait", "probe"} => i <= Len(handed'[p])
        /\ place = "hand" /\ route'[p][i] \notin Inflows => counted'[p] > 0
    BY <2>1, <2>3, <2>4
  <2>7. at'[t] \in 1..N(job[t])' /\ pc'[job'[t]] # "idle" /\ job'[t] \in Plans
    BY <2>2, <2>5 DEF N
  <2>8. pc'[t] = "claim" \/ Owner(t)' => Delivered(job[t], at[t])'
    BY <2>5, <2>6 DEF Delivered
  <2> QED BY <2>5, <2>6, <2>7, <2>8 DEF ThreadOK
<1>5. t \in Plans => pc[t] # "idle" /\ pc'[t] # "idle" /\ job'[t] = t
  BY <1>1 DEF IInv, IdleOK, Driving
<1>6. Owner(t)' => \/ Owner(t) /\ job'[t] = job[t]
                   \/ \A u \in Threads : u # t /\ Owner(u) => job[u] # job'[t]
  BY <1>1 DEF Owner
<1> QED BY <1>1, <1>3, <1>4, <1>5, <1>6, Moves

----------------------------------------------------------------------------
\* The actions of a driver.

LEMMA AtWork ==
  ASSUME IInv, NEW t \in Threads, pc[t] \in Driving
  PROVE  /\ job[t] \in Plans /\ at[t] \in 1..N(job[t]) /\ ThreadOK(t)
         /\ \A place, i : i = at[t] /\ at' = at /\ Goto(t, place) => GoOn(t, place, i)
         /\ N(job[t]) \in Nat /\ Len(handed[job[t]]) \in Nat
<1>1. job[t] \in Plans /\ at[t] \in 1..N(job[t]) /\ ThreadOK(t) BY DEF IInv, ThreadOK
<1>2. at = [at EXCEPT ![t] = at[t]] BY DEF IInv, Types
<1>3. N(job[t]) \in Nat /\ Len(handed[job[t]]) \in Nat BY <1>1, RouteFacts DEF IInv, Types
<1> QED BY <1>1, <1>2, <1>3 DEF GoOn

LEMMA ClaimKeeps == ASSUME IInv, NEW t \in Threads, Claim(t) PROVE IInv'
<1> DEFINE p == job[t]
           i == at[t]
           place == IF Kind(t) \in Inflows THEN "hand" ELSE "guard"
<1>0. pc[t] = "claim" /\ UNCHANGED <<given, money, job, at, todo, faults>> BY DEF Claim
<1>1. /\ p \in Plans /\ i \in 1..N(p) /\ Delivered(p, i) /\ N(p) \in Nat /\ Len(handed[p]) \in Nat
  BY <1>0, AtWork DEF Driving, ThreadOK
<1>2. counted' \in [Plans -> Nat] /\ \A q \in Plans : counted[q] <= counted'[q]
  BY <1>0 DEF IInv, Types, money
<1>3. CASE UNCHANGED plan /\ Finish(t)
  BY <1>0, <1>3, PlanSame, Finishes DEF Driving, given, money, IInv, Types
<1>4. CASE /\ plan[p].made /\ plan[p].leg[i] = "unset" /\ Goto(t, place)
           /\ plan' = [plan EXCEPT ![p] = [Result(p, i, "in_flight") EXCEPT !.cur = i]]
  <2>1. Len(handed[p]) = i - 1
    <3>1. i > Len(handed[p]) BY <1>1, <1>4 DEF IInv, PlanOK
    <3>2. i > 1 => i - 1 <= Len(handed[p])
      <4>1. MoneyOK(p) BY <1>1 DEF IInv
      <4>2. i > 1 => i - 1 \in 1..N(p) /\ outcome[p][i - 1] # "none" BY <1>1 DEF Delivered
      <4> QED BY <1>1, <4>1, <4>2 DEF MoneyOK
    <3> QED BY <1>1, <3>1, <3>2
  <2>2. \A u \in Threads : u # t /\ Owner(u) => job[u] # p
    <3> SUFFICES ASSUME NEW u \in Threads, Owner(u), job[u] = p PROVE FALSE OBVIOUS
    <3>1. ThreadOK(u) /\ pc[u] \in Driving BY DEF IInv, Owner, Driving
    <3>2. Len(handed[p]) = at[u] - 1 /\ plan[p].leg[at[u]] # "unset" /\ at[u] \in 1..N(p)
      BY <1>4, <3>1 DEF ThreadOK
    <3>3. at[u] = i BY <1>1, <2>1, <3>2
    <3> QED BY <1>4, <3>2, <3>3
  <2>3. PICK q, k, rec : q = p /\ k = i /\ rec = [Result(q, k, "in_flight") EXCEPT !.cur = k]
    OBVIOUS
  <2>4. plan' \in [Plans -> PlanSet] /\ PlansKept /\ (plan'[p].made => plan'[p].leg[i] = "in_flight")
    <3>1. q \in Plans /\ k \in 1..N(q) /\ Patch(q, rec) BY <1>1, <1>4, <2>3 DEF Patch
    <3>2. "in_flight" \in LegStates /\ "in_flight" \notin Settled BY DEF Settled, LegStates
    <3>3. rec \in Written(q, k, "in_flight") BY <2>3 DEF Written
    <3>4. plan' \in [Plans -> PlanSet] /\ PlansKept /\ (plan'[q].made => plan'[q].leg[k] = "in_flight")
      BY <3>1, <3>2, <3>3, LegWritten
    <3> QED BY <2>3, <3>4
  <2>5. place \in Driving /\ GoOn(t, place, i) BY <1>0, <1>4, AtWork DEF Driving
  <2>6. place = "hand" => route[p][i] \in Inflows BY DEF Kind
  <2>7. place \in {"hand", "guard"} OBVIOUS
  <2> HIDE DEF place
  <2> QED BY <1>0, <1>1, <1>2, <2>1, <2>2, <2>4, <2>5, <2>6, <2>7, GoesOn DEF Driving, given, money
<1> QED BY <1>3, <1>4 DEF Claim

\* Steps that only move a thread that owns its leg.
LEMMA OwnerMoves ==
  ASSUME IInv, NEW t \in Threads, Owner(t), NEW place \in {"record", "hand", "reset", "threw"},
         Goto(t, place), UNCHANGED <<route, plan, handed, outcome, job, at, todo>>,
         counted' \in [Plans -> Nat], \A p \in Plans : counted[p] <= counted'[p],
         place = "hand" /\ Kind(t) \notin Inflows => counted'[job[t]] > 0
  PROVE  IInv'
<1>1. pc[t] \in Driving BY DEF Owner, Driving
<1>2. /\ job[t] \in Plans /\ at[t] \in 1..N(job[t]) /\ GoOn(t, place, at[t])
      /\ Delivered(job[t], at[t]) /\ Len(handed[job[t]]) = at[t] - 1
      /\ plan'[job[t]].made => plan'[job[t]].leg[at[t]] # "unset"
  BY <1>1, AtWork DEF ThreadOK
<1>3. place \in Driving /\ place # "claim" /\ place # "probe" /\ place # "wait" BY DEF Driving
<1>4. plan' \in [Plans -> PlanSet] /\ PlansKept BY PlanSame DEF IInv, Types
<1> QED BY <1>1, <1>2, <1>3, <1>4, GoesOn DEF Kind

LEMMA GuardKeeps ==
  ASSUME IInv, NEW t \in Threads, Guard(t) \/ Refuse(t) PROVE IInv'
<1>1. /\ Owner(t) /\ UNCHANGED <<route, plan, handed, outcome, counted, job, at, todo>>
      /\ Goto(t, "record") \/ Goto(t, "reset")
  BY DEF Guard, Refuse, Owner, given, money
<1>2. counted' \in [Plans -> Nat] /\ \A q \in Plans : counted[q] <= counted'[q]
  BY <1>1 DEF IInv, Types
<1> QED BY <1>1, <1>2, OwnerMoves

\* A leg is let through uncounted only when an earlier one has spent, and was counted.
LEMMA RecordKeeps == ASSUME IInv, NEW t \in Threads, Record(t) PROVE IInv'
<1> DEFINE p == job[t]
           i == at[t]
<1>0. /\ pc[t] = "record" /\ Goto(t, "hand") /\ Owner(t)
      /\ UNCHANGED <<route, plan, handed, outcome, job, at, todo>>
      /\ counted' = IF Exempt(t) THEN counted ELSE [counted EXCEPT ![p] = @ + 1]
  BY DEF Record, Owner, given
<1>1. p \in Plans /\ i \in 1..N(p) /\ Len(handed[p]) = i - 1 /\ N(p) \in Nat
  BY <1>0, AtWork DEF Driving, ThreadOK
<1>2. Exempt(t) => counted[p] > 0
  <2> SUFFICES ASSUME Exempt(t) PROVE counted[p] > 0 OBVIOUS
  <2>1. i > FirstValueLeg(p) BY DEF Exempt
  <2>2. FirstValueLeg(p) \in 1..Len(handed[p]) /\ route[p][FirstValueLeg(p)] \notin Inflows
    BY <1>1, <2>1, FirstSpends DEF IInv, Types
  <2> QED BY <1>1, <2>2 DEF IInv, NeverUncounted
<1>3. counted' \in [Plans -> Nat] /\ counted'[p] > 0 /\ \A q \in Plans : counted[q] <= counted'[q]
  <2>1. counted \in [Plans -> Nat] BY DEF IInv, Types
  <2> HIDE DEF p
  <2> QED BY <1>0, <1>1, <1>2, <2>1
<1> QED BY <1>0, <1>3, OwnerMoves

LEMMA DriverEnds ==
  ASSUME IInv, NEW t \in Threads, WaitOver(t) \/ Drop(t) \/ Park(t) \/ Remove(t) \/ WriteFails(t)
  PROVE  IInv'
<1> DEFINE p == job[t]
           i == at[t]
<1>0. pc[t] \in Driving /\ UNCHANGED <<route, handed, outcome, counted, job, at, todo>>
  BY DEF WaitOver, Drop, Park, Remove, WriteFails, FirstLegFailed, given, money, Driving
<1>1. p \in Plans /\ i \in 1..N(p) /\ ThreadOK(t) /\ N(p) \in Nat BY <1>0, AtWork
<1>2. CASE WaitOver(t)
  <2>1. /\ Patch(p, Result(p, i, "pending")) /\ GoOn(t, "remove", i) /\ i <= Len(handed[p])
    BY <1>0, <1>1, <1>2, AtWork DEF WaitOver, ThreadOK
  <2> HIDE DEF p, i
  <2>2. Result(p, i, "pending") \in Written(p, i, "pending") BY DEF Written
  <2>3. plan' \in [Plans -> PlanSet] /\ PlansKept
    <3>1. "pending" \in LegStates /\ "pending" \notin Settled BY DEF Settled, LegStates
    <3> QED BY <1>1, <2>1, <2>2, <3>1, LegWritten
  <2>4. counted' \in [Plans -> Nat] /\ \A q \in Plans : counted[q] <= counted'[q]
    BY <1>0 DEF IInv, Types
  <2> QED BY <1>0, <1>1, <2>1, <2>3, <2>4, GoesOn DEF Driving, p, i
<1>3. CASE Drop(t)
  <2>1. Finish(t) /\ RemovePlan(p) BY <1>3, ThreadFacts DEF Drop, FirstLegFailed, Finish
  <2> QED BY <1>0, <1>1, <2>1, Removes, Finishes
<1>4. CASE Park(t)
  <2>1. Finish(t) /\ Patch(p, [plan[p] EXCEPT !.review = i]) /\ i \in Nat
    BY <1>1, <1>4 DEF Park
  <2> QED BY <1>0, <1>1, <2>1, Reviews, Finishes
<1>5. CASE Remove(t)
  BY <1>0, <1>1, <1>5, Removes, Finishes DEF Remove
<1>6. CASE WriteFails(t)
  BY <1>0, <1>6, PlanSame, Finishes DEF WriteFails, IInv, Types
<1> QED BY <1>2, <1>3, <1>4, <1>5, <1>6

\* Nothing has moved and the owner gives its leg back.
LEMMA ResetKeeps == ASSUME IInv, NEW t \in Threads, Reset(t) PROVE IInv'
<1> DEFINE p == job[t]
           i == at[t]
<1>0. /\ pc[t] = "reset" /\ Finish(t) /\ Patch(p, Result(p, i, "unset"))
      /\ UNCHANGED <<route, handed, outcome, counted, job, at, todo>>
  BY DEF Reset, given, money
<1>1. Owner(t) /\ p \in Plans /\ i \in 1..N(p) /\ Len(handed[p]) = i - 1 /\ N(p) \in Nat
  BY <1>0, AtWork DEF Driving, ThreadOK, Owner
<1>2. \A u \in Threads : Owner(u)' => u # t /\ Owner(u) /\ job'[u] = job[u]
  BY <1>0 DEF Owner, Finish, Goto, IInv, Types
<1>3. \A u \in Threads : Owner(u)' /\ job'[u] = p => at'[u] # i
  BY <1>1, <1>2 DEF IInv, Apart
<1>4. plan' \in [Plans -> PlanSet] /\ PlansKept
  <2>1. PICK q, k, rec : q = p /\ k = i /\ rec = Result(q, k, "unset") OBVIOUS
  <2>2. q \in Plans /\ k \in 1..N(q) /\ Patch(q, rec) /\ k > Len(handed[q]) BY <1>0, <1>1, <2>1
  <2>3. rec \in Written(q, k, "unset") BY <2>1 DEF Written
  <2>4. "unset" \in LegStates /\ "unset" \notin Settled BY DEF Settled, LegStates
  <2>5. \A u \in Threads : Owner(u)' /\ job'[u] = q => at'[u] # k BY <1>3, <2>1
  <2> QED BY <2>2, <2>3, <2>4, <2>5, LegWritten
<1> QED BY <1>0, <1>4, Finishes DEF Driving

LEMMA WaitKeeps == ASSUME IInv, NEW t \in Threads, Wait(t) PROVE IInv'
<1> DEFINE p == job[t]
           i == at[t]
<1>0. pc[t] = "wait" /\ UNCHANGED <<route, handed, outcome, counted, job, todo>>
  BY DEF Wait, given, money
<1>1. /\ p \in Plans /\ i \in 1..N(p) /\ i <= Len(handed[p]) /\ N(p) \in Nat
      /\ route[p][i] = "swap" => outcome[p][i] = "settled"
      /\ route[p] \in Seq(Kinds)
  BY <1>0, AtWork, RouteFacts DEF Driving, ThreadOK, IInv, Types
<1>2. PICK answer \in Answers(t) :
        /\ Patch(p, Result(p, i, answer))
        /\ IF answer \notin Settled THEN Finish(t) /\ UNCHANGED at
           ELSE IF IsLast(t) THEN GoOn(t, "remove", i) ELSE GoOn(t, "claim", i + 1)
  BY DEF Wait
<1>3. answer \in LegStates \ {"unset"} /\ (answer \in Settled => outcome[p][i] = "settled")
  BY <1>1 DEF Answers, Kind, LegStates, Settled
<1>4. plan' \in [Plans -> PlanSet] /\ PlansKept
  <2>1. Result(p, i, answer) \in Written(p, i, answer) BY DEF Written
  <2> HIDE DEF p, i
  <2>2. answer \in LegStates /\ answer # "unset" BY <1>3
  <2> QED BY <1>1, <1>2, <1>3, <2>1, <2>2, LegWritten
<1>5. counted' \in [Plans -> Nat] /\ \A q \in Plans : counted[q] <= counted'[q]
  BY <1>0 DEF IInv, Types
<1>6. CASE answer \notin Settled
  BY <1>0, <1>2, <1>4, <1>6, Finishes DEF Driving
<1>7. CASE answer \in Settled /\ IsLast(t)
  BY <1>0, <1>1, <1>2, <1>4, <1>5, <1>7, GoesOn DEF Driving
<1>8. CASE answer \in Settled /\ ~IsLast(t)
  <2>1. i + 1 \in 1..N(p) /\ Delivered(p, i + 1)
    BY <1>1, <1>3, <1>8 DEF IsLast, Delivered, N
  <2> QED BY <1>0, <1>2, <1>4, <1>5, <1>8, <2>1, GoesOn DEF Driving
<1> QED BY <1>6, <1>7, <1>8

\* The provider gets the leg of its only owner.
LEMMA HandOverKeeps ==
  ASSUME IInv, NEW t \in Threads, pc[t] = "hand", HandOver(job[t], at[t]),
         NEW place \in {"wait", "threw"}, Goto(t, place),
         UNCHANGED <<route, plan, counted, job, at, todo>>
  PROVE  IInv'
<1>1. PICK p, i : p = job[t] /\ i = at[t] OBVIOUS
<1>2. /\ p \in Plans /\ i \in 1..N(p) /\ Owner(t) /\ Len(handed[p]) = i - 1 /\ Delivered(p, i)
      /\ plan[p].made => plan[p].leg[i] # "unset"
      /\ route[p][i] \notin Inflows => counted[p] > 0
      /\ pc[p] # "idle" /\ N(p) \in Nat /\ route[p] \in Seq(Kinds)
  BY <1>1, AtWork, RouteFacts DEF Driving, ThreadOK, Owner, IInv, Types
<1>3. handed' = [handed EXCEPT ![p] = Append(@, i)] BY <1>1 DEF HandOver
<1>4. /\ handed'[p] = Append(handed[p], i) /\ handed' \in [Plans -> Seq(Nat)]
      /\ \A q \in Plans : q # p => handed'[q] = handed[q]
  <2>1. handed \in [Plans -> Seq(Nat)] /\ i \in Nat BY <1>2 DEF IInv, Types
  <2> QED BY <1>2, <1>3, <2>1
<1>5. /\ Len(handed'[p]) = i
      /\ \A k \in 1..(i - 1) : handed'[p][k] = handed[p][k]
      /\ handed'[p][i] = i
  <2>1. handed[p] \in Seq(Nat) /\ i \in Nat BY <1>2 DEF IInv, Types
  <2> QED BY <1>2, <1>4, <2>1
<1>6. PICK end \in {"settled", "open"} :
        /\ outcome' = [outcome EXCEPT ![p] = [outcome[p] EXCEPT ![i] = end]]
        /\ route[p][i] = "swap" => end = "settled"
  BY <1>1 DEF HandOver
<1>7. /\ outcome'[p] = [outcome[p] EXCEPT ![i] = end]
      /\ \A q \in Plans : q # p => outcome'[q] = outcome[q]
  BY <1>2, <1>6 DEF IInv, Types
<1>8. /\ outcome[p] \in [1..N(p) -> Ends]
      /\ \A j \in 1..N(p) : outcome'[p][j] = IF j = i THEN end ELSE outcome[p][j]
      /\ outcome'[p] \in [1..N(p) -> Ends]
  BY <1>2, <1>7 DEF IInv, Types, Ends
<1>9. \A q \in Plans : N(q)' = N(q) BY DEF N
<1>10. MoneyOK(p) /\ Types BY <1>2 DEF IInv
<1>11. Onward
  <2>1. outcome[p][i] = "none" BY <1>2, <1>10 DEF MoneyOK
  <2>2. Len(handed[p]) <= Len(handed'[p]) BY <1>2, <1>5
  <2>3. \A q \in Plans : Len(handed[q]) \in Nat BY DEF IInv, Types
  <2>4. \A j \in 1..N(p) : outcome[p][j] = "settled" => outcome'[p][j] = "settled" BY <1>8, <2>1
  <2> SUFFICES ASSUME NEW q \in Plans
               PROVE  /\ Len(handed[q]) <= Len(handed'[q])
                      /\ \A j \in 1..N(q) : outcome[q][j] = "settled" => outcome'[q][j] = "settled"
    BY DEF Onward
  <2>5. CASE q = p BY <2>2, <2>4, <2>5
  <2>6. CASE q # p BY <1>4, <1>7, <2>3, <2>6
  <2> QED BY <2>5, <2>6
<1>12. /\ \A u \in Threads : pc'[u] = IF u = t THEN place ELSE pc[u]
       /\ Types'
  <2>1. place \in Places BY DEF Places, Driving
  <2>2. outcome' \in [Plans -> UNION {[1..n -> Ends] : n \in Nat}]
    <3>1. [outcome[p] EXCEPT ![i] = end] \in UNION {[1..n -> Ends] : n \in Nat}
      BY <1>2, <1>7, <1>8
    <3> HIDE DEF Ends
    <3> QED BY <1>6, <1>10, <3>1 DEF Types
  <2>3. \A q \in Plans : outcome'[q] \in [1..N(q)' -> Ends]
    BY <1>7, <1>8, <1>9, <1>10 DEF Types
  <2>4. \A u \in Threads : pc'[u] = IF u = t THEN place ELSE pc[u] BY DEF IInv, Types, Goto
  <2>5. pc' \in [Threads -> Places] BY <1>10, <2>1 DEF Types, Goto
  <2> QED BY <1>4, <1>10, <2>2, <2>3, <2>4, <2>5 DEF Types
<1>13. MoneyOK(p)'
  <2>1. \A k \in 1..i : handed'[p][k] = k BY <1>2, <1>5, <1>10 DEF MoneyOK
  <2>2. \A j \in 1..N(p) : outcome'[p][j] = "none" <=> j > i
    BY <1>2, <1>8, <1>10 DEF MoneyOK
  <2>3. \A j \in 1..N(p) : j < i => outcome'[p][j] = "settled"
    BY <1>2, <1>8, <1>10 DEF MoneyOK, Delivered
  <2> QED BY <1>2, <1>5, <1>9, <2>1, <2>2, <2>3 DEF MoneyOK
<1>14. ASSUME NEW q \in Plans, q # p PROVE MoneyOK(q)'
  <2>1. MoneyOK(q) /\ handed'[q] = handed[q] /\ outcome'[q] = outcome[q] /\ N(q)' = N(q)
    BY <1>4, <1>7, <1>9, <1>14 DEF IInv
  <2> QED BY <2>1 DEF MoneyOK
<1>15. \A q \in Plans : PlanOK(q)'
  <2> SUFFICES ASSUME NEW q \in Plans, plan[q].made
               PROVE  RecOK(q, plan[q])' /\ \A j \in 1..N(q) : j <= Len(handed'[q]) => plan[q].leg[j] # "unset"
    BY <1>9 DEF PlanOK
  <2>1. RecOK(q, plan[q]) /\ \A j \in 1..N(q) : j <= Len(handed[q]) => plan[q].leg[j] # "unset"
    BY DEF IInv, PlanOK
  <2>2. RecOK(q, plan[q])'
    <3>1. PICK rec : rec = plan[q] OBVIOUS
    <3>2. RecOK(q, rec)' BY <1>10, <1>11, <1>12, <2>1, <3>1, RecStays
    <3>3. plan'[q] = rec BY <3>1
    <3> QED BY <3>2, <3>3 DEF RecOK
  <2>3. \A j \in 1..N(q) : j <= Len(handed'[q]) => plan[q].leg[j] # "unset"
    <3>1. CASE q # p BY <1>4, <2>1, <3>1
    <3>2. CASE q = p BY <1>2, <1>5, <2>1, <3>2
    <3> QED BY <3>1, <3>2
  <2> QED BY <2>2, <2>3
<1>16. \A q \in Plans : pc'[q] = "idle" <=> pc[q] = "idle" BY <1>12, ThreadFacts
<1>17. Items'
  <2> SUFFICES ASSUME NEW r \in Recoveries, NEW item \in todo[r]
               PROVE  RecOK(item[1], item[2])' /\ pc'[item[1]] # "idle"
    BY DEF Items
  <2>1. item[1] \in Plans BY <1>10 DEF Types
  <2>2. RecOK(item[1], item[2]) /\ pc[item[1]] # "idle" BY DEF IInv, Items
  <2>3. RecOK(item[1], item[2])' BY <1>10, <1>11, <1>12, <2>1, <2>2, RecStays
  <2> QED BY <1>16, <2>1, <2>2, <2>3
<1>18. \A q \in Plans : IdleOK(q)'
  <2> SUFFICES ASSUME NEW q \in Plans PROVE IdleOK(q)' OBVIOUS
  <2>1. IdleOK(q) BY DEF IInv
  <2>2. pc[q] = "idle" => q # p BY <1>2
  <2> QED BY <1>4, <1>16, <2>1, <2>2 DEF IdleOK
<1>19. Apart' BY <1>12 DEF IInv, Apart, Owner
<1>20. NeverUncounted'
  <2> SUFFICES ASSUME NEW q \in Plans, NEW n \in 1..Len(handed'[q]), route[q][n] \notin Inflows
               PROVE  counted[q] > 0
    BY DEF NeverUncounted
  <2>1. CASE q # p BY <1>4, <2>1 DEF IInv, NeverUncounted
  <2>2. CASE q = p /\ n = i BY <1>2, <2>2
  <2>3. CASE q = p /\ n # i
    <3>1. n \in 1..Len(handed[p]) BY <1>2, <1>5, <2>3
    <3> QED BY <1>2, <2>3, <3>1 DEF IInv, NeverUncounted
  <2> QED BY <2>1, <2>2, <2>3
<1>21. \A u \in Threads : ThreadOK(u)'
  <2> SUFFICES ASSUME NEW u \in Threads, pc'[u] \in Driving PROVE ThreadOK(u)' BY DEF ThreadOK
  <2>1. PICK q, k : q = job[u] /\ k = at[u] OBVIOUS
  <2>2. pc[u] \in Driving BY <1>12 DEF Driving
  <2>3. q \in Plans /\ k \in 1..N(q) /\ pc[q] # "idle" /\ ThreadOK(u) /\ job'[u] = q /\ at'[u] = k
    BY <2>1, <2>2, AtWork DEF ThreadOK
  <2>4. at'[u] \in 1..N(job[u])' /\ job'[u] \in Plans /\ pc'[job'[u]] # "idle"
    BY <1>9, <1>16, <2>3 DEF N
  <2>5. CASE u = t
    <3>1. pc'[u] = place /\ q = p /\ k = i BY <1>1, <1>12, <2>1, <2>5
    <3>2. place = "wait" /\ route[p][i] = "swap" => outcome'[p][i] = "settled"
      BY <1>2, <1>6, <1>8
    <3>3. i <= Len(handed'[p]) BY <1>2, <1>5
    <3> QED BY <2>3, <2>4, <3>1, <3>2, <3>3 DEF ThreadOK, Owner
  <2>6. CASE u # t
    <3>1. pc'[u] = pc[u] BY <1>12, <2>6
    <3>2. Owner(u) => q # p BY <1>1, <1>2, <2>1, <2>6 DEF IInv, Apart
    <3>3. Delivered(q, k) => Delivered(q, k)' BY <1>10, <1>11, <2>3, DeliveredStays
    <3>4. Owner(u) => handed'[q] = handed[q] BY <1>4, <2>3, <3>2
    <3>5. Len(handed[q]) <= Len(handed'[q]) /\ Len(handed[q]) \in Nat /\ Len(handed'[q]) \in Nat
      BY <1>10, <1>11, <1>12, <2>3 DEF Onward, Types
    <3>6. outcome[q][k] = "settled" => outcome'[q][k] = "settled" BY <1>11, <2>3 DEF Onward
    <3>7. /\ pc[u] = "claim" => Delivered(q, k)
          /\ Owner(u) => /\ Delivered(q, k) /\ Len(handed[q]) = k - 1
                         /\ plan[q].made => plan[q].leg[k] # "unset"
          /\ pc[u] \in {"wait", "probe"} => k <= Len(handed[q])
          /\ pc[u] = "wait" /\ route[q][k] = "swap" => outcome[q][k] = "settled"
          /\ pc[u] = "hand" /\ route[q][k] \notin Inflows => counted[q] > 0
      BY <2>1, <2>2, <2>3 DEF ThreadOK
    <3>8. k \in Nat BY <2>3
    <3>9. pc[u] \in {"wait", "probe"} => k <= Len(handed'[q]) BY <3>5, <3>7, <3>8
    <3>10. Owner(u)' <=> Owner(u) BY <3>1 DEF Owner
    <3>11. pc'[u] = "claim" \/ Owner(u)' => Delivered(job[u], at[u])'
      BY <2>3, <3>1, <3>3, <3>7, <3>10 DEF Delivered
    <3> QED BY <2>3, <2>4, <3>1, <3>4, <3>6, <3>7, <3>9, <3>10, <3>11 DEF ThreadOK
  <2> QED BY <2>5, <2>6
<1> QED BY <1>12, <1>13, <1>14, <1>15, <1>17, <1>18, <1>19, <1>20, <1>21 DEF IInv

LEMMA HandKeeps == ASSUME IInv, NEW t \in Threads, Hand(t) \/ Throw(t) PROVE IInv'
<1>0. /\ UNCHANGED <<route, plan, counted, job, at, todo>>
      /\ \/ pc[t] = "hand" /\ HandOver(job[t], at[t]) /\ (Goto(t, "wait") \/ Goto(t, "threw"))
         \/ /\ UNCHANGED <<handed, outcome>> /\ Goto(t, "threw")
            /\ pc[t] \in {"guard", "record", "hand", "wait"}
  BY DEF Hand, Throw, given
<1>1. CASE pc[t] = "hand" /\ HandOver(job[t], at[t]) /\ (Goto(t, "wait") \/ Goto(t, "threw"))
  BY <1>0, <1>1, HandOverKeeps
<1>2. CASE /\ UNCHANGED <<handed, outcome>> /\ Goto(t, "threw")
           /\ pc[t] \in {"guard", "record", "hand", "wait"}
  <2>1. counted' \in [Plans -> Nat] /\ \A q \in Plans : counted[q] <= counted'[q]
    BY <1>0 DEF IInv, Types
  <2>2. CASE Owner(t) BY <1>0, <1>2, <2>1, <2>2, OwnerMoves
  <2>3. CASE pc[t] = "wait"
    <3>1. pc[t] \in Driving BY <2>3 DEF Driving
    <3>2. at[t] \in 1..N(job[t]) /\ GoOn(t, "threw", at[t]) BY <1>0, <1>2, <3>1, AtWork
    <3>3. plan' \in [Plans -> PlanSet] /\ PlansKept BY <1>0, PlanSame DEF IInv, Types
    <3> QED BY <1>0, <1>2, <2>1, <3>1, <3>2, <3>3, GoesOn DEF Driving
  <2> QED BY <1>2, <2>2, <2>3 DEF Owner
<1> QED BY <1>0, <1>1, <1>2

----------------------------------------------------------------------------
\* Recovery.

\* Where recovery goes on, as far as the record it has read is to be believed.
LEMMA Resumes ==
  ASSUME IInv, NEW p \in Plans, NEW rec, RecOK(p, rec), NEW place, NEW k,
         <<place, k>> = ResumeAt(rec, rec.cur, route[p][rec.cur], rec.cur = Len(route[p]))
  PROVE  /\ place \in {"claim", "park", "remove", "next", "probe"} /\ k \in 1..N(p)
         /\ k = rec.cur \/ (k = rec.cur + 1 /\ place = "claim")
         /\ place = "claim" => Delivered(p, k)
         /\ place = "probe" => k <= Len(handed[p])
         /\ place = "remove" => outcome[p][k] = "settled" /\ k = N(p)
         /\ rec.cur = 1 /\ rec.leg[1] \in {"unset", "in_flight"} =>
              (place = "claim" /\ k = 1) \/ place \in {"park", "next"}
<1>1. PICK i : i = rec.cur OBVIOUS
<1>2. i \in 1..N(p) /\ N(p) \in Nat /\ rec.leg[i] \in LegStates /\ N(p) = Len(route[p])
  BY <1>1, RouteFacts DEF RecOK, IInv, Types, N
<1> DEFINE step == ResumeAt(rec, i, route[p][i], i = Len(route[p]))
<1>3. <<place, k>> = step BY <1>1
<1>4. CASE rec.leg[i] = "unset"
  <2>1. CASE i = 1 \/ rec.leg[i - 1] = "settled"
    <3>1. step = <<"claim", i>> BY <1>4, <2>1 DEF ResumeAt, Settled
    <3>2. place = "claim" /\ k = i BY <1>3, <3>1
    <3>3. i # 1 => i - 1 \in 1..N(p) BY <1>2
    <3>4. Delivered(p, i) BY <1>2, <2>1, <3>3 DEF RecOK, Settled, Delivered
    <3> QED BY <1>1, <1>2, <3>2, <3>4
  <2>2. CASE ~(i = 1 \/ rec.leg[i - 1] = "settled")
    <3>1. step = <<"park", i>> BY <1>4, <2>2 DEF ResumeAt, Settled
    <3>2. place = "park" /\ k = i BY <1>3, <3>1
    <3> QED BY <1>1, <1>2, <3>2
  <2> QED BY <2>1, <2>2
<1>5. CASE rec.leg[i] \in Settled
  <2>0. outcome[p][i] = "settled" /\ rec.leg[i] \notin {"unset", "in_flight"}
    BY <1>2, <1>5 DEF RecOK, Settled
  <2>1. CASE i = Len(route[p])
    <3>1. step = <<"remove", i>> BY <1>5, <2>1 DEF ResumeAt, Settled
    <3>2. place = "remove" /\ k = i BY <1>3, <3>1
    <3> QED BY <1>1, <1>2, <2>0, <2>1, <3>2
  <2>2. CASE i # Len(route[p]) /\ rec.leg[i] = "settled"
    <3>1. step = <<"claim", i + 1>> BY <2>2 DEF ResumeAt, Settled
    <3>2. place = "claim" /\ k = i + 1 BY <1>3, <3>1
    <3>3. i + 1 \in 1..N(p) /\ Delivered(p, i + 1) BY <1>2, <2>0, <2>2 DEF Delivered
    <3> QED BY <1>1, <1>2, <2>0, <3>2, <3>3
  <2>3. CASE i # Len(route[p]) /\ rec.leg[i] = "unsized"
    <3>1. step = <<"park", i>> BY <2>3 DEF ResumeAt, Settled
    <3>2. place = "park" /\ k = i BY <1>3, <3>1
    <3> QED BY <1>1, <1>2, <3>2
  <2> QED BY <1>5, <2>1, <2>2, <2>3 DEF Settled
<1>6. CASE rec.leg[i] = "in_flight"
  <2>1. place \in {"next", "park"} /\ k = i BY <1>3, <1>6 DEF ResumeAt, Settled
  <2> QED BY <1>1, <1>2, <2>1
<1>7. CASE rec.leg[i] \in {"pending", "awaiting"}
  <2>1. place = "probe" /\ k = i BY <1>3, <1>7 DEF ResumeAt, Settled
  <2>2. k <= Len(handed[p]) BY <1>2, <1>7, <2>1 DEF RecOK
  <2>3. rec.cur = 1 => rec.leg[1] \notin {"unset", "in_flight"} BY <1>1, <1>7
  <2> QED BY <1>1, <1>2, <2>1, <2>2, <2>3
<1> QED BY <1>2, <1>4, <1>5, <1>6, <1>7 DEF LegStates, Settled

\* Recovery goes on with a plan it has read, or leaves it alone.
GoesUp(r, p, rec) ==
  \/ UNCHANGED <<pc, job, at>>
  \/ \E place, k :
       /\ <<place, k>> = ResumeAt(rec, rec.cur, route[p][rec.cur], rec.cur = Len(route[p]))
       /\ rec.review = 0
       /\ job' = [job EXCEPT ![r] = p] /\ GoOn(r, place, k)

\* It takes the record off its list.
TakesUp(r, item) ==
  /\ item \in todo[r] /\ item[1] \in Plans /\ RecOK(item[1], item[2]) /\ pc[item[1]] # "idle"
  /\ todo' = [todo EXCEPT ![r] = @ \ {item}] /\ todo'[r] = todo[r] \ {item}
  /\ \A q \in Recoveries : q # r => todo'[q] = todo[q]
  /\ pc[r] = "next" /\ r \in Threads /\ r \notin Plans
  /\ UNCHANGED <<route, overlapped, plan, handed, outcome, counted>>
  /\ GoesUp(r, item[1], item[2])

LEMMA TakingUp ==
  ASSUME IInv, NEW r \in Recoveries, Take(r) PROVE \E item \in todo[r] : TakesUp(r, item)
<1>0. r \in Threads /\ r \notin Plans BY ThreadFacts
<1>1. pc[r] = "next" /\ UNCHANGED <<route, overlapped, plan, handed, outcome, counted>>
  BY DEF Take, given, money
<1>2. PICK item \in todo[r] :
        LET p == item[1]
            rec == item[2]
            step == ResumeAt(rec, rec.cur, route[p][rec.cur], rec.cur = Len(route[p]))
        IN  /\ todo' = [todo EXCEPT ![r] = @ \ {item}]
            /\ IF rec.review # 0 THEN UNCHANGED <<pc, job, at>>
               ELSE job' = [job EXCEPT ![r] = p] /\ GoOn(r, step[1], step[2])
  BY DEF Take
<1>3. item[1] \in Plans /\ RecOK(item[1], item[2]) /\ pc[item[1]] # "idle"
  BY DEF IInv, Types, Items
<1>4. todo' = [todo EXCEPT ![r] = @ \ {item}] /\ todo'[r] = todo[r] \ {item}
      /\ \A q \in Recoveries : q # r => todo'[q] = todo[q]
  BY <1>2 DEF IInv, Types
<1>5. GoesUp(r, item[1], item[2])
  <2>1. PICK p, rec : p = item[1] /\ rec = item[2] OBVIOUS
  <2>2. PICK step : step = ResumeAt(rec, rec.cur, route[p][rec.cur], rec.cur = Len(route[p])) OBVIOUS
  <2>3. step = <<step[1], step[2]>> BY <2>2 DEF ResumeAt
  <2>4. IF rec.review # 0 THEN UNCHANGED <<pc, job, at>>
        ELSE job' = [job EXCEPT ![r] = p] /\ GoOn(r, step[1], step[2])
    BY <1>2, <2>1, <2>2
  <2> QED BY <2>1, <2>2, <2>3, <2>4 DEF GoesUp
<1> QED BY <1>0, <1>1, <1>3, <1>4, <1>5 DEF TakesUp

LEMMA TakeKeeps == ASSUME IInv, NEW r \in Recoveries, Take(r) PROVE IInv'
<1>0. \E item \in todo[r] : TakesUp(r, item) BY TakingUp
<1>1. PICK item \in todo[r] : TakesUp(r, item) BY <1>0
<1>2. /\ pc[r] = "next" /\ r \in Threads /\ r \notin Plans
      /\ UNCHANGED <<route, plan, handed, outcome, counted>>
      /\ item[1] \in Plans /\ RecOK(item[1], item[2]) /\ pc[item[1]] # "idle"
      /\ todo' = [todo EXCEPT ![r] = @ \ {item}] /\ GoesUp(r, item[1], item[2])
  BY <1>1 DEF TakesUp
<1>3. PICK p, rec : p = item[1] /\ rec = item[2] OBVIOUS
<1>4. p \in Plans /\ RecOK(p, rec) /\ pc[p] # "idle" /\ N(p) \in Nat
  BY <1>2, <1>3, RouteFacts DEF IInv, Types
<1>5. (\A q \in Recoveries : todo'[q] \subseteq todo[q]) /\ todo' \in [Recoveries -> SUBSET (Plans \X PlanSet)]
  BY <1>2 DEF IInv, Types
<1>6. PlansKept /\ \A q \in Plans : counted[q] <= counted'[q] BY <1>2, PlanSame DEF IInv, Types
<1>7. CASE UNCHANGED <<pc, job, at>>
  <2>1. Types' BY <1>2, <1>5, <1>7 DEF IInv, Types, N
  <2>2. ThreadOK(r)' /\ ~Owner(r)' BY <1>2, <1>7 DEF ThreadOK, Owner, Driving
  <2> QED BY <1>2, <1>5, <1>6, <1>7, <2>1, <2>2, Moves
<1>8. ASSUME NEW place, NEW k, job' = [job EXCEPT ![r] = p], GoOn(r, place, k),
             <<place, k>> = ResumeAt(rec, rec.cur, route[p][rec.cur], rec.cur = Len(route[p]))
      PROVE  IInv'
  <2>1. /\ place \in {"claim", "park", "remove", "next", "probe"} /\ k \in 1..N(p)
        /\ place = "claim" => Delivered(p, k)
        /\ place = "probe" => k <= Len(handed[p])
    BY <1>4, <1>8, Resumes
  <2>2. /\ \A u \in Threads : /\ pc'[u] = (IF u = r THEN place ELSE pc[u])
                              /\ at'[u] = (IF u = r THEN k ELSE at[u])
                              /\ job'[u] = (IF u = r THEN p ELSE job[u])
    BY <1>8 DEF GoOn, Goto, IInv, Types
  <2>3. Types'
    <3>1. k \in Nat /\ place \in Places BY <1>4, <2>1 DEF Places, Driving
    <3> QED BY <1>2, <1>4, <1>5, <1>8, <3>1 DEF IInv, Types, GoOn, Goto, N
  <2>4. ~Owner(r)' BY <1>2, <2>1, <2>2 DEF Owner
  <2>5. ThreadOK(r)'
    <3>1. pc'[r] = place /\ at'[r] = k /\ job'[r] = p /\ pc'[p] # "idle"
      BY <1>2, <1>4, <2>2, ThreadFacts
    <3>2. at'[r] \in 1..N(job[r])' BY <1>2, <2>1, <3>1 DEF N
    <3>3. pc'[r] = "claim" => Delivered(job[r], at[r])' BY <1>2, <2>1, <3>1 DEF Delivered
    <3>4. pc'[r] \notin {"wait", "hand"} BY <2>1, <3>1
    <3> QED BY <1>2, <1>4, <2>1, <2>4, <3>1, <3>2, <3>3, <3>4 DEF ThreadOK
  <2> QED BY <1>2, <1>5, <1>6, <2>2, <2>3, <2>4, <2>5, Moves
<1> QED BY <1>2, <1>3, <1>7, <1>8 DEF GoesUp

LEMMA ProbeKeeps ==
  ASSUME IInv, NEW r \in Recoveries, Probe(r) \/ ProbeFails(r) \/ RecoverEnds(r) PROVE IInv'
<1> DEFINE p == job[r]
           i == at[r]
<1>0. r \in Threads /\ r \notin Plans /\ UNCHANGED <<route, handed, outcome, counted, job, todo>>
  BY ThreadFacts DEF Probe, ProbeFails, RecoverEnds, given, money
<1>1. counted' \in [Plans -> Nat] /\ \A q \in Plans : counted[q] <= counted'[q]
  BY <1>0 DEF IInv, Types
<1>2. CASE RecoverEnds(r)
  <2>1. /\ pc[r] = "next" /\ UNCHANGED <<plan, at>>
        /\ \A u \in Threads : pc'[u] = IF u = r THEN "idle" ELSE pc[u]
        /\ Types'
    BY <1>0, <1>2 DEF RecoverEnds, Goto, IInv, Types, Places, given, N
  <2>2. ThreadOK(r)' /\ ~Owner(r)' BY <1>0, <2>1 DEF ThreadOK, Owner, Driving
  <2>3. PlansKept BY <2>1, PlanSame
  <2> QED BY <1>0, <1>1, <2>1, <2>2, <2>3, Moves
<1>3. CASE ProbeFails(r)
  <2>1. pc[r] \in Driving /\ Finish(r) /\ UNCHANGED <<plan, at>>
    BY <1>3 DEF ProbeFails, Finish, Driving
  <2>2. plan' \in [Plans -> PlanSet] /\ PlansKept BY <2>1, PlanSame DEF IInv, Types
  <2> QED BY <1>0, <2>1, <2>2, Finishes
<1>4. CASE Probe(r)
  <2>0. pc[r] = "probe" BY <1>4 DEF Probe
  <2>1. /\ p \in Plans /\ i \in 1..N(p) /\ i <= Len(handed[p]) /\ N(p) \in Nat
        /\ \A place : Goto(r, place) /\ UNCHANGED at => GoOn(r, place, i)
    BY <1>0, <2>0, AtWork DEF Driving, ThreadOK
  <2>2. \/ /\ plan' = plan /\ UNCHANGED at
           /\ Finish(r) \/ Goto(r, "park") \/ Goto(r, "remove")
        \/ /\ outcome[p][i] = "settled"
           /\ \E state \in Settled :
                /\ Patch(p, WithLeg(p, i, state))
                /\ \/ (Goto(r, "remove") \/ Goto(r, "park")) /\ UNCHANGED at
                   \/ ~IsLast(r) /\ GoOn(r, "claim", i + 1)
    BY <1>4 DEF Probe, Settled
  <2>3. CASE plan' = plan /\ UNCHANGED at /\ (Finish(r) \/ Goto(r, "park") \/ Goto(r, "remove"))
    <3>1. plan' \in [Plans -> PlanSet] /\ PlansKept BY <2>3, PlanSame DEF IInv, Types
    <3>2. CASE Finish(r) BY <1>0, <2>0, <2>3, <3>1, <3>2, Finishes DEF Driving
    <3>3. CASE Goto(r, "park") \/ Goto(r, "remove")
      BY <1>0, <1>1, <2>0, <2>1, <2>3, <3>1, <3>3, GoesOn DEF Driving
    <3> QED BY <2>3, <3>2, <3>3
  <2>4. ASSUME outcome[p][i] = "settled", NEW state \in Settled, Patch(p, WithLeg(p, i, state)),
               \/ (Goto(r, "remove") \/ Goto(r, "park")) /\ UNCHANGED at
               \/ ~IsLast(r) /\ GoOn(r, "claim", i + 1)
        PROVE  IInv'
    <3>1. plan' \in [Plans -> PlanSet] /\ PlansKept
      <4>1. WithLeg(p, i, state) \in Written(p, i, state) BY DEF Written
      <4>2. state \in LegStates /\ state # "unset" BY DEF Settled, LegStates
      <4> HIDE DEF p, i
      <4> QED BY <2>1, <2>4, <4>1, <4>2, LegWritten
    <3>2. CASE (Goto(r, "remove") \/ Goto(r, "park")) /\ UNCHANGED at
      BY <1>0, <1>1, <2>0, <2>1, <3>1, <3>2, GoesOn DEF Driving
    <3>3. CASE ~IsLast(r) /\ GoOn(r, "claim", i + 1)
      <4>1. i + 1 \in 1..N(p) /\ Delivered(p, i + 1)
        BY <2>1, <2>4, <3>3 DEF IsLast, Delivered, N
      <4> QED BY <1>0, <1>1, <2>0, <3>1, <3>3, <4>1, GoesOn DEF Driving
    <3> QED BY <2>4, <3>2, <3>3
  <2> QED BY <2>2, <2>3, <2>4
<1> QED BY <1>2, <1>3, <1>4

LEMMA RecoverKeeps == ASSUME IInv, NEW r \in Recoveries, Recover(r) PROVE IInv'
<1>0. /\ r \in Threads /\ r \notin Plans
      /\ UNCHANGED <<route, plan, handed, outcome, counted, job, at>>
      /\ \A u \in Threads : pc'[u] = IF u = r THEN "next" ELSE pc[u]
      /\ pc[r] = "idle"
  BY ThreadFacts DEF Recover, Goto, given, money, IInv, Types
<1> DEFINE read == {<<p, plan[p]>> : p \in {q \in Plans : plan[q].made}}
<1>1. read \subseteq Plans \X PlanSet BY DEF IInv, Types
<1>2. todo' = [todo EXCEPT ![r] = read] BY DEF Recover
<1>3. \A item \in read : item[1] \in Plans /\ RecOK(item[1], item[2]) /\ pc[item[1]] # "idle"
  BY DEF IInv, PlanOK, IdleOK
<1> HIDE DEF read
<1>4. Types'
  <2>1. pc' \in [Threads -> Places] BY DEF Recover, Goto, Places, IInv, Types
  <2>2. todo' \in [Recoveries -> SUBSET (Plans \X PlanSet)] BY <1>1, <1>2 DEF IInv, Types
  <2> QED BY <1>0, <2>1, <2>2 DEF IInv, Types, N
<1>5. \A p \in Plans : pc'[p] = pc[p] BY <1>0, ThreadFacts
<1>6. Items'
  <2> SUFFICES ASSUME NEW q \in Recoveries, NEW item \in todo'[q]
               PROVE  RecOK(item[1], item[2])' /\ pc'[item[1]] # "idle"
    BY DEF Items
  <2>1. item \in todo[q] \/ item \in read BY <1>2 DEF IInv, Types
  <2>2. item[1] \in Plans /\ RecOK(item[1], item[2]) /\ pc[item[1]] # "idle"
    BY <1>3, <2>1 DEF IInv, Items, Types
  <2> QED BY <1>0, <1>5, <2>2 DEF RecOK, N
<1>7. \A p \in Plans : MoneyOK(p)' /\ PlanOK(p)' /\ IdleOK(p)'
  BY <1>0, <1>5 DEF IInv, MoneyOK, PlanOK, RecOK, IdleOK, N
<1>8. Apart' /\ NeverUncounted' BY <1>0 DEF IInv, Apart, Owner, NeverUncounted
<1>9. \A u \in Threads : ThreadOK(u)'
  <2> SUFFICES ASSUME NEW u \in Threads, pc'[u] \in Driving PROVE ThreadOK(u)' BY DEF ThreadOK
  <2>1. pc'[u] = pc[u] BY <1>0 DEF Driving
  <2>2. ThreadOK(u) BY DEF IInv
  <2> QED BY <1>0, <1>5, <2>1, <2>2 DEF ThreadOK, Owner, Delivered, N
<1> QED BY <1>4, <1>6, <1>7, <1>8, <1>9 DEF IInv

----------------------------------------------------------------------------
\* What happens around them.

\* No thread works on a plan that has not been started.
LEMMA NobodyBefore ==
  ASSUME IInv, NEW p \in Plans, pc[p] = "idle"
  PROVE  \A u \in Threads : pc[u] \in Driving => job[u] # p
BY DEF IInv, ThreadOK

LEMMA StartKeeps == ASSUME IInv, NEW p \in Plans, Start(p) PROVE IInv'
<1> DEFINE new == NewPlan(N(p))
<1>0. /\ pc[p] = "idle" /\ p \in Threads /\ UNCHANGED <<route, handed, outcome, counted, job, at, todo>>
      /\ plan' = [plan EXCEPT ![p] = new]
      /\ \A u \in Threads : pc'[u] = IF u = p THEN "claim" ELSE pc[u]
  BY ThreadFacts DEF Start, Goto, given, money, IInv, Types, N
<1>1. /\ N(p) \in Nat /\ N(p) > 0 /\ \A q \in Plans : N(q)' = N(q)
      /\ handed[p] = <<>> /\ at[p] = 1 /\ job[p] = p
  BY <1>0, RouteFacts DEF IInv, Types, IdleOK, N
<1>2. /\ new.made = TRUE /\ new.cur = 1 /\ new.leg \in [1..N(p) -> LegStates] /\ new \in PlanSet
      /\ \A i \in 1..N(p) : new.leg[i] = "unset"
  BY <1>1 DEF NewPlan, PlanSet, Legs, LegStates
<1> HIDE DEF new
<1>3. /\ plan' \in [Plans -> PlanSet] /\ plan'[p] = new
      /\ \A q \in Plans : q # p => plan'[q] = plan[q]
  BY <1>0, <1>2 DEF IInv, Types
<1>4. Types'
  <2>1. pc' \in [Threads -> Places] BY DEF Start, Goto, Places, Driving, IInv, Types
  <2> QED BY <1>0, <1>3, <2>1 DEF IInv, Types, N
<1>5. \A u \in Threads : Owner(u)' => u # p /\ Owner(u) /\ job[u] # p
  BY <1>0, NobodyBefore DEF Owner, Driving
<1>6. Apart' BY <1>0, <1>5 DEF IInv, Apart
<1>7. Items'
  <2> SUFFICES ASSUME NEW r \in Recoveries, NEW item \in todo[r]
               PROVE  RecOK(item[1], item[2])' /\ pc'[item[1]] # "idle"
    BY <1>0 DEF Items
  <2>1. item[1] \in Plans /\ item[1] \in Threads /\ RecOK(item[1], item[2]) /\ pc[item[1]] # "idle"
    BY ThreadFacts DEF IInv, Items, Types
  <2> QED BY <1>0, <2>1 DEF RecOK, N
<1>8. NeverUncounted' BY <1>0 DEF IInv, NeverUncounted
<1>9. \A q \in Plans : MoneyOK(q)' BY <1>0, <1>1 DEF IInv, MoneyOK
<1>10. \A q \in Plans : PlanOK(q)'
  <2>1. PlanOK(p)'
    <3>1. RecOK(p, new) BY <1>1, <1>2 DEF RecOK, Settled
    <3>2. RecOK(p, plan[p])' BY <1>0, <1>1, <1>3, <3>1 DEF RecOK
    <3>3. \A i \in 1..N(p) : ~(i <= Len(handed[p])) BY <1>1
    <3> QED BY <1>0, <1>1, <3>2, <3>3 DEF PlanOK
  <2>2. ASSUME NEW q \in Plans, q # p PROVE PlanOK(q)'
    BY <1>0, <1>1, <1>3, <2>2 DEF IInv, PlanOK, RecOK
  <2> QED BY <2>1, <2>2
<1>11. \A q \in Plans : IdleOK(q)'
  <2> SUFFICES ASSUME NEW q \in Plans PROVE IdleOK(q)' OBVIOUS
  <2>1. IdleOK(q) /\ q \in Threads BY ThreadFacts DEF IInv
  <2> QED BY <1>0, <1>3, <2>1 DEF IdleOK
<1>12. \A u \in Threads : ThreadOK(u)'
  <2>1. ThreadOK(p)'
    <3>1. pc'[p] = "claim" /\ job'[p] = p /\ at'[p] = 1 BY <1>0, <1>1
    <3>2. at'[p] \in 1..N(job[p])' BY <1>1, <3>1 DEF N
    <3>3. Delivered(job[p], at[p])' BY <3>1 DEF Delivered
    <3> QED BY <3>1, <3>2, <3>3 DEF ThreadOK, Owner
  <2>2. ASSUME NEW u \in Threads, u # p, pc'[u] \in Driving PROVE ThreadOK(u)'
    <3>1. pc[u] \in Driving /\ pc'[u] = pc[u] BY <1>0, <2>2
    <3>2. ThreadOK(u) /\ job[u] # p /\ job[u] \in Plans /\ job[u] \in Threads
      BY <1>0, <3>1, NobodyBefore, ThreadFacts DEF IInv, ThreadOK
    <3>3. plan'[job[u]] = plan[job[u]] /\ pc'[job[u]] = pc[job[u]] BY <1>0, <1>3, <3>2
    <3> QED BY <1>0, <3>1, <3>2, <3>3 DEF ThreadOK, Owner, Delivered, N
  <2> QED BY <2>1, <2>2 DEF ThreadOK
<1> QED BY <1>4, <1>6, <1>7, <1>8, <1>9, <1>10, <1>11, <1>12 DEF IInv

LEMMA ProviderKeeps == ASSUME IInv, NEW p \in Plans, ProviderEnds(p) PROVE IInv'
<1>0. UNCHANGED <<route, plan, handed, counted, pc, job, at, todo>> BY DEF ProviderEnds, given
<1>1. PICK i \in 1..N(p), end \in {"settled", "over"} :
        outcome[p][i] = "open" /\ outcome' = [outcome EXCEPT ![p] = [outcome[p] EXCEPT ![i] = end]]
  BY RouteFacts DEF ProviderEnds, IInv, Types
<1>2. outcome \in [Plans -> UNION {[1..n -> Ends] : n \in Nat}] /\ outcome[p] \in [1..N(p) -> Ends]
      /\ N(p) \in Nat
  BY RouteFacts DEF IInv, Types
<1>3. /\ \A q \in Plans : q # p => outcome'[q] = outcome[q]
      /\ outcome'[p] = [outcome[p] EXCEPT ![i] = end]
  BY <1>1, <1>2
<1>4. /\ outcome'[p] \in [1..N(p) -> Ends]
      /\ \A j \in 1..N(p) : outcome'[p][j] = IF j = i THEN end ELSE outcome[p][j]
  BY <1>2, <1>3 DEF Ends
<1>5. Types' 
  <2>1. outcome'[p] \in UNION {[1..n -> Ends] : n \in Nat} BY <1>2, <1>4
  <2>2. outcome' \in [Plans -> UNION {[1..n -> Ends] : n \in Nat}]
    <3>1. PICK new : new = [outcome[p] EXCEPT ![i] = end] OBVIOUS
    <3> QED BY <1>1, <1>2, <1>3, <2>1, <3>1
  <2>3. \A q \in Plans : outcome'[q] \in [1..N(q) -> Ends] BY <1>3, <1>4 DEF IInv, Types
  <2> QED BY <1>0, <2>2, <2>3 DEF IInv, Types, N
<1>6. Onward
  <2>1. \A q \in Plans : Len(handed[q]) \in Nat BY DEF IInv, Types
  <2>2. ASSUME NEW q \in Plans, NEW j \in 1..N(q), outcome[q][j] = "settled" PROVE outcome'[q][j] = "settled"
    BY <1>1, <1>3, <1>4, <2>2
  <2> QED BY <1>0, <2>1, <2>2 DEF Onward
<1>7. Types /\ \A q \in Plans : N(q)' = N(q) BY <1>0 DEF IInv, N
<1>8. \A q \in Plans : MoneyOK(q)'
  <2>1. MoneyOK(p)'
    <3>1. MoneyOK(p) BY DEF IInv
    <3>2. \A j \in 1..N(p) : outcome'[p][j] = "none" <=> outcome[p][j] = "none" BY <1>1, <1>4
    <3>3. \A j \in 1..N(p) : j < Len(handed[p]) => outcome'[p][j] = "settled"
      BY <1>1, <1>4, <3>1 DEF MoneyOK
    <3> QED BY <1>0, <1>7, <3>1, <3>2, <3>3 DEF MoneyOK
  <2>2. ASSUME NEW q \in Plans, q # p PROVE MoneyOK(q)'
    BY <1>0, <1>3, <1>7, <2>2 DEF IInv, MoneyOK
  <2> QED BY <2>1, <2>2
<1>9. \A q \in Plans : PlanOK(q)'
  <2> SUFFICES ASSUME NEW q \in Plans, plan[q].made PROVE PlanOK(q)' BY <1>0 DEF PlanOK
  <2>1. PICK rec : rec = plan[q] OBVIOUS
  <2>2. RecOK(q, rec) BY <2>1 DEF IInv, PlanOK
  <2>3. RecOK(q, rec)' BY <1>0, <1>5, <1>6, <1>7, <2>2, RecStays
  <2>4. RecOK(q, plan[q])' BY <1>0, <2>1, <2>3 DEF RecOK
  <2> QED BY <1>0, <1>7, <2>4 DEF IInv, PlanOK
<1>10. Items'
  <2> SUFFICES ASSUME NEW r \in Recoveries, NEW item \in todo[r]
               PROVE  RecOK(item[1], item[2])' /\ pc[item[1]] # "idle"
    BY <1>0 DEF Items
  <2>1. item[1] \in Plans /\ RecOK(item[1], item[2]) /\ pc[item[1]] # "idle" BY DEF IInv, Items, Types
  <2>2. RecOK(item[1], item[2])' BY <1>0, <1>5, <1>6, <1>7, <2>1, RecStays
  <2> QED BY <2>1, <2>2
<1>11. Apart' /\ NeverUncounted' /\ \A q \in Plans : IdleOK(q)'
  BY <1>0 DEF IInv, Apart, Owner, NeverUncounted, IdleOK
<1>12. \A u \in Threads : ThreadOK(u)'
  <2> SUFFICES ASSUME NEW u \in Threads, pc[u] \in Driving PROVE ThreadOK(u)' BY <1>0 DEF ThreadOK
  <2>1. PICK q, k : q = job[u] /\ k = at[u] OBVIOUS
  <2>2. q \in Plans /\ k \in 1..N(q) /\ ThreadOK(u) /\ job'[u] = q /\ at'[u] = k
    BY <1>0, <2>1, AtWork
  <2>3. Delivered(q, k) => Delivered(q, k)' BY <1>0, <1>6, <1>7, <2>2, DeliveredStays
  <2>4. Delivered(job[u], at[u]) => Delivered(job[u], at[u])' BY <2>1, <2>2, <2>3 DEF Delivered
  <2>5. outcome[q][k] = "settled" => outcome'[q][k] = "settled" BY <1>6, <2>2 DEF Onward
  <2>6. at'[u] \in 1..N(job[u])' BY <1>0, <2>1, <2>2 DEF N
  <2> QED BY <1>0, <2>1, <2>2, <2>4, <2>5, <2>6 DEF ThreadOK, Owner
<1> QED BY <1>5, <1>8, <1>9, <1>10, <1>11, <1>12 DEF IInv

LEMMA CrashKeeps == ASSUME IInv, Crash PROVE IInv'
<1>0. UNCHANGED <<route, plan, handed, outcome, counted, job, at>> BY DEF Crash, given, money
<1>1. /\ pc' \in [Threads -> {"idle", "done"}]
      /\ \A p \in Plans : pc'[p] = "idle" <=> pc[p] = "idle"
  BY ThreadFacts DEF Crash
<1>2. \A r \in Recoveries : todo'[r] = {} BY DEF Crash
<1>3. \A u \in Threads : pc'[u] \notin Driving /\ ~Owner(u)' BY <1>1 DEF Driving, Owner
<1>4. Types'
  <2>1. pc' \in [Threads -> Places] BY <1>1 DEF Places
  <2>2. todo' \in [Recoveries -> SUBSET (Plans \X PlanSet)] BY DEF Crash
  <2> QED BY <1>0, <2>1, <2>2 DEF IInv, Types, N
<1>5. Items' /\ Apart' BY <1>2, <1>3 DEF Items, Apart
<1>6. \A p \in Plans : MoneyOK(p)' /\ PlanOK(p)' /\ IdleOK(p)'
  BY <1>0, <1>1 DEF IInv, MoneyOK, PlanOK, RecOK, IdleOK, N
<1>7. NeverUncounted' /\ \A u \in Threads : ThreadOK(u)'
  BY <1>0, <1>3 DEF IInv, NeverUncounted, ThreadOK
<1> QED BY <1>4, <1>5, <1>6, <1>7 DEF IInv

----------------------------------------------------------------------------
LEMMA Started == Init => IInv
<1> SUFFICES ASSUME Init PROVE IInv OBVIOUS
<1>1. NoPlan \in PlanSet /\ ~NoPlan.made
  <2>1. <<>> \in [1..0 -> LegStates] OBVIOUS
  <2> QED BY <2>1 DEF NoPlan, PlanSet, Legs
<1>2. \A p \in Plans : N(p) \in Nat /\ N(p) > 0 /\ DOMAIN route[p] = 1..N(p) BY RouteFacts DEF Init
<1>3. \A p \in Plans : outcome[p] = [i \in 1..N(p) |-> "none"] BY <1>2 DEF Init
<1>4. Types
  <2>1. \A p \in Plans : outcome[p] \in [1..N(p) -> Ends] BY <1>3 DEF Ends
  <2>2. outcome \in [Plans -> UNION {[1..n -> Ends] : n \in Nat}]
    <3>1. \A p \in Plans : outcome[p] \in UNION {[1..n -> Ends] : n \in Nat} BY <1>2, <2>1
    <3> QED BY <3>1 DEF Init
  <2>3. plan \in [Plans -> PlanSet] BY <1>1 DEF Init
  <2>4. handed \in [Plans -> Seq(Nat)] /\ counted \in [Plans -> Nat] BY DEF Init
  <2>5. pc \in [Threads -> Places] /\ at \in [Threads -> Nat] BY DEF Init, Places
  <2>6. job \in [Threads -> Plans \union {"none"}] BY DEF Init, Threads
  <2>7. todo \in [Recoveries -> SUBSET (Plans \X PlanSet)] BY DEF Init
  <2> QED BY <2>1, <2>2, <2>3, <2>4, <2>5, <2>6, <2>7 DEF Init, Types
<1>5. \A p \in Plans : handed[p] = <<>> /\ Len(handed[p]) = 0 BY DEF Init
<1>6. ASSUME NEW p \in Plans PROVE MoneyOK(p)
  <2>1. N(p) \in Nat /\ Len(handed[p]) = 0 BY <1>2, <1>5
  <2>2. \A i \in 1..N(p) : outcome[p][i] = "none" /\ i > 0
    <3>1. \A i \in 1..N(p) : outcome[p][i] = "none" BY <1>3
    <3> QED BY <2>1, <3>1
  <2>3. 1..Len(handed[p]) = {} BY <2>1
  <2>4. \A i \in 1..N(p) : ~(i < Len(handed[p])) BY <2>1
  <2> QED BY <2>1, <2>2, <2>3, <2>4 DEF MoneyOK
<1>7. \A p \in Plans : PlanOK(p) /\ IdleOK(p)
  BY <1>1, <1>5, ThreadFacts DEF Init, PlanOK, IdleOK
<1>8. Items /\ Apart /\ NeverUncounted BY <1>5 DEF Init, Items, Apart, Owner, NeverUncounted
<1>9. \A t \in Threads : ThreadOK(t) BY DEF Init, ThreadOK, Driving
<1> QED BY <1>4, <1>6, <1>7, <1>8, <1>9 DEF IInv

LEMMA Steps == IInv /\ [Next]_vars => IInv'
<1> SUFFICES ASSUME IInv, [Next]_vars PROVE IInv' OBVIOUS
<1>1. CASE UNCHANGED vars
  <2>1. Types' /\ Apart' /\ Items' /\ NeverUncounted'
    BY <1>1 DEF vars, IInv, Types, Apart, Items, NeverUncounted, RecOK, Owner, N
  <2>2. ASSUME NEW p \in Plans PROVE MoneyOK(p)' /\ PlanOK(p)' /\ IdleOK(p)'
    BY <1>1 DEF vars, IInv, MoneyOK, PlanOK, RecOK, IdleOK, N
  <2>3. ASSUME NEW t \in Threads PROVE ThreadOK(t)'
    BY <1>1 DEF vars, IInv, ThreadOK, Owner, Delivered, N
  <2> QED BY <2>1, <2>2, <2>3 DEF IInv
<1>2. ASSUME NEW p \in Plans, Start(p) \/ ProviderEnds(p) PROVE IInv'
  BY <1>2, StartKeeps, ProviderKeeps
<1>3. ASSUME NEW t \in Threads, Drive(t) \/ Refuse(t) \/ WriteFails(t) PROVE IInv'
  BY <1>3, ClaimKeeps, GuardKeeps, RecordKeeps, HandKeeps, WaitKeeps, DriverEnds, ResetKeeps DEF Drive
<1>4. ASSUME NEW r \in Recoveries, Pass(r) \/ ProbeFails(r) PROVE IInv'
  BY <1>4, RecoverKeeps, TakeKeeps, ProbeKeeps DEF Pass
<1>5. CASE Crash BY <1>5, CrashKeeps
<1> QED BY <1>1, <1>2, <1>3, <1>4, <1>5 DEF Next

LEMMA Invariance == Spec => []IInv
BY Started, Steps, PTL DEF Spec

----------------------------------------------------------------------------
(* The value of a plan is counted once, and a note tells the truth.  Both   *)
(* need more than IInv: where the plan on disk stands (Near), what a thread *)
(* that owns, has lost or removes a leg may rely on (Rests), that nobody    *)
(* gets past the first leg while its convert() still runs it (FirstLegOf).  *)

\* A leg that came to nothing, or after which nothing remains to be run.
Over(p, i) ==
  \/ outcome[p][i] = "over"
  \/ outcome[p][i] = "settled" /\ (i = N(p) \/ route[p][i] = "lockup")

\* The record stands at the last leg handed to a provider, or at the next one.
Near ==
  /\ \A p \in Plans : plan[p].made => Len(handed[p]) <= plan[p].cur /\ plan[p].cur <= Len(handed[p]) + 1
  /\ \A r \in Recoveries : \A item \in todo[r] : item[2].cur <= Len(handed[item[1]]) + 1

Rests(t) ==
  LET p == job[t]
      i == at[t]
  IN
  /\ Owner(t) /\ plan[p].made => plan[p].cur = i
  /\ pc[t] = "threw" =>
       /\ i <= Len(handed[p]) + 1
       /\ plan[p].made => plan[p].leg[i] # "unset"
       /\ \A u \in Threads : Owner(u) /\ job[u] = p => at[u] # i
  /\ pc[t] = "remove" => Over(p, i)
  /\ pc[t] \in {"guard", "record"} => Kind(t) \notin Inflows

Drives(t, p) == pc[t] \in Driving /\ job[t] = p

\* While convert() runs its first leg, a recovery can only try to claim it or
\* write a note.
FirstLegOf(p) ==
  at[p] = 1 /\ pc[p] \in {"guard", "record", "hand", "wait", "reset", "threw"} =>
    /\ plan[p].made /\ plan[p].leg[1] = "in_flight" /\ plan[p].cur = 1
    /\ \A r \in Recoveries :
         /\ \A item \in todo[r] : item[1] = p => item[2].leg[1] \in {"unset", "in_flight"} /\ item[2].cur = 1
         /\ Drives(r, p) => (pc[r] = "claim" /\ at[r] = 1) \/ pc[r] = "park"

\* Once the value is counted its leg is not unset, nobody comes to count it again,
\* and the legs after it are driven with the plan on disk.
CountsOf(p) ==
  ~Has(p, "lockup") =>
    /\ counted[p] <= 1 /\ (pc[p] = "idle" => counted[p] = 0)
    /\ counted[p] > 0 => /\ FirstValueLeg(p) <= N(p)
                         /\ plan[p].made => plan[p].leg[FirstValueLeg(p)] # "unset"
    /\ \A t \in Threads : Owner(t) /\ job[t] = p =>
         /\ counted[p] > 0 /\ at[t] = FirstValueLeg(p) => pc[t] = "hand"
         /\ at[t] > 1 => plan[p].made

\* Without overlap a recovery works alone, and what it has read is what is stored.
Alone ==
  /\ overlapped \subseteq Plans
  /\ \A t \in Threads, r \in Recoveries : Working(t) /\ Working(r) /\ t \notin overlapped => t = r
  /\ \A r \in Recoveries : todo[r] # {} => Working(r)
  /\ \A r \in Recoveries : \A item \in todo[r] : item[1] \notin overlapped =>
       item[2] = plan[item[1]] /\ plan[item[1]].made /\ ~Drives(r, item[1])

NotesOf(p) ==
  p \notin overlapped =>
    /\ plan[p].review # 0 => Len(handed[p]) <= plan[p].review
    /\ \A t \in Threads : Drives(t, p) =>
         Len(handed[p]) <= at[t] /\ (Owner(t) => plan[p].review = 0)

Finer ==
  /\ Near /\ Alone
  /\ \A t \in Threads : Rests(t)
  /\ \A p \in Plans : FirstLegOf(p) /\ CountsOf(p) /\ NotesOf(p)

(* What a step of a thread does with the plan it drives.                    *)

Stops(t) == pc'[t] = (IF t \in Recoveries THEN "next" ELSE "done") /\ at'[t] = at[t]

\* The leg of the thread has another state, the plan is otherwise as it was.
Writes(t, cur, review, state) ==
  LET p == job[t] IN
  /\ plan[p].made /\ plan'[p].made /\ plan'[p].cur = cur /\ plan'[p].review = review
  /\ plan'[p].leg = [plan[p].leg EXCEPT ![at[t]] = state]

Quits(t) == Stops(t) /\ UNCHANGED <<plan, money>>

Notes(t) ==
  LET p == job[t] IN
  /\ Stops(t) /\ UNCHANGED money
  /\ pc[t] \in {"threw", "park"} /\ ~FirstLegFailed(t)
  /\ plan[p].made /\ plan'[p].made /\ plan'[p].cur = plan[p].cur /\ plan'[p].leg = plan[p].leg
  /\ plan'[p].review = at[t]

Discards(t) ==
  /\ Stops(t) /\ UNCHANGED money
  /\ pc[t] = "remove" \/ FirstLegFailed(t)
  /\ ~plan'[job[t]].made /\ plan'[job[t]].review = 0

GivesBack(t) ==
  /\ Stops(t) /\ UNCHANGED money
  /\ pc[t] = "reset" /\ ~FirstLegFailed(t)
  /\ Writes(t, plan[job[t]].cur, 0, "unset")

Takes(t) ==
  /\ at'[t] = at[t] /\ UNCHANGED money
  /\ pc[t] = "claim" /\ plan[job[t]].leg[at[t]] = "unset"
  /\ Writes(t, at[t], 0, "in_flight")
  /\ pc'[t] = IF Kind(t) \in Inflows THEN "hand" ELSE "guard"

Walks(t) ==
  /\ at'[t] = at[t] /\ UNCHANGED plan
  /\ \/ pc[t] = "guard" /\ pc'[t] = "record" /\ UNCHANGED money
     \/ /\ pc[t] = "record" /\ pc'[t] = "hand" /\ UNCHANGED <<handed, outcome>>
        /\ counted' = IF Exempt(t) THEN counted ELSE [counted EXCEPT ![job[t]] = @ + 1]
     \/ /\ Owner(t) /\ pc'[t] = "reset" /\ UNCHANGED money
        /\ pc[t] = "record" => ~Exempt(t)
        /\ pc[t] = "hand" => Kind(t) = "lockup"
     \/ /\ pc[t] \in {"guard", "record", "hand", "wait"} /\ pc'[t] = "threw" /\ UNCHANGED money
     \/ /\ pc[t] = "hand" /\ pc'[t] \in {"wait", "threw"} /\ UNCHANGED counted
        /\ HandOver(job[t], at[t])

Judges(t) ==
  LET p == job[t]
      i == at[t]
  IN
  /\ pc[t] \in {"wait", "probe"} /\ UNCHANGED money
  /\ \/ plan'[p] = plan[p]
     \/ \E state \in LegStates \ {"unset"} :
          Writes(t, plan[p].cur, 0, state) \/ Writes(t, plan[p].cur, plan[p].review, state)
  /\ \/ Stops(t)
     \/ at'[t] = i /\ pc'[t] = "remove" /\ Over(p, i)
     \/ at'[t] = i /\ pc'[t] = "park" /\ pc[t] = "probe"
     \/ at'[t] = i + 1 /\ pc'[t] = "claim" /\ i + 1 \in 1..N(p) /\ outcome[p][i] = "settled"

Works(t) ==
  /\ pc[t] \in Driving
  /\ UNCHANGED <<route, overlapped, job, todo>>
  /\ \A u \in Threads : u # t => pc'[u] = pc[u] /\ at'[u] = at[u]
  /\ \A q \in Plans : q # job[t] => plan'[q] = plan[q]
  /\ Quits(t) \/ Notes(t) \/ Discards(t) \/ GivesBack(t) \/ Takes(t) \/ Walks(t) \/ Judges(t)

\* A record that is patched differs in one leg, and perhaps in what the write adds.
LEMMA Patched ==
  ASSUME IInv, NEW t \in Threads, pc[t] \in Driving, plan[job[t]].made,
         NEW state \in LegStates, NEW rec \in Written(job[t], at[t], state), Patch(job[t], rec)
  PROVE  /\ \A q \in Plans : q # job[t] => plan'[q] = plan[q]
         /\ rec = WithLeg(job[t], at[t], state) => Writes(t, plan[job[t]].cur, plan[job[t]].review, state)
         /\ rec = Result(job[t], at[t], state) => Writes(t, plan[job[t]].cur, 0, state)
         /\ rec = [Result(job[t], at[t], state) EXCEPT !.cur = at[t]] => Writes(t, at[t], 0, state)
<1> DEFINE p == job[t]
           i == at[t]
           leg == [plan[p].leg EXCEPT ![i] = state]
<1>1. p \in Plans /\ plan[p] \in PlanSet /\ i \in Nat
  <2>1. p \in Plans /\ i \in 1..N(p) /\ N(p) \in Nat BY AtWork
  <2> QED BY <2>1 DEF IInv, Types
<1>2. plan' = [plan EXCEPT ![p] = rec] /\ plan \in [Plans -> PlanSet] BY DEF Patch, IInv, Types
<1>3. plan'[p] = rec /\ \A q \in Plans : q # p => plan'[q] = plan[q] BY <1>1, <1>2
<1>4. WithLeg(p, i, state) = [plan[p] EXCEPT !.leg = leg] BY DEF WithLeg
<1> HIDE DEF leg
<1>5. LET r == WithLeg(p, i, state)
      IN  /\ r.made = TRUE /\ r.cur = plan[p].cur /\ r.review = plan[p].review /\ r.leg = leg
          /\ r \in [made : BOOLEAN, cur : Nat, review : Nat, leg : {leg}]
  BY <1>1, <1>4 DEF PlanSet
<1>6. LET r == Result(p, i, state)
      IN  /\ r.made = TRUE /\ r.cur = plan[p].cur /\ r.review = 0 /\ r.leg = leg
          /\ r \in [made : BOOLEAN, cur : Nat, review : Nat, leg : {leg}]
  BY <1>5 DEF Result
<1>7. LET r == [Result(p, i, state) EXCEPT !.cur = i]
      IN  r.made = TRUE /\ r.cur = i /\ r.review = 0 /\ r.leg = leg
  BY <1>1, <1>6
<1> QED BY <1>3, <1>5, <1>6, <1>7 DEF Writes, leg

\* The thread alone moves, to one place.
LEMMA OneMoves ==
  ASSUME Types, NEW t \in Threads, NEW place, NEW i \in Nat
  PROVE  /\ Goto(t, place) => \A u \in Threads : pc'[u] = IF u = t THEN place ELSE pc[u]
         /\ GoOn(t, place, i) => \A u \in Threads : at'[u] = IF u = t THEN i ELSE at[u]
BY DEF Types, Goto, GoOn

LEMMA StopsBy ==
  ASSUME Types, NEW t \in Threads, Finish(t), UNCHANGED at
  PROVE  Stops(t) /\ \A u \in Threads : u # t => pc'[u] = pc[u] /\ at'[u] = at[u]
<1>1. \A place : Goto(t, place) => \A u \in Threads : pc'[u] = IF u = t THEN place ELSE pc[u]
  BY OneMoves
<1> QED BY <1>1 DEF Finish, Stops

LEMMA RunWorks ==
  ASSUME IInv, NEW t \in Threads,
         Claim(t) \/ Guard(t) \/ Refuse(t) \/ Record(t) \/ Hand(t) \/ Throw(t)
  PROVE  Works(t)
<1> DEFINE p == job[t]
           i == at[t]
<1>0. Types /\ UNCHANGED <<route, overlapped, job, at, todo>>
  BY DEF IInv, Claim, Guard, Refuse, Record, Hand, Throw, given
<1>1. \A place : Goto(t, place) => \A u \in Threads : pc'[u] = IF u = t THEN place ELSE pc[u]
  BY <1>0, OneMoves
<1>2. CASE Claim(t)
  <2>1. pc[t] = "claim" /\ pc[t] \in Driving /\ UNCHANGED money BY <1>2 DEF Claim, Driving
  <2>2. CASE UNCHANGED plan /\ Finish(t)
    <3>1. Stops(t) /\ \A u \in Threads : u # t => pc'[u] = pc[u] /\ at'[u] = at[u]
      BY <1>0, <2>2, StopsBy
    <3> QED BY <1>0, <2>1, <2>2, <3>1 DEF Works, Quits
  <2>3. CASE /\ plan[p].made /\ plan[p].leg[i] = "unset"
             /\ plan' = [plan EXCEPT ![p] = [Result(p, i, "in_flight") EXCEPT !.cur = i]]
             /\ Goto(t, IF Kind(t) \in Inflows THEN "hand" ELSE "guard")
    <3>1. PICK rec : rec = [Result(p, i, "in_flight") EXCEPT !.cur = i] OBVIOUS
    <3>2. rec \in Written(p, i, "in_flight") /\ Patch(p, rec) BY <2>3, <3>1 DEF Written, Patch
    <3>3. "in_flight" \in LegStates BY DEF LegStates
    <3>4. Writes(t, i, 0, "in_flight") /\ \A q \in Plans : q # p => plan'[q] = plan[q]
      BY <2>1, <2>3, <3>1, <3>2, <3>3, Patched
    <3>5. Takes(t) BY <1>0, <1>1, <2>1, <2>3, <3>4 DEF Takes
    <3> QED BY <1>0, <1>1, <2>1, <2>3, <3>4, <3>5 DEF Works
  <2> QED BY <1>2, <2>2, <2>3 DEF Claim
<1>3. CASE Guard(t) \/ Refuse(t) \/ Record(t) \/ Hand(t) \/ Throw(t)
  <2>1. pc[t] \in Driving /\ UNCHANGED plan
    BY <1>3 DEF Guard, Refuse, Record, Hand, Throw, Driving
  <2>2. Walks(t)
    <3>1. CASE Guard(t) BY <1>0, <1>1, <2>1, <3>1 DEF Guard, Walks
    <3>2. CASE Refuse(t) BY <1>0, <1>1, <2>1, <3>2 DEF Refuse, Walks, Owner
    <3>3. CASE Record(t) BY <1>0, <1>1, <2>1, <3>3 DEF Record, Walks
    <3>4. CASE Hand(t) BY <1>0, <1>1, <2>1, <3>4 DEF Hand, Walks
    <3>5. CASE Throw(t) BY <1>0, <1>1, <2>1, <3>5 DEF Throw, Walks, money
    <3> QED BY <1>3, <3>1, <3>2, <3>3, <3>4, <3>5
  <2>3. \A u \in Threads : u # t => pc'[u] = pc[u]
    BY <1>1, <1>3 DEF Guard, Refuse, Record, Hand, Throw
  <2> QED BY <1>0, <2>1, <2>2, <2>3 DEF Works
<1> QED BY <1>2, <1>3

LEMMA EndWorks ==
  ASSUME IInv, NEW t \in Threads, Drop(t) \/ Reset(t) \/ Park(t) \/ Remove(t) \/ WriteFails(t)
  PROVE  Works(t)
<1> DEFINE p == job[t]
           i == at[t]
<1>0. Types /\ UNCHANGED <<route, overlapped, job, at, todo>> /\ UNCHANGED money /\ pc[t] \in Driving
  BY DEF IInv, Drop, Reset, Park, Remove, WriteFails, given, FirstLegFailed, Driving
<1>1. p \in Plans /\ i \in Nat /\ plan \in [Plans -> PlanSet]
  <2>1. p \in Plans /\ i \in 1..N(p) /\ N(p) \in Nat BY <1>0, AtWork
  <2> QED BY <1>0, <2>1 DEF Types
<1>2. Finish(t)
  BY ThreadFacts DEF Drop, Reset, Park, Remove, WriteFails, FirstLegFailed, Finish
<1>3. Stops(t) /\ \A u \in Threads : u # t => pc'[u] = pc[u] /\ at'[u] = at[u]
  BY <1>0, <1>2, StopsBy
<1>4. ASSUME UNCHANGED plan PROVE Works(t) BY <1>0, <1>3, <1>4 DEF Works, Quits
<1>5. CASE Drop(t) \/ Remove(t)
  <2>1. plan' = [plan EXCEPT ![p] = NoPlan] /\ (pc[t] = "remove" \/ FirstLegFailed(t))
    BY <1>5 DEF Drop, Remove, RemovePlan
  <2>2. plan'[p] = NoPlan /\ \A q \in Plans : q # p => plan'[q] = plan[q]
    BY <1>1, <2>1
  <2>3. Discards(t) BY <1>0, <1>3, <2>1, <2>2 DEF Discards, NoPlan
  <2> QED BY <1>0, <1>3, <2>2, <2>3 DEF Works
<1>6. CASE Reset(t)
  <2>1. pc[t] = "reset" /\ ~FirstLegFailed(t) /\ Patch(p, Result(p, i, "unset")) BY <1>6 DEF Reset
  <2>2. CASE plan[p].made
    <3>1. PICK rec : rec = Result(p, i, "unset") OBVIOUS
    <3>2. "unset" \in LegStates /\ rec \in Written(p, i, "unset") /\ Patch(p, rec)
      BY <2>1, <3>1 DEF LegStates, Written
    <3>3. Writes(t, plan[p].cur, 0, "unset") /\ \A q \in Plans : q # p => plan'[q] = plan[q]
      BY <1>0, <2>2, <3>1, <3>2, Patched
    <3>4. GivesBack(t) BY <1>0, <1>3, <2>1, <3>3 DEF GivesBack
    <3> QED BY <1>0, <1>3, <3>3, <3>4 DEF Works
  <2>3. CASE ~plan[p].made BY <1>4, <2>1, <2>3 DEF Patch
  <2> QED BY <2>2, <2>3
<1>7. CASE Park(t)
  <2>1. /\ pc[t] \in {"threw", "park"} /\ ~FirstLegFailed(t)
        /\ Patch(p, [plan[p] EXCEPT !.review = i])
    BY <1>7 DEF Park
  <2>2. CASE plan[p].made
    <3>1. plan' = [plan EXCEPT ![p] = [plan[p] EXCEPT !.review = i]] BY <2>1, <2>2 DEF Patch
    <3>2. plan'[p] = [plan[p] EXCEPT !.review = i] /\ \A q \in Plans : q # p => plan'[q] = plan[q]
      BY <1>1, <3>1
    <3>3. plan[p] \in PlanSet BY <1>1
    <3>4. /\ plan'[p].made /\ plan'[p].cur = plan[p].cur /\ plan'[p].leg = plan[p].leg
          /\ plan'[p].review = i
      BY <2>2, <3>2, <3>3 DEF PlanSet
    <3>5. Notes(t) BY <1>0, <1>3, <2>1, <2>2, <3>4 DEF Notes
    <3> QED BY <1>0, <1>3, <3>2, <3>5 DEF Works
  <2>3. CASE ~plan[p].made BY <1>4, <2>1, <2>3 DEF Patch
  <2> QED BY <2>2, <2>3
<1>8. CASE WriteFails(t) BY <1>4, <1>8 DEF WriteFails
<1> QED BY <1>5, <1>6, <1>7, <1>8

LEMMA JudgeWorks ==
  ASSUME IInv, NEW t \in Threads,
         Wait(t) \/ WaitOver(t) \/ (t \in Recoveries /\ (Probe(t) \/ ProbeFails(t)))
  PROVE  Works(t)
<1> DEFINE p == job[t]
           i == at[t]
<1>0. /\ Types /\ UNCHANGED <<route, overlapped, job, todo>> /\ UNCHANGED money
      /\ pc[t] \in Driving /\ pc[t] \in {"wait", "probe"}
  BY DEF IInv, Wait, WaitOver, Probe, ProbeFails, given, Driving
<1>1. /\ p \in Plans /\ i \in 1..N(p) /\ N(p) \in Nat /\ i \in Nat /\ i + 1 \in Nat
      /\ pc[t] = "wait" /\ route[p][i] = "swap" => outcome[p][i] = "settled"
      /\ N(p) = Len(route[p])
  BY <1>0, AtWork DEF ThreadOK, N
<1>2. ASSUME NEW state \in LegStates \ {"unset"}, NEW rec \in {WithLeg(p, i, state), Result(p, i, state)},
             Patch(p, rec)
      PROVE  /\ \A q \in Plans : q # p => plan'[q] = plan[q]
             /\ \/ plan'[p] = plan[p]
                \/ \E s \in LegStates \ {"unset"} :
                     Writes(t, plan[p].cur, 0, s) \/ Writes(t, plan[p].cur, plan[p].review, s)
  <2>1. CASE ~plan[p].made BY <1>2, <2>1 DEF Patch
  <2>2. CASE plan[p].made
    <3>1. rec \in Written(p, i, state) BY <1>2 DEF Written
    <3> QED BY <1>0, <1>2, <2>2, <3>1, Patched
  <2> QED BY <2>1, <2>2
<1>3. ASSUME NEW place, NEW k \in Nat, GoOn(t, place, k)
      PROVE  \A u \in Threads : pc'[u] = (IF u = t THEN place ELSE pc[u]) /\ at'[u] = (IF u = t THEN k ELSE at[u])
  <2>1. Goto(t, place) BY <1>3 DEF GoOn
  <2>2. Types BY <1>0
  <2> QED BY <1>3, <2>1, <2>2, OneMoves
<1>4. \A place : Goto(t, place) /\ at' = at => GoOn(t, place, i) BY <1>0, AtWork
<1>5. Finish(t) /\ at' = at =>
        Stops(t) /\ \A u \in Threads : u # t => pc'[u] = pc[u] /\ at'[u] = at[u]
  BY <1>0, StopsBy
<1>6. CASE Wait(t)
  <2>1. PICK answer \in Answers(t) :
          /\ Patch(p, Result(p, i, answer))
          /\ IF answer \notin Settled THEN Finish(t) /\ UNCHANGED at
             ELSE IF IsLast(t) THEN GoOn(t, "remove", i)
             ELSE GoOn(t, "claim", i + 1)
    BY <1>6 DEF Wait
  <2>2. answer \in LegStates \ {"unset"} /\ (answer \in Settled => outcome[p][i] = "settled")
    <3>1. pc[t] = "wait" BY <1>6 DEF Wait
    <3> QED BY <1>1, <3>1 DEF Answers, Kind, LegStates, Settled
  <2>3. /\ \A q \in Plans : q # p => plan'[q] = plan[q]
        /\ \/ plan'[p] = plan[p]
           \/ \E s \in LegStates \ {"unset"} :
                Writes(t, plan[p].cur, 0, s) \/ Writes(t, plan[p].cur, plan[p].review, s)
    BY <1>2, <2>1, <2>2
  <2>4. CASE answer \notin Settled
    <3>1. Stops(t) /\ \A u \in Threads : u # t => pc'[u] = pc[u] /\ at'[u] = at[u] BY <1>5, <2>1, <2>4
    <3>2. Judges(t) BY <1>0, <2>3, <3>1 DEF Judges
    <3> QED BY <1>0, <2>3, <3>1, <3>2 DEF Works
  <2>5. CASE answer \in Settled /\ IsLast(t)
    <3>1. GoOn(t, "remove", i) /\ Over(p, i) BY <1>1, <2>1, <2>2, <2>5 DEF Over, IsLast
    <3>2. \A u \in Threads : pc'[u] = (IF u = t THEN "remove" ELSE pc[u]) /\ at'[u] = (IF u = t THEN i ELSE at[u])
      BY <1>1, <1>3, <3>1
    <3>3. Judges(t) BY <1>0, <2>3, <3>1, <3>2 DEF Judges
    <3> QED BY <1>0, <2>3, <3>2, <3>3 DEF Works
  <2>6. CASE answer \in Settled /\ ~IsLast(t)
    <3>1. GoOn(t, "claim", i + 1) /\ i + 1 \in 1..N(p) /\ outcome[p][i] = "settled"
      BY <1>1, <2>1, <2>2, <2>6 DEF IsLast
    <3>2. \A u \in Threads : pc'[u] = (IF u = t THEN "claim" ELSE pc[u]) /\ at'[u] = (IF u = t THEN i + 1 ELSE at[u])
      BY <1>1, <1>3, <3>1
    <3>3. Judges(t) BY <1>0, <2>3, <3>1, <3>2 DEF Judges
    <3> QED BY <1>0, <2>3, <3>2, <3>3 DEF Works
  <2> QED BY <2>4, <2>5, <2>6
<1>7. CASE WaitOver(t)
  <2>1. /\ Patch(p, Result(p, i, "pending")) /\ Goto(t, "remove") /\ at' = at /\ Over(p, i)
    BY <1>7 DEF WaitOver, Over
  <2>2. "pending" \in LegStates \ {"unset"} BY DEF LegStates
  <2>3. /\ \A q \in Plans : q # p => plan'[q] = plan[q]
        /\ \/ plan'[p] = plan[p]
           \/ \E s \in LegStates \ {"unset"} :
                Writes(t, plan[p].cur, 0, s) \/ Writes(t, plan[p].cur, plan[p].review, s)
    BY <1>2, <2>1, <2>2
  <2>4. \A u \in Threads : pc'[u] = (IF u = t THEN "remove" ELSE pc[u]) /\ at'[u] = (IF u = t THEN i ELSE at[u])
    BY <1>1, <1>3, <1>4, <2>1
  <2>5. Judges(t) BY <1>0, <2>1, <2>3, <2>4 DEF Judges
  <2> QED BY <1>0, <2>3, <2>4, <2>5 DEF Works
<1>8. CASE t \in Recoveries /\ ProbeFails(t)
  <2>1. Finish(t) /\ at' = at /\ plan' = plan BY <1>8 DEF ProbeFails, Finish
  <2>2. Quits(t) BY <1>0, <1>5, <2>1 DEF Quits
  <2> QED BY <1>0, <1>5, <2>1, <2>2 DEF Works
<1>9. CASE t \in Recoveries /\ Probe(t)
  <2>0. pc[t] = "probe" BY <1>9 DEF Probe
  <2>1. \/ Finish(t) /\ plan' = plan /\ at' = at
        \/ Goto(t, "park") /\ plan' = plan /\ at' = at
        \/ Goto(t, "remove") /\ Over(p, i) /\ plan' = plan /\ at' = at
        \/ \E state \in Settled :
             /\ Patch(p, WithLeg(p, i, state)) /\ outcome[p][i] = "settled"
             /\ \/ Goto(t, "remove") /\ i = N(p) /\ at' = at
                \/ Goto(t, "park") /\ at' = at
                \/ GoOn(t, "claim", i + 1) /\ i # N(p)
    BY <1>1, <1>9 DEF Probe, Over, Kind, IsLast, Settled
  <2>2. CASE Finish(t) /\ plan' = plan /\ at' = at
    <3>1. Quits(t) BY <1>0, <1>5, <2>2 DEF Quits
    <3> QED BY <1>0, <1>5, <2>2, <3>1 DEF Works
  <2>3. CASE (Goto(t, "park") \/ (Goto(t, "remove") /\ Over(p, i))) /\ plan' = plan /\ at' = at
    <3>1. PICK place \in {"park", "remove"} : GoOn(t, place, i) /\ (place = "remove" => Over(p, i))
      BY <1>4, <2>3
    <3>2. \A u \in Threads : pc'[u] = (IF u = t THEN place ELSE pc[u]) /\ at'[u] = (IF u = t THEN i ELSE at[u])
      BY <1>1, <1>3, <3>1
    <3>3. Judges(t) BY <1>0, <2>0, <2>3, <3>1, <3>2 DEF Judges
    <3> QED BY <1>0, <2>3, <3>2, <3>3 DEF Works
  <2>4. ASSUME NEW state \in Settled, Patch(p, WithLeg(p, i, state)), outcome[p][i] = "settled",
               \/ Goto(t, "remove") /\ i = N(p) /\ at' = at
               \/ Goto(t, "park") /\ at' = at
               \/ GoOn(t, "claim", i + 1) /\ i # N(p)
        PROVE  Works(t)
    <3>1. state \in LegStates \ {"unset"} BY DEF Settled, LegStates
    <3>2. /\ \A q \in Plans : q # p => plan'[q] = plan[q]
          /\ \/ plan'[p] = plan[p]
             \/ \E s \in LegStates \ {"unset"} :
                  Writes(t, plan[p].cur, 0, s) \/ Writes(t, plan[p].cur, plan[p].review, s)
      BY <1>2, <2>4, <3>1
    <3>3. PICK place \in {"park", "remove", "claim"}, k \in {i, i + 1} :
            /\ GoOn(t, place, k)
            /\ place = "remove" => k = i /\ Over(p, i)
            /\ place = "park" => k = i
            /\ place = "claim" => k = i + 1 /\ i + 1 \in 1..N(p)
      BY <1>1, <1>4, <2>4 DEF Over
    <3>4. \A u \in Threads : pc'[u] = (IF u = t THEN place ELSE pc[u]) /\ at'[u] = (IF u = t THEN k ELSE at[u])
      BY <1>1, <1>3, <3>3
    <3>5. Judges(t) BY <1>0, <2>0, <2>4, <3>2, <3>3, <3>4 DEF Judges
    <3> QED BY <1>0, <3>2, <3>4, <3>5 DEF Works
  <2>5. CASE \E state \in Settled :
               /\ Patch(p, WithLeg(p, i, state)) /\ outcome[p][i] = "settled"
               /\ \/ Goto(t, "remove") /\ i = N(p) /\ at' = at
                  \/ Goto(t, "park") /\ at' = at
                  \/ GoOn(t, "claim", i + 1) /\ i # N(p)
    <3>1. PICK state \in Settled :
             /\ Patch(p, WithLeg(p, i, state)) /\ outcome[p][i] = "settled"
             /\ \/ Goto(t, "remove") /\ i = N(p) /\ at' = at
                \/ Goto(t, "park") /\ at' = at
                \/ GoOn(t, "claim", i + 1) /\ i # N(p)
      BY <2>5
    <3> QED BY <2>4, <3>1
  <2> QED BY <2>1, <2>2, <2>3, <2>5
<1> QED BY <1>6, <1>7, <1>8, <1>9

----------------------------------------------------------------------------
\* An owner stands at the leg after those a provider has got.
LEMMA Owns ==
  ASSUME IInv, NEW t \in Threads, Owner(t)
  PROVE  /\ pc[t] \in Driving /\ job[t] \in Plans /\ at[t] \in 1..N(job[t])
         /\ Len(handed[job[t]]) = at[t] - 1 /\ Delivered(job[t], at[t])
         /\ plan[job[t]].made => plan[job[t]].leg[at[t]] # "unset"
BY AtWork DEF Owner, Driving, ThreadOK

\* Whoever takes a leg takes the next one, and takes it from nobody.
LEMMA TakesTheNext ==
  ASSUME IInv, NEW t \in Threads, Takes(t)
  PROVE  /\ job[t] \in Plans /\ at[t] \in 1..N(job[t]) /\ Len(handed[job[t]]) = at[t] - 1
         /\ plan[job[t]].made
         /\ \A u \in Threads : Owner(u) => job[u] # job[t]
<1>1. PICK p, i : p = job[t] /\ i = at[t] OBVIOUS
<1>2. pc[t] = "claim" /\ plan[p].made /\ plan[p].leg[i] = "unset" BY <1>1 DEF Takes, Writes
<1>3. p \in Plans /\ i \in 1..N(p) /\ Delivered(p, i) /\ N(p) \in Nat /\ Len(handed[p]) \in Nat
  BY <1>1, <1>2, AtWork DEF Driving, ThreadOK
<1>4. i > Len(handed[p]) BY <1>2, <1>3 DEF IInv, PlanOK
<1>5. i > 1 => i - 1 <= Len(handed[p])
  <2>1. MoneyOK(p) BY <1>3 DEF IInv
  <2>2. i > 1 => i - 1 \in 1..N(p) /\ outcome[p][i - 1] # "none" BY <1>3 DEF Delivered
  <2> QED BY <1>3, <2>1, <2>2 DEF MoneyOK
<1>6. Len(handed[p]) = i - 1 BY <1>3, <1>4, <1>5
<1>7. ASSUME NEW u \in Threads, Owner(u), job[u] = p PROVE FALSE
  <2>1. Len(handed[p]) = at[u] - 1 /\ plan[p].leg[at[u]] # "unset" /\ at[u] \in 1..N(p)
    BY <1>2, <1>7, Owns
  <2>2. at[u] = i BY <1>3, <1>6, <2>1
  <2> QED BY <1>2, <2>1, <2>2
<1> QED BY <1>1, <1>2, <1>3, <1>6, <1>7

\* What a provider gets, it gets from the owner, and in order.
LEMMA GetsIt ==
  ASSUME IInv, IInv', NEW t \in Threads, Works(t)
  PROVE  \/ UNCHANGED <<handed, outcome>>
         \/ /\ pc[t] = "hand" /\ pc'[t] \in {"wait", "threw"} /\ UNCHANGED <<plan, counted>> /\ at'[t] = at[t]
            /\ Len(handed'[job[t]]) = at[t]
            /\ \A q \in Plans : q # job[t] => handed'[q] = handed[q] /\ outcome'[q] = outcome[q]
            /\ \A j \in 1..N(job[t]) : j # at[t] => outcome'[job[t]][j] = outcome[job[t]][j]
<1>1. CASE UNCHANGED <<handed, outcome>> BY <1>1
<1>2. CASE /\ at'[t] = at[t] /\ UNCHANGED plan
           /\ pc[t] = "hand" /\ pc'[t] \in {"wait", "threw"} /\ UNCHANGED counted
           /\ HandOver(job[t], at[t])
  <2>1. PICK p, i : p = job[t] /\ i = at[t] OBVIOUS
  <2>2. p \in Plans /\ i \in 1..N(p) /\ Len(handed[p]) = i - 1 /\ N(p) \in Nat
    BY <1>2, <2>1, AtWork DEF Driving, ThreadOK, Owner
  <2>3. handed' = [handed EXCEPT ![p] = Append(@, i)] BY <1>2, <2>1 DEF HandOver
  <2>4. handed \in [Plans -> Seq(Nat)] /\ i \in Nat BY <2>2 DEF IInv, Types
  <2>5. handed'[p] = Append(handed[p], i) /\ \A q \in Plans : q # p => handed'[q] = handed[q]
    BY <2>2, <2>3, <2>4
  <2>6. Len(handed'[p]) = i BY <2>2, <2>4, <2>5
  <2>7. PICK end : outcome' = [outcome EXCEPT ![p] = [outcome[p] EXCEPT ![i] = end]]
    BY <1>2, <2>1 DEF HandOver
  <2>8. /\ \A q \in Plans : q # p => outcome'[q] = outcome[q]
        /\ outcome'[p] = [outcome[p] EXCEPT ![i] = end]
        /\ outcome[p] \in [1..N(p) -> Ends]
    BY <2>2, <2>7 DEF IInv, Types
  <2>9. \A j \in 1..N(p) : j # i => outcome'[p][j] = outcome[p][j] BY <2>8
  <2> QED BY <1>2, <2>1, <2>5, <2>6, <2>8, <2>9
<1> QED BY <1>1, <1>2 DEF Works, Quits, Notes, Discards, GivesBack, Takes, Walks, Judges, money

\* What a provider has said last is last.
LEMMA OverStays ==
  ASSUME IInv, IInv', NEW t \in Threads, Works(t), NEW q \in Plans, NEW k \in 1..N(q), Over(q, k)
  PROVE  Over(q, k)'
<1>0. route' = route BY DEF Works
<1>1. CASE UNCHANGED <<handed, outcome>> BY <1>0, <1>1 DEF Over, N
<1>2. CASE ~UNCHANGED <<handed, outcome>>
  <2>1. /\ pc[t] = "hand"
        /\ \A p \in Plans : p # job[t] => outcome'[p] = outcome[p]
        /\ \A j \in 1..N(job[t]) : j # at[t] => outcome'[job[t]][j] = outcome[job[t]][j]
    BY <1>2, GetsIt
  <2>2. job[t] \in Plans /\ at[t] \in 1..N(job[t]) /\ Len(handed[job[t]]) = at[t] - 1
    BY <2>1, Owns DEF Owner
  <2>3. outcome[job[t]][at[t]] = "none" BY <2>2 DEF IInv, MoneyOK
  <2>4. outcome'[q][k] = outcome[q][k] BY <2>1, <2>3 DEF Over
  <2> QED BY <1>0, <2>4 DEF Over, N
<1> QED BY <1>1, <1>2

\* Every way of working but taking and handing leaves the record where it stands.
LEMMA CurStays ==
  ASSUME IInv, NEW t \in Threads, Works(t), NEW q \in Plans, plan'[q].made
  PROVE  /\ plan[q].made
         /\ plan'[q].cur = plan[q].cur \/ (q = job[t] /\ Takes(t) /\ plan'[q].cur = at[t])
<1>1. CASE q # job[t] BY <1>1 DEF Works
<1>2. CASE q = job[t] BY <1>2 DEF Works, Quits, Notes, Discards, GivesBack, Takes, Walks, Judges, Writes
<1> QED BY <1>1, <1>2

LEMMA NearWorks ==
  ASSUME IInv, IInv', Near, NEW t \in Threads, Works(t), Rests(t) PROVE Near'
<1>0. UNCHANGED <<route, job, todo>> BY DEF Works
<1>1. \A q \in Plans : Len(handed[q]) \in Nat /\ Len(handed'[q]) \in Nat BY DEF IInv, Types
<1>2. \A q \in Plans : Len(handed[q]) <= Len(handed'[q])
  <2>1. CASE UNCHANGED <<handed, outcome>> BY <1>1, <2>1
  <2>2. CASE ~UNCHANGED <<handed, outcome>>
    <3>1. /\ pc[t] = "hand" /\ Len(handed'[job[t]]) = at[t]
          /\ \A q \in Plans : q # job[t] => handed'[q] = handed[q]
      BY <2>2, GetsIt
    <3>2. Len(handed[job[t]]) = at[t] - 1 /\ job[t] \in Plans /\ at[t] \in Nat
      BY <3>1, Owns DEF Owner, IInv, Types
    <3> QED BY <1>1, <3>1, <3>2
  <2> QED BY <2>1, <2>2
<1>3. ASSUME NEW q \in Plans, plan'[q].made
      PROVE  Len(handed'[q]) <= plan'[q].cur /\ plan'[q].cur <= Len(handed'[q]) + 1
  <2>1. plan[q].made /\ Len(handed[q]) <= plan[q].cur /\ plan[q].cur <= Len(handed[q]) + 1
    BY <1>3, CurStays DEF Near
  <2>2. plan[q].cur \in Nat BY DEF IInv, Types, PlanSet
  <2>3. CASE UNCHANGED <<handed, outcome>>
    <3>1. CASE plan'[q].cur = plan[q].cur BY <2>1, <2>3, <3>1
    <3>2. CASE q = job[t] /\ Takes(t) /\ plan'[q].cur = at[t]
      <4>1. Len(handed[q]) = at[t] - 1 /\ at[t] \in 1..N(q) BY <3>2, TakesTheNext
      <4> QED BY <1>1, <2>3, <3>2, <4>1
    <3> QED BY <1>3, <3>1, <3>2, CurStays
  <2>4. CASE ~UNCHANGED <<handed, outcome>>
    <3>1. /\ pc[t] = "hand" /\ Len(handed'[job[t]]) = at[t] /\ plan' = plan
          /\ \A p \in Plans : p # job[t] => handed'[p] = handed[p]
      BY <2>4, GetsIt
    <3>2. CASE q # job[t] BY <2>1, <3>1, <3>2
    <3>3. CASE q = job[t]
      <4>1. plan[q].cur = at[t] BY <2>1, <3>1, <3>3 DEF Rests, Owner
      <4> QED BY <2>2, <3>1, <3>3, <4>1
    <3> QED BY <3>2, <3>3
  <2> QED BY <2>3, <2>4
<1>4. ASSUME NEW r \in Recoveries, NEW item \in todo'[r]
      PROVE  item[2].cur <= Len(handed'[item[1]]) + 1
  <2>1. item \in todo[r] BY <1>0, <1>4
  <2>2. item[1] \in Plans /\ item[2] \in PlanSet BY <2>1 DEF IInv, Types
  <2>3. item[2].cur <= Len(handed[item[1]]) + 1 /\ item[2].cur \in Nat BY <2>1, <2>2 DEF Near, PlanSet
  <2>4. PICK q, n : q = item[1] /\ n = item[2].cur OBVIOUS
  <2>5. q \in Plans /\ n \in Nat /\ n <= Len(handed[q]) + 1 BY <2>2, <2>3, <2>4
  <2>6. n <= Len(handed'[q]) + 1 BY <1>1, <1>2, <2>5
  <2> QED BY <2>4, <2>6
<1> QED BY <1>3, <1>4 DEF Near

\* Only an owner unsets a leg, its own.
LEMMA UnsetBy ==
  ASSUME IInv, NEW t \in Threads, Works(t), NEW q \in Plans, NEW k \in 1..N(q),
         plan'[q].made, plan[q].leg[k] # "unset", plan'[q].leg[k] = "unset"
  PROVE  q = job[t] /\ k = at[t] /\ pc[t] = "reset" /\ GivesBack(t)
<1>1. q = job[t] BY DEF Works
<1>2. plan[q].made BY CurStays
<1>3. plan[q].leg \in [1..N(q) -> LegStates] BY <1>2 DEF IInv, PlanOK, RecOK
<1>4. ASSUME NEW cur, NEW review, NEW state, Writes(t, cur, review, state)
      PROVE  k = at[t] /\ state = "unset"
  <2>1. plan'[q].leg = [plan[q].leg EXCEPT ![at[t]] = state] BY <1>1, <1>4 DEF Writes
  <2>2. plan'[q].leg[k] = IF k = at[t] THEN state ELSE plan[q].leg[k] BY <1>3, <2>1
  <2> QED BY <2>2
<1>5. CASE GivesBack(t) BY <1>1, <1>4, <1>5 DEF GivesBack
<1>6. ~Takes(t) BY <1>4 DEF Takes
<1>7. ~Judges(t)
  <2> SUFFICES ASSUME Judges(t) PROVE FALSE OBVIOUS
  <2>1. PICK state \in LegStates \ {"unset"} :
          Writes(t, plan[q].cur, 0, state) \/ Writes(t, plan[q].cur, plan[q].review, state)
    BY <1>1 DEF Judges
  <2> QED BY <1>4, <2>1
<1>8. ~Quits(t) /\ ~Notes(t) /\ ~Discards(t) /\ ~Walks(t)
  BY <1>1 DEF Quits, Notes, Discards, Walks
<1> QED BY <1>5, <1>6, <1>7, <1>8 DEF Works

\* How a thread comes to where it stands.
LEMMA Arrives ==
  ASSUME IInv, NEW t \in Threads, Works(t)
  PROVE  /\ Owner(t)' => at'[t] = at[t] /\ ((Owner(t) /\ Walks(t)) \/ Takes(t))
         /\ pc'[t] = "threw" => at'[t] = at[t] /\ Walks(t) /\ (Owner(t) \/ pc[t] = "wait")
         /\ pc'[t] = "remove" => at'[t] = at[t] /\ Over(job[t], at[t]) /\ Judges(t)
         /\ pc'[t] \in {"guard", "record"} => (Takes(t) /\ Kind(t) \notin Inflows) \/ pc[t] = "guard"
         /\ pc'[t] # "idle"
<1>1. CASE Stops(t) BY <1>1 DEF Stops, Owner
<1>2. CASE Takes(t) BY <1>2 DEF Takes, Owner
<1>3. CASE Walks(t) BY <1>3 DEF Walks, Owner
<1>4. CASE Judges(t) BY <1>1, <1>4 DEF Judges, Owner
<1> QED BY <1>1, <1>2, <1>3, <1>4 DEF Works, Quits, Notes, Discards, GivesBack

LEMMA OwnersAre ==
  ASSUME IInv, NEW t \in Threads, Works(t), NEW u \in Threads, Owner(u)'
  PROVE  job'[u] = job[u] /\ at'[u] = at[u] /\ (Owner(u) \/ (u = t /\ Takes(t)))
<1>1. CASE u = t BY <1>1, Arrives DEF Works
<1>2. CASE u # t BY <1>2 DEF Works, Owner
<1> QED BY <1>1, <1>2

LEMMA HandedGrows ==
  ASSUME IInv, IInv', NEW t \in Threads, Works(t), NEW q \in Plans
  PROVE  Len(handed[q]) \in Nat /\ Len(handed'[q]) \in Nat /\ Len(handed[q]) <= Len(handed'[q])
<1>1. Len(handed[q]) \in Nat /\ Len(handed'[q]) \in Nat BY DEF IInv, Types
<1>2. CASE UNCHANGED <<handed, outcome>> BY <1>1, <1>2
<1>3. CASE ~UNCHANGED <<handed, outcome>>
  <2>1. /\ pc[t] = "hand" /\ Len(handed'[job[t]]) = at[t]
        /\ \A p \in Plans : p # job[t] => handed'[p] = handed[p]
    BY <1>3, GetsIt
  <2>2. Len(handed[job[t]]) = at[t] - 1 /\ at[t] \in Nat BY <2>1, Owns DEF Owner, IInv, Types
  <2> QED BY <1>1, <2>1, <2>2
<1> QED BY <1>1, <1>2, <1>3

LEMMA RestsWorks ==
  ASSUME IInv, IInv', \A u \in Threads : Rests(u), NEW t \in Threads, Works(t), NEW u \in Threads
  PROVE  Rests(u)'
<1>0. UNCHANGED <<route, job, todo>> BY DEF Works
<1>1. PICK q, k : q = job[u] /\ k = at[u] OBVIOUS
<1>2. ASSUME Owner(u)', plan'[job'[u]].made PROVE plan'[job'[u]].cur = at'[u]
  <2>1. job'[u] = q /\ at'[u] = k /\ (Owner(u) \/ (u = t /\ Takes(t))) BY <1>1, <1>2, OwnersAre
  <2>2. CASE u = t /\ Takes(t) BY <1>1, <2>1, <2>2 DEF Takes, Writes
  <2>3. CASE Owner(u) /\ ~Takes(t)
    <3>1. q \in Plans BY <1>1, <2>3, Owns
    <3>2. plan[q].made /\ plan'[q].cur = plan[q].cur BY <1>2, <2>1, <2>3, <3>1, CurStays
    <3> QED BY <1>1, <2>1, <2>3, <3>2 DEF Rests
  <2>4. CASE Owner(u) /\ Takes(t)
    <3>1. q # job[t] /\ q \in Plans BY <1>1, <2>4, TakesTheNext, Owns
    <3>2. plan'[q] = plan[q] BY <3>1 DEF Works
    <3> QED BY <1>1, <1>2, <2>1, <2>4, <3>2 DEF Rests
  <2> QED BY <2>1, <2>2, <2>3, <2>4
<1>3. ASSUME pc'[u] = "threw"
      PROVE  /\ at'[u] <= Len(handed'[job'[u]]) + 1
             /\ plan'[job'[u]].made => plan'[job'[u]].leg[at'[u]] # "unset"
             /\ \A v \in Threads : Owner(v)' /\ job'[v] = job'[u] => at'[v] # at'[u]
  <2>1. /\ pc[u] \in Driving /\ at'[u] = k /\ job'[u] = q
        /\ pc[u] = "threw" \/ (u = t /\ Walks(t) /\ (Owner(t) \/ pc[t] = "wait"))
    BY <1>0, <1>1, <1>3, Arrives DEF Works, Driving
  <2>2. q \in Plans /\ k \in 1..N(q) /\ ThreadOK(u) BY <1>1, <2>1, AtWork
  <2>3. Len(handed[q]) \in Nat /\ Len(handed'[q]) \in Nat /\ Len(handed[q]) <= Len(handed'[q])
    BY <2>2, HandedGrows
  <2>4. N(q) \in Nat BY <2>2, RouteFacts DEF IInv, Types
  <2>5. CASE u = t /\ Walks(t) /\ Owner(t)
    <3>1. Len(handed[q]) = k - 1 /\ (plan[q].made => plan[q].leg[k] # "unset") BY <1>1, <2>5, Owns
    <3>2. plan' = plan BY <2>5 DEF Walks
    <3>3. ~Takes(t) BY <2>5 DEF Takes, Owner
    <3>4. ~Owner(u)' BY <1>3 DEF Owner
    <3>5. \A v \in Threads : Owner(v)' => v # u /\ Owner(v) /\ job'[v] = job[v] BY <3>3, <3>4, OwnersAre
    <3>6. \A v \in Threads : Owner(v)' => job'[v] # q BY <1>1, <2>5, <3>5 DEF IInv, Apart
    <3> QED BY <2>1, <2>2, <2>3, <2>4, <3>1, <3>2, <3>6
  <2>6. CASE u = t /\ Walks(t) /\ pc[t] = "wait"
    <3>1. k <= Len(handed[q]) BY <1>1, <2>2, <2>6 DEF ThreadOK, Driving
    <3>2. plan' = plan BY <2>6 DEF Walks
    <3>3. plan[q].made => plan[q].leg[k] # "unset" BY <2>2, <3>1 DEF IInv, PlanOK
    <3>4. ~Takes(t) BY <2>6 DEF Takes
    <3>5. ASSUME NEW v \in Threads, Owner(v)', job'[v] = q PROVE at'[v] # k
      <4>1. Owner(v) /\ job[v] = q /\ at'[v] = at[v] BY <3>4, <3>5, OwnersAre
      <4>2. Len(handed[q]) = at[v] - 1 /\ at[v] \in 1..N(q) BY <4>1, Owns
      <4> QED BY <2>2, <2>4, <3>1, <4>1, <4>2
    <3> QED BY <2>1, <2>2, <2>3, <2>4, <3>1, <3>2, <3>3, <3>5
  <2>7. CASE pc[u] = "threw"
    <3>1. /\ k <= Len(handed[q]) + 1 /\ (plan[q].made => plan[q].leg[k] # "unset")
          /\ \A v \in Threads : Owner(v) /\ job[v] = q => at[v] # k
      BY <1>1, <2>7 DEF Rests
    <3>2. ASSUME plan'[q].made PROVE plan'[q].leg[k] # "unset"
      <4>1. plan[q].made BY <2>2, <3>2, CurStays
      <4>2. plan'[q].leg[k] = "unset" => pc[t] = "reset" /\ job[t] = q /\ at[t] = k
        BY <2>2, <3>1, <3>2, <4>1, UnsetBy
      <4> QED BY <3>1, <4>2 DEF Owner
    <3>3. ASSUME NEW v \in Threads, Owner(v)', job'[v] = q PROVE at'[v] # k
      <4>1. job[v] = q /\ at'[v] = at[v] /\ (Owner(v) \/ (v = t /\ Takes(t))) BY <3>3, OwnersAre
      <4>2. CASE Owner(v) BY <3>1, <4>1, <4>2
      <4>3. CASE v = t /\ Takes(t)
        <5>1. plan[q].made /\ plan[q].leg[at[v]] = "unset" BY <4>1, <4>3 DEF Takes, Writes
        <5> QED BY <3>1, <4>1, <5>1
      <4> QED BY <4>1, <4>2, <4>3
    <3> QED BY <2>1, <2>2, <2>3, <2>4, <3>1, <3>2, <3>3
  <2> QED BY <2>1, <2>5, <2>6, <2>7
<1>4. ASSUME pc'[u] = "remove" PROVE Over(job[u], at[u])'
  <2>1. at'[u] = k /\ job'[u] = q /\ Over(q, k) /\ pc[u] \in Driving
    <3>1. CASE u = t BY <1>0, <1>1, <1>4, <3>1, Arrives DEF Works
    <3>2. CASE u # t
      <4>1. pc[u] = "remove" /\ at'[u] = at[u] BY <1>4, <3>2 DEF Works
      <4> QED BY <1>0, <1>1, <4>1 DEF Rests, Driving
    <3> QED BY <3>1, <3>2
  <2>2. q \in Plans /\ k \in 1..N(q) BY <1>1, <2>1, AtWork
  <2>3. Over(q, k)' BY <2>1, <2>2, OverStays
  <2> QED BY <2>1, <2>3 DEF Over, N
<1>5. ASSUME pc'[u] \in {"guard", "record"} PROVE Kind(u)' \notin Inflows
  <2>1. at'[u] = at[u] BY <1>5, OwnersAre DEF Owner
  <2>2. Kind(u)' = Kind(u) BY <1>0, <2>1 DEF Kind
  <2>3. CASE u # t
    <3>1. pc[u] \in {"guard", "record"} BY <1>5, <2>3 DEF Works
    <3> QED BY <2>2, <3>1 DEF Rests
  <2>4. CASE u = t BY <1>5, <2>2, <2>4, Arrives DEF Rests
  <2> QED BY <2>3, <2>4
<1> QED BY <1>2, <1>3, <1>4, <1>5 DEF Rests

\* When convert() takes its first leg, no recovery is past it.
LEMMA NobodyPast ==
  ASSUME IInv, Near, \A u \in Threads : Rests(u), NEW p \in Plans, plan[p].made, plan[p].leg[1] = "unset"
  PROVE  \A r \in Recoveries :
           /\ \A item \in todo[r] : item[1] = p => item[2].leg[1] \in {"unset", "in_flight"} /\ item[2].cur = 1
           /\ Drives(r, p) => (pc[r] = "claim" /\ at[r] = 1) \/ pc[r] = "park"
<1>1. N(p) \in Nat /\ 1 \in 1..N(p) /\ Len(handed[p]) \in Nat BY RouteFacts DEF IInv, Types
<1>2. Len(handed[p]) = 0 BY <1>1 DEF IInv, PlanOK
<1>3. \A i \in 1..N(p) : outcome[p][i] = "none" BY <1>1, <1>2 DEF IInv, MoneyOK
<1>4. ASSUME NEW r \in Recoveries, NEW item \in todo[r], item[1] = p
      PROVE  item[2].leg[1] \in {"unset", "in_flight"} /\ item[2].cur = 1
  <2>1. PICK rec : rec = item[2] OBVIOUS
  <2>2. RecOK(p, rec) BY <1>4, <2>1 DEF IInv, Items
  <2>3. rec.leg[1] \in LegStates /\ rec.cur \in 1..N(p) BY <1>1, <2>2 DEF RecOK
  <2>4. rec.leg[1] \notin Settled /\ rec.leg[1] \notin {"pending", "awaiting"}
    BY <1>1, <1>2, <1>3, <2>2 DEF RecOK
  <2>5. rec.cur <= 1 BY <1>2, <1>4, <2>1 DEF Near
  <2> QED BY <2>1, <2>3, <2>4, <2>5 DEF LegStates, Settled
<1>5. ASSUME NEW r \in Recoveries, Drives(r, p)
      PROVE  (pc[r] = "claim" /\ at[r] = 1) \/ pc[r] = "park"
  <2>1. r \in Threads /\ pc[r] \in Driving /\ job[r] = p BY <1>5, ThreadFacts DEF Drives
  <2>2. at[r] \in 1..N(p) /\ ThreadOK(r) BY <2>1, AtWork
  <2>3. ~Owner(r)
    <3> SUFFICES ASSUME Owner(r) PROVE FALSE OBVIOUS
    <3>1. Len(handed[p]) = at[r] - 1 /\ plan[p].leg[at[r]] # "unset" BY <2>1, Owns
    <3> QED BY <1>2, <2>2, <3>1
  <2>4. pc[r] \notin {"wait", "probe"} BY <1>2, <2>1, <2>2 DEF ThreadOK
  <2>5. pc[r] # "threw"
    <3> SUFFICES ASSUME pc[r] = "threw" PROVE FALSE OBVIOUS
    <3>1. at[r] <= 1 /\ plan[p].leg[at[r]] # "unset" BY <1>2, <2>1 DEF Rests
    <3> QED BY <2>2, <3>1
  <2>6. pc[r] # "remove"
    <3> SUFFICES ASSUME pc[r] = "remove" PROVE FALSE OBVIOUS
    <3>1. Over(p, at[r]) BY <2>1 DEF Rests
    <3> QED BY <1>3, <2>2, <3>1 DEF Over
  <2>7. pc[r] = "claim" => at[r] = 1
    <3> SUFFICES ASSUME pc[r] = "claim" PROVE at[r] = 1 OBVIOUS
    <3>1. Delivered(p, at[r]) BY <2>1, <2>2 DEF ThreadOK
    <3>2. at[r] > 1 => at[r] - 1 \in 1..N(p) BY <1>1, <2>2
    <3> QED BY <1>3, <2>2, <3>1, <3>2 DEF Delivered
  <2> QED BY <2>1, <2>3, <2>4, <2>5, <2>6, <2>7 DEF Driving, Owner
<1> QED BY <1>4, <1>5

LEMMA FirstLegWorks ==
  ASSUME IInv, IInv', Near, \A u \in Threads : Rests(u), NEW t \in Threads, Works(t),
         NEW q \in Plans, FirstLegOf(q)
  PROVE  FirstLegOf(q)'
<1> SUFFICES ASSUME at'[q] = 1, pc'[q] \in {"guard", "record", "hand", "wait", "reset", "threw"}
             PROVE  /\ plan'[q].made /\ plan'[q].leg[1] = "in_flight" /\ plan'[q].cur = 1
                    /\ \A r \in Recoveries :
                         /\ \A item \in todo[r] : item[1] = q =>
                              item[2].leg[1] \in {"unset", "in_flight"} /\ item[2].cur = 1
                         /\ Drives(r, q)' => (pc'[r] = "claim" /\ at'[r] = 1) \/ pc'[r] = "park"
  BY DEF FirstLegOf, Works
<1>0. q \in Threads /\ q \notin Recoveries /\ job[q] = q /\ job' = job BY ThreadFacts DEF IInv, IdleOK, Works
<1>1. CASE t = q
  <2>1. \A r \in Recoveries : r # t /\ (Drives(r, q)' => Drives(r, q)) /\ pc'[r] = pc[r] /\ at'[r] = at[r]
    BY <1>0, <1>1, ThreadFacts DEF Works, Drives
  <2>2. CASE Takes(t)
    <3>1. at[q] = 1 /\ plan[q].made /\ plan[q].leg[1] = "unset" BY <1>0, <1>1, <2>2 DEF Takes, Writes
    <3>2. plan'[q].made /\ plan'[q].cur = 1 /\ plan'[q].leg = [plan[q].leg EXCEPT ![1] = "in_flight"]
      BY <1>0, <1>1, <2>2, <3>1 DEF Takes, Writes
    <3>3. 1 \in 1..N(q) /\ plan[q].leg \in [1..N(q) -> LegStates]
      <4>1. N(q) \in Nat /\ N(q) > 0 BY RouteFacts DEF IInv, Types
      <4> QED BY <3>1, <4>1 DEF IInv, PlanOK, RecOK
    <3>4. plan'[q].leg[1] = "in_flight" BY <3>2, <3>3
    <3> QED BY <2>1, <3>1, <3>2, <3>4, NobodyPast
  <2>3. CASE Walks(t)
    <3>1. at[q] = 1 /\ plan' = plan /\ pc[q] \in {"guard", "record", "hand", "wait", "reset", "threw"}
      BY <1>1, <2>3 DEF Walks, Owner
    <3> QED BY <2>1, <3>1 DEF FirstLegOf
  <2>4. ~Stops(t) /\ ~Judges(t) BY <1>1 DEF Stops, Judges
  <2> QED BY <2>2, <2>3, <2>4 DEF Works, Quits, Notes, Discards, GivesBack
<1>2. CASE t # q
  <2>1. /\ plan[q].made /\ plan[q].leg[1] = "in_flight" /\ plan[q].cur = 1
        /\ \A r \in Recoveries :
             /\ \A item \in todo[r] : item[1] = q =>
                  item[2].leg[1] \in {"unset", "in_flight"} /\ item[2].cur = 1
             /\ Drives(r, q) => (pc[r] = "claim" /\ at[r] = 1) \/ pc[r] = "park"
    BY <1>0, <1>2 DEF Works, FirstLegOf
  <2>2. CASE job[t] # q
    <3>1. plan'[q] = plan[q] BY <2>2 DEF Works
    <3>2. \A r \in Recoveries : Drives(r, q)' => Drives(r, q) /\ pc'[r] = pc[r] /\ at'[r] = at[r]
      BY <1>0, <2>2, ThreadFacts DEF Works, Drives
    <3> QED BY <2>1, <3>1, <3>2
  <2>3. CASE job[t] = q
    <3>1. t \in Recoveries BY <1>2, <2>3 DEF IInv, IdleOK, Threads
    <3>2. (pc[t] = "claim" /\ at[t] = 1) \/ pc[t] = "park" BY <2>1, <2>3, <3>1 DEF Works, Drives
    <3>3. ~Takes(t) BY <2>1, <2>3, <3>2 DEF Takes
    <3>4. ~Discards(t) /\ ~GivesBack(t) /\ ~Walks(t) /\ ~Judges(t)
      BY <3>1, <3>2, ThreadFacts DEF Discards, GivesBack, Walks, Judges, Owner, FirstLegFailed
    <3>5. pc'[t] = "next" /\ (plan' = plan \/ (plan'[q].made /\ plan'[q].cur = plan[q].cur /\ plan'[q].leg = plan[q].leg))
      BY <2>3, <3>1, <3>3, <3>4 DEF Works, Quits, Notes, Stops
    <3>6. \A r \in Recoveries : Drives(r, q)' => Drives(r, q) /\ pc'[r] = pc[r] /\ at'[r] = at[r]
      BY <1>0, <3>5, ThreadFacts DEF Works, Drives, Driving
    <3> QED BY <2>1, <3>5, <3>6
  <2> QED BY <2>2, <2>3
<1> QED BY <1>1, <1>2

\* No plan is dropped or removed under a thread that owns a later leg.
LEMMA KeptUnder ==
  ASSUME IInv, \A u \in Threads : Rests(u), \A p \in Plans : FirstLegOf(p),
         NEW t \in Threads, Works(t), Discards(t), ~Has(job[t], "lockup"),
         NEW u \in Threads, Owner(u), job[u] = job[t], at[u] > 1, plan[job[t]].made
  PROVE  FALSE
<1>1. PICK p, i : p = job[t] /\ i = at[t] OBVIOUS
<1>2. p \in Plans /\ i \in 1..N(p) /\ N(p) \in Nat BY <1>1, AtWork DEF Works
<1>3. /\ Len(handed[p]) = at[u] - 1 /\ at[u] \in 1..N(p) /\ Delivered(p, at[u])
      /\ plan[p].cur = at[u]
  BY <1>1, Owns DEF Rests
<1>4. CASE pc[t] = "remove"
  <2>1. outcome[p][i] = "over" \/ (outcome[p][i] = "settled" /\ i = N(p))
    <3>1. Over(p, i) BY <1>1, <1>4 DEF Rests
    <3>2. route[p][i] # "lockup" BY <1>1, <1>2, RouteFacts DEF Has, IInv, Types
    <3> QED BY <3>1, <3>2 DEF Over
  <2>2. i <= Len(handed[p]) BY <1>2, <1>3, <2>1 DEF IInv, MoneyOK
  <2>3. i < at[u] /\ i # N(p) BY <1>2, <1>3, <2>2
  <2>4. i < Len(handed[p]) => outcome[p][i] = "settled" BY <1>2 DEF IInv, MoneyOK
  <2>5. i = Len(handed[p]) => outcome[p][i] = "settled" BY <1>3 DEF Delivered
  <2> QED BY <1>2, <1>3, <2>1, <2>2, <2>3, <2>4, <2>5
<1>5. CASE FirstLegFailed(t)
  <2>1. t \in Plans /\ p = t /\ at[p] = 1 /\ pc[p] \in {"reset", "threw"}
    BY <1>1, <1>5 DEF FirstLegFailed, IInv, IdleOK
  <2>2. plan[p].cur = 1 BY <2>1 DEF FirstLegOf
  <2> QED BY <1>3, <2>2
<1> QED BY <1>4, <1>5 DEF Discards

LEMMA FirstStays ==
  ASSUME UNCHANGED route, NEW p \in Plans PROVE FirstValueLeg(p)' = FirstValueLeg(p)
BY DEF FirstValueLeg

\* recordSpend counts a plan that has not been counted, at its first value leg.
LEMMA CountsFirst ==
  ASSUME IInv, NEW t \in Threads, Rests(t), CountsOf(job[t]), ~Has(job[t], "lockup"),
         pc[t] = "record", ~Exempt(t)
  PROVE  at[t] = FirstValueLeg(job[t]) /\ counted[job[t]] = 0
<1>1. PICK p, i, f : p = job[t] /\ i = at[t] /\ f = FirstValueLeg(p) OBVIOUS
<1>2. Owner(t) BY DEF Owner
<1>3. /\ p \in Plans /\ i \in 1..N(p) /\ N(p) \in Nat /\ route[p] \in Seq(Kinds)
      /\ plan[p].made => plan[p].cur = i
  BY <1>1, <1>2, Owns, RouteFacts DEF Rests, IInv, Types
<1>4. f \in 1..(N(p) + 1) /\ (\A j \in 1..(f - 1) : route[p][j] \in Inflows)
  BY <1>1, <1>3, FirstSpends DEF IInv, Types
<1>5. route[p][i] \notin Inflows /\ route[p][i] # "lockup"
  BY <1>1, <1>3, RouteFacts DEF Rests, Kind, Has, IInv, Types
<1>6. ~(i < f) BY <1>3, <1>4, <1>5
<1>7. i > 1 => plan[p].made BY <1>1, <1>2 DEF CountsOf
<1>8. ~(i > f)
  <2> SUFFICES ASSUME i > f PROVE FALSE OBVIOUS
  <2>1. plan[p].made /\ plan[p].cur = i BY <1>3, <1>4, <1>7
  <2> QED BY <1>1, <1>5, <2>1 DEF Exempt, Kind
<1>9. i = f BY <1>3, <1>4, <1>6, <1>8
<1>10. counted[p] = 0
  <2>1. counted[p] \in Nat BY <1>3 DEF IInv, Types
  <2>2. ~(counted[p] > 0) BY <1>1, <1>2, <1>9 DEF CountsOf
  <2> QED BY <2>1, <2>2
<1> QED BY <1>1, <1>9, <1>10

\* Nothing but recordSpend counts.
LEMMA CountedBy ==
  ASSUME IInv, NEW t \in Threads, Works(t), NEW q \in Plans
  PROVE  \/ counted'[q] = counted[q]
         \/ /\ q = job[t] /\ pc[t] = "record" /\ pc'[t] = "hand" /\ ~Exempt(t)
            /\ UNCHANGED plan /\ at'[t] = at[t] /\ counted'[q] = counted[q] + 1
<1>1. CASE UNCHANGED counted BY <1>1
<1>2. CASE /\ Walks(t) /\ pc[t] = "record" /\ pc'[t] = "hand"
           /\ counted' = IF Exempt(t) THEN counted ELSE [counted EXCEPT ![job[t]] = @ + 1]
  BY <1>2 DEF Walks, IInv, Types
<1> QED BY <1>1, <1>2 DEF Works, Quits, Notes, Discards, GivesBack, Takes, Walks, Judges, money

LEMMA CountsWorks ==
  ASSUME IInv, IInv', \A u \in Threads : Rests(u), \A p \in Plans : FirstLegOf(p) /\ CountsOf(p),
         NEW t \in Threads, Works(t), NEW q \in Plans
  PROVE  CountsOf(q)'
<1>0. UNCHANGED <<route, job>> BY DEF Works
<1>1. Has(q, "lockup")' <=> Has(q, "lockup") BY <1>0 DEF Has
<1> SUFFICES ASSUME ~Has(q, "lockup")
             PROVE  /\ counted'[q] <= 1 /\ (pc'[q] = "idle" => counted'[q] = 0)
                    /\ counted'[q] > 0 =>
                         /\ FirstValueLeg(q) <= N(q)
                         /\ plan'[q].made => plan'[q].leg[FirstValueLeg(q)] # "unset"
                    /\ \A u \in Threads : Owner(u)' /\ job'[u] = q =>
                         /\ counted'[q] > 0 /\ at'[u] = FirstValueLeg(q) => pc'[u] = "hand"
                         /\ at'[u] > 1 => plan'[q].made
  BY <1>0, <1>1, FirstStays DEF CountsOf, N
<1>2. PICK f : f = FirstValueLeg(q) OBVIOUS
<1>3. /\ counted[q] <= 1 /\ (pc[q] = "idle" => counted[q] = 0)
      /\ counted[q] > 0 => f <= N(q) /\ (plan[q].made => plan[q].leg[f] # "unset")
      /\ \A u \in Threads : Owner(u) /\ job[u] = q =>
           /\ counted[q] > 0 /\ at[u] = f => pc[u] = "hand"
           /\ at[u] > 1 => plan[q].made
      /\ f \in 1..(N(q) + 1) /\ N(q) \in Nat /\ counted[q] \in Nat
  BY <1>2, FirstSpends, RouteFacts DEF CountsOf, IInv, Types
<1>4. pc'[q] = "idle" => pc[q] = "idle" /\ q # t
  BY Arrives, ThreadFacts DEF Works
<1>5. ASSUME counted'[q] # counted[q]
      PROVE  /\ q = job[t] /\ Owner(t) /\ pc[t] = "record" /\ pc'[t] = "hand" /\ UNCHANGED plan
             /\ at'[t] = at[t] /\ at[t] = f /\ counted[q] = 0 /\ counted'[q] = 1
  <2>1. /\ q = job[t] /\ pc[t] = "record" /\ pc'[t] = "hand" /\ ~Exempt(t) /\ UNCHANGED plan
        /\ at'[t] = at[t] /\ counted'[q] = counted[q] + 1
    BY <1>5, CountedBy
  <2>2. at[t] = f /\ counted[q] = 0 BY <1>2, <2>1, CountsFirst
  <2> QED BY <2>1, <2>2 DEF Owner
<1>6. counted'[q] <= 1 /\ (pc'[q] = "idle" => counted'[q] = 0)
  <2>1. CASE counted'[q] = counted[q] BY <1>3, <1>4, <2>1
  <2>2. CASE counted'[q] # counted[q]
    <3>1. pc[q] # "idle" BY <1>5, <2>2 DEF Works, IInv, ThreadOK
    <3> QED BY <1>4, <1>5, <2>2, <3>1
  <2> QED BY <2>1, <2>2
<1>7. counted'[q] > 0 => f <= N(q) /\ (plan'[q].made => plan'[q].leg[f] # "unset")
  <2>1. CASE counted'[q] # counted[q]
    <3>1. f \in 1..N(q) /\ (plan[q].made => plan[q].leg[f] # "unset") BY <1>5, <2>1, Owns
    <3> QED BY <1>5, <2>1, <3>1
  <2>2. CASE counted'[q] = counted[q]
    <3> SUFFICES ASSUME counted[q] > 0
                 PROVE  f <= N(q) /\ (plan'[q].made => plan'[q].leg[f] # "unset")
      BY <2>2
    <3>1. f \in 1..N(q) BY <1>3
    <3>2. ASSUME plan'[q].made, plan'[q].leg[f] = "unset" PROVE FALSE
      <4>1. plan[q].leg[f] # "unset" BY <1>3, <3>2, CurStays
      <4>2. q = job[t] /\ f = at[t] /\ pc[t] = "reset" BY <3>1, <3>2, <4>1, UnsetBy
      <4> QED BY <1>3, <4>2 DEF Owner
    <3> QED BY <3>1, <3>2
  <2> QED BY <2>1, <2>2
<1>8. ASSUME NEW u \in Threads, Owner(u)', job'[u] = q
      PROVE  /\ counted'[q] > 0 /\ at'[u] = f => pc'[u] = "hand"
             /\ at'[u] > 1 => plan'[q].made
  <2>1. job[u] = q /\ at'[u] = at[u] /\ (Owner(u) \/ (u = t /\ Takes(t))) BY <1>8, OwnersAre
  <2>2. CASE u = t /\ Takes(t)
    <3>1. plan[q].made /\ plan[q].leg[at[u]] = "unset" /\ plan'[q].made /\ pc[t] = "claim"
      BY <2>1, <2>2 DEF Takes, Writes
    <3>2. counted'[q] > 0 => at[u] # f BY <1>3, <1>5, <3>1
    <3> QED BY <2>1, <3>1, <3>2
  <2>3. CASE Owner(u)
    <3>1. ASSUME at[u] > 1 PROVE plan'[q].made
      <4>1. plan[q].made BY <1>3, <2>1, <2>3, <3>1
      <4>2. CASE Discards(t) /\ job[t] = q BY <2>1, <2>3, <3>1, <4>1, <4>2, KeptUnder
      <4>3. CASE job[t] # q BY <4>1, <4>3 DEF Works
      <4>4. CASE job[t] = q /\ ~Discards(t)
        BY <4>1, <4>4 DEF Works, Quits, Notes, GivesBack, Takes, Walks, Judges, Writes
      <4> QED BY <4>2, <4>3, <4>4
    <3>2. ASSUME counted'[q] > 0, at[u] = f PROVE pc'[u] = "hand"
      <4>1. CASE counted'[q] # counted[q]
        <5>1. u = t BY <1>5, <2>1, <2>3, <4>1 DEF IInv, Apart
        <5> QED BY <1>5, <4>1, <5>1
      <4>2. CASE counted'[q] = counted[q]
        <5>1. pc[u] = "hand" BY <1>3, <2>1, <2>3, <3>2, <4>2
        <5>2. CASE u # t BY <5>1, <5>2 DEF Works
        <5>3. CASE u = t
          <6>1. Walks(t) BY <1>8, <5>1, <5>3, Arrives DEF Takes
          <6>2. Kind(t) # "lockup"
            <7>1. at[t] \in 1..N(q) /\ q = job[t] BY <2>1, <2>3, <5>3, Owns
            <7> QED BY <7>1, RouteFacts DEF Has, Kind, IInv, Types
          <6> QED BY <1>8, <5>1, <5>3, <6>1, <6>2 DEF Walks, Owner
        <5> QED BY <5>2, <5>3
      <4> QED BY <4>1, <4>2
    <3> QED BY <2>1, <3>1, <3>2
  <2> QED BY <2>1, <2>2, <2>3
<1> QED BY <1>2, <1>6, <1>7, <1>8

\* Who drives a plan that recovery respects is its convert(), or a recovery alone.
LEMMA DrivesAlone ==
  ASSUME IInv, Alone, NEW q \in Plans, q \notin overlapped,
         NEW t \in Threads, Drives(t, q), NEW u \in Threads, Drives(u, q)
  PROVE  t = u
<1>1. Working(t) /\ Working(u) BY DEF Working, Drives
<1>2. \A v \in Threads : Drives(v, q) => v \notin overlapped
  BY DEF Alone, Drives, IInv, IdleOK
<1>3. \A v \in Plans : Drives(v, q) => v = q BY DEF Drives, IInv, IdleOK
<1>4. CASE t \in Recoveries \/ u \in Recoveries BY <1>1, <1>2, <1>4 DEF Alone
<1>5. CASE t \in Plans /\ u \in Plans BY <1>3, <1>5
<1> QED BY <1>4, <1>5 DEF Threads

LEMMA AloneWorks ==
  ASSUME IInv, IInv', Alone, NEW t \in Threads, Works(t) PROVE Alone'
<1>0. UNCHANGED <<route, overlapped, job, todo>> /\ pc[t] \in Driving BY DEF Works
<1>1. pc'[t] \in Driving \union {"next", "done"} /\ (t \in Recoveries => pc'[t] # "done")
  BY DEF Works, Quits, Notes, Discards, GivesBack, Takes, Walks, Judges, Stops, Driving, Owner
<1>2. \A u \in Threads : Working(u)' => Working(u) BY <1>0 DEF Works, Working
<1>3. \A r \in Recoveries : Working(r) => Working(r)' BY <1>1, ThreadFacts DEF Works, Working, Driving
<1>4. \A u \in Threads, q \in Plans : Drives(u, q)' => Drives(u, q) BY <1>0 DEF Works, Drives
<1>5. ASSUME NEW r \in Recoveries, NEW item \in todo[r], item[1] \notin overlapped
      PROVE  item[2] = plan'[item[1]] /\ plan'[item[1]].made /\ ~Drives(r, item[1])'
  <2>1. PICK q : q = item[1] OBVIOUS
  <2>2. q \in Plans /\ r \in Threads BY <2>1, ThreadFacts DEF IInv, Types
  <2>3. item[2] = plan[q] /\ plan[q].made /\ ~Drives(r, q) /\ Working(r)
    BY <1>5, <2>1 DEF Alone
  <2>4. job[t] # q
    <3> SUFFICES ASSUME job[t] = q PROVE FALSE OBVIOUS
    <3>1. Drives(t, q) /\ Working(t) BY <1>0 DEF Drives, Working
    <3>2. t \notin overlapped BY <1>5, <2>1 DEF Alone, IInv, IdleOK
    <3>3. t = r BY <2>3, <3>1, <3>2 DEF Alone
    <3> QED BY <2>3, <3>1, <3>3
  <2>5. plan'[q] = plan[q] BY <2>2, <2>4 DEF Works
  <2>6. ~Drives(r, q)' BY <1>4, <2>2, <2>3
  <2> QED BY <2>1, <2>3, <2>5, <2>6 DEF Drives
<1>6. overlapped' \subseteq Plans BY <1>0 DEF Alone
<1>7. \A u \in Threads, r \in Recoveries : Working(u)' /\ Working(r)' /\ u \notin overlapped' => u = r
  BY <1>0, <1>2, ThreadFacts DEF Alone
<1>8. \A r \in Recoveries : todo'[r] # {} => Working(r)' BY <1>0, <1>3 DEF Alone
<1> QED BY <1>0, <1>5, <1>6, <1>7, <1>8 DEF Alone

LEMMA NotesWorks ==
  ASSUME IInv, IInv', Alone, NEW t \in Threads, Works(t), NEW q \in Plans, NotesOf(q)
  PROVE  NotesOf(q)'
<1>0. UNCHANGED <<route, overlapped, job, todo>> /\ pc[t] \in Driving BY DEF Works
<1> SUFFICES ASSUME q \notin overlapped
             PROVE  /\ plan'[q].review # 0 => Len(handed'[q]) <= plan'[q].review
                    /\ \A u \in Threads : Drives(u, q)' =>
                         Len(handed'[q]) <= at'[u] /\ (Owner(u)' => plan'[q].review = 0)
  BY <1>0 DEF NotesOf
<1>1. /\ plan[q].review # 0 => Len(handed[q]) <= plan[q].review
      /\ \A u \in Threads : Drives(u, q) =>
           Len(handed[q]) <= at[u] /\ (Owner(u) => plan[q].review = 0)
  BY DEF NotesOf
<1>2. \A u \in Threads : Drives(u, q)' => Drives(u, q) BY <1>0 DEF Works, Drives
<1>3. CASE job[t] # q
  <2>1. plan'[q] = plan[q] BY <1>3 DEF Works
  <2>2. handed'[q] = handed[q] BY <1>3, GetsIt
  <2>3. \A u \in Threads : Drives(u, q) => u # t BY <1>3 DEF Drives
  <2>4. \A u \in Threads : u # t => at'[u] = at[u] /\ (Owner(u)' <=> Owner(u)) BY DEF Works, Owner
  <2> QED BY <1>1, <1>2, <2>1, <2>2, <2>3, <2>4
<1>4. CASE job[t] = q
  <2>1. Drives(t, q) BY <1>0, <1>4 DEF Drives
  <2>2. \A u \in Threads : Drives(u, q)' => u = t BY <1>2, <2>1, DrivesAlone
  <2>3. Len(handed[q]) <= at[t] /\ (Owner(t) => plan[q].review = 0) BY <1>1, <2>1
  <2>4. Len(handed[q]) \in Nat /\ at[t] \in Nat BY DEF IInv, Types
  <2>5. CASE UNCHANGED <<handed, outcome>>
    <3>1. CASE Quits(t)
      <4>1. pc'[t] \notin Driving BY <3>1 DEF Quits, Stops, Driving
      <4> QED BY <1>1, <2>2, <2>5, <3>1, <4>1 DEF Quits, Drives
    <3>2. CASE Notes(t) \/ Discards(t) \/ GivesBack(t)
      <4>1. pc'[t] \notin Driving BY <3>2 DEF Notes, Discards, GivesBack, Stops, Driving
      <4>2. plan'[q].review \in {0, at[t]} BY <1>4, <3>2 DEF Notes, Discards, GivesBack, Writes
      <4> QED BY <2>2, <2>3, <2>5, <4>1, <4>2 DEF Drives
    <3>3. CASE Takes(t)
      <4>1. plan'[q].review = 0 /\ at'[t] = at[t] BY <1>4, <3>3 DEF Takes, Writes
      <4> QED BY <2>2, <2>3, <2>5, <4>1
    <3>4. CASE Walks(t)
      <4>1. plan' = plan /\ at'[t] = at[t] BY <3>4 DEF Walks
      <4>2. Owner(t)' => Owner(t) BY <3>4, Arrives DEF Walks, Takes, Owner
      <4> QED BY <1>1, <2>2, <2>3, <2>5, <4>1, <4>2
    <3>5. CASE Judges(t)
      <4>1. plan'[q].review \in {0, plan[q].review} BY <1>4, <3>5 DEF Judges, Writes
      <4>2. at'[t] \in {at[t], at[t] + 1} /\ ~Owner(t)' BY <3>5 DEF Judges, Stops, Owner
      <4> QED BY <1>1, <2>2, <2>3, <2>4, <2>5, <4>1, <4>2
    <3> QED BY <3>1, <3>2, <3>3, <3>4, <3>5 DEF Works
  <2>6. CASE ~UNCHANGED <<handed, outcome>>
    <3>1. /\ pc[t] = "hand" /\ pc'[t] \in {"wait", "threw"} /\ plan' = plan /\ at'[t] = at[t]
          /\ Len(handed'[q]) = at[t]
      BY <1>4, <2>6, GetsIt
    <3>2. plan[q].review = 0 BY <2>3, <3>1 DEF Owner
    <3> QED BY <2>2, <2>4, <3>1, <3>2
  <2> QED BY <2>5, <2>6
<1> QED BY <1>3, <1>4

LEMMA FinerWorks ==
  ASSUME IInv, IInv', Finer, NEW t \in Threads, Works(t) PROVE Finer'
<1>1. Near' /\ Alone' BY NearWorks, AloneWorks DEF Finer
<1>2. \A u \in Threads : Rests(u)' BY RestsWorks DEF Finer
<1>3. \A q \in Plans : FirstLegOf(q)' /\ CountsOf(q)' /\ NotesOf(q)'
  BY FirstLegWorks, CountsWorks, NotesWorks DEF Finer
<1> QED BY <1>1, <1>2, <1>3 DEF Finer

LEMMA FinerTake ==
  ASSUME IInv, Finer, NEW r \in Recoveries, Take(r) PROVE Finer'
<1>0. \E item \in todo[r] : TakesUp(r, item) BY TakingUp
<1>1. PICK item \in todo[r] : TakesUp(r, item) BY <1>0
<1>2. PICK p, rec : p = item[1] /\ rec = item[2] OBVIOUS
<1>3. /\ pc[r] = "next" /\ r \in Threads /\ r \notin Plans
      /\ UNCHANGED <<route, overlapped, plan, handed, outcome, counted>>
      /\ p \in Plans /\ RecOK(p, rec) /\ pc[p] # "idle"
      /\ todo'[r] = todo[r] \ {item} /\ (\A q \in Recoveries : q # r => todo'[q] = todo[q])
      /\ GoesUp(r, p, rec)
  BY <1>1, <1>2 DEF TakesUp
<1>4. Near /\ Alone /\ (\A u \in Threads : Rests(u))
      /\ \A q \in Plans : FirstLegOf(q) /\ CountsOf(q) /\ NotesOf(q)
  BY DEF Finer
<1>5. \A q \in Recoveries : todo'[q] \subseteq todo[q] BY <1>3
<1>6. Near' BY <1>3, <1>4, <1>5 DEF Near
<1>7. PICK place, k :
        /\ \A u \in Threads : /\ pc'[u] = (IF u = r THEN place ELSE pc[u])
                              /\ at'[u] = (IF u = r THEN k ELSE at[u])
                              /\ u # r => job'[u] = job[u]
        /\ \/ place = "next"
           \/ /\ job'[r] = p /\ place \in {"claim", "park", "remove", "probe"} /\ k \in 1..N(p)
              /\ k = rec.cur \/ k = rec.cur + 1
              /\ place = "remove" => Over(p, k)
              /\ rec.cur = 1 /\ rec.leg[1] \in {"unset", "in_flight"} => (place = "claim" /\ k = 1) \/ place = "park"
  <2>1. CASE UNCHANGED <<pc, job, at>>
    <3>1. \A u \in Threads : /\ pc'[u] = (IF u = r THEN "next" ELSE pc[u])
                             /\ at'[u] = (IF u = r THEN at[r] ELSE at[u])
                             /\ u # r => job'[u] = job[u]
      BY <1>3, <2>1
    <3> QED BY <3>1
  <2>2. ASSUME NEW place, NEW k, job' = [job EXCEPT ![r] = p], GoOn(r, place, k),
               <<place, k>> = ResumeAt(rec, rec.cur, route[p][rec.cur], rec.cur = Len(route[p]))
        PROVE  /\ \A u \in Threads : /\ pc'[u] = (IF u = r THEN place ELSE pc[u])
                                     /\ at'[u] = (IF u = r THEN k ELSE at[u])
                                     /\ u # r => job'[u] = job[u]
               /\ \/ place = "next"
                  \/ /\ job'[r] = p /\ place \in {"claim", "park", "remove", "probe"} /\ k \in 1..N(p)
                     /\ k = rec.cur \/ k = rec.cur + 1
                     /\ place = "remove" => Over(p, k)
                     /\ rec.cur = 1 /\ rec.leg[1] \in {"unset", "in_flight"} =>
                          (place = "claim" /\ k = 1) \/ place = "park"
    <3>1. \A u \in Threads : /\ pc'[u] = (IF u = r THEN place ELSE pc[u])
                             /\ at'[u] = (IF u = r THEN k ELSE at[u])
                             /\ job'[u] = (IF u = r THEN p ELSE job[u])
      BY <2>2 DEF GoOn, Goto, IInv, Types
    <3>2. /\ place \in {"claim", "park", "remove", "next", "probe"} /\ k \in 1..N(p)
          /\ k = rec.cur \/ k = rec.cur + 1
          /\ place = "remove" => outcome[p][k] = "settled" /\ k = N(p)
          /\ rec.cur = 1 /\ rec.leg[1] \in {"unset", "in_flight"} =>
               (place = "claim" /\ k = 1) \/ place \in {"park", "next"}
      BY <1>3, <2>2, Resumes
    <3>3. place = "remove" => Over(p, k) BY <3>2 DEF Over
    <3> QED BY <1>3, <3>1, <3>2, <3>3
  <2> QED BY <1>3, <2>1, <2>2 DEF GoesUp
<1>8. ~Owner(r)' /\ ~Owner(r) /\ \A u \in Threads : Owner(u)' => u # r /\ Owner(u)
  BY <1>3, <1>7 DEF Owner
<1>9. ASSUME NEW u \in Threads PROVE Rests(u)'
  <2>1. CASE u # r
    <3>1. pc'[u] = pc[u] /\ at'[u] = at[u] /\ job'[u] = job[u] BY <1>7, <2>1
    <3>2. Rests(u) BY <1>4
    <3>3. Kind(u)' = Kind(u) BY <1>3, <3>1 DEF Kind
    <3>4. Over(job[u], at[u]) => Over(job[u], at[u])' BY <1>3, <3>1 DEF Over, N
    <3>5. \A v \in Threads : Owner(v)' => Owner(v) /\ job'[v] = job[v] /\ at'[v] = at[v] BY <1>7, <1>8
    <3> QED BY <1>3, <3>1, <3>2, <3>3, <3>4, <3>5 DEF Rests
  <2>2. CASE u = r
    <3>1. pc'[u] \in {"next", "claim", "park", "remove", "probe"} BY <1>3, <1>7, <2>2
    <3>2. pc'[u] = "remove" => job'[u] = p /\ at'[u] = k /\ Over(p, k) BY <1>3, <1>7, <2>2
    <3>3. Over(p, k) => Over(p, k)' BY <1>3 DEF Over, N
    <3>4. pc'[u] = "remove" => Over(job[u], at[u])' BY <3>2, <3>3 DEF Over, N
    <3> QED BY <1>8, <2>2, <3>1, <3>4 DEF Rests
  <2> QED BY <2>1, <2>2
<1>10. ASSUME NEW q \in Plans PROVE FirstLegOf(q)'
  <2>1. q \in Threads /\ q # r /\ FirstLegOf(q) BY <1>3, <1>4, ThreadFacts
  <2> SUFFICES ASSUME at[q] = 1, pc[q] \in {"guard", "record", "hand", "wait", "reset", "threw"}
               PROVE  \A s \in Recoveries :
                        /\ \A it \in todo'[s] : it[1] = q => it[2].leg[1] \in {"unset", "in_flight"} /\ it[2].cur = 1
                        /\ Drives(s, q)' => (pc'[s] = "claim" /\ at'[s] = 1) \/ pc'[s] = "park"
    BY <1>3, <1>7, <2>1 DEF FirstLegOf
  <2>2. \A s \in Recoveries :
           /\ \A it \in todo[s] : it[1] = q => it[2].leg[1] \in {"unset", "in_flight"} /\ it[2].cur = 1
           /\ Drives(s, q) => (pc[s] = "claim" /\ at[s] = 1) \/ pc[s] = "park"
    BY <2>1 DEF FirstLegOf
  <2>3. ASSUME NEW s \in Recoveries, Drives(s, q)'
        PROVE  (pc'[s] = "claim" /\ at'[s] = 1) \/ pc'[s] = "park"
    <3>1. CASE s # r
      <4>1. Drives(s, q) /\ pc'[s] = pc[s] /\ at'[s] = at[s] BY <1>7, <2>3, <3>1, ThreadFacts DEF Drives
      <4> QED BY <2>2, <4>1
    <3>2. CASE s = r
      <4>1. pc'[s] = place /\ at'[s] = k /\ place # "next" BY <1>3, <1>7, <2>3, <3>2 DEF Drives, Driving
      <4>2. p = q BY <1>7, <2>3, <3>2, <4>1 DEF Drives
      <4>3. rec.leg[1] \in {"unset", "in_flight"} /\ rec.cur = 1 BY <1>2, <2>2, <4>2
      <4> QED BY <1>7, <4>1, <4>3
    <3> QED BY <3>1, <3>2
  <2> QED BY <1>5, <2>2, <2>3
<1>11. ASSUME NEW q \in Plans PROVE CountsOf(q)'
  <2>1. q \in Threads /\ q # r /\ CountsOf(q) BY <1>3, <1>4, ThreadFacts
  <2>2. FirstValueLeg(q)' = FirstValueLeg(q) /\ (Has(q, "lockup")' <=> Has(q, "lockup")) /\ N(q)' = N(q)
    BY <1>3, FirstStays DEF Has, N
  <2>3. \A u \in Threads : Owner(u)' => Owner(u) /\ pc'[u] = pc[u] /\ job'[u] = job[u] /\ at'[u] = at[u]
    BY <1>7, <1>8
  <2>4. pc'[q] = pc[q] BY <1>7, <2>1
  <2> QED BY <1>3, <2>1, <2>2, <2>3, <2>4 DEF CountsOf
<1>12. Alone'
  <2>1. Working(r) /\ Working(r)' BY <1>3, <1>7 DEF Working, Driving
  <2>2. \A u \in Threads : u # r => (Working(u)' <=> Working(u)) BY <1>7 DEF Working
  <2>3. ASSUME NEW s \in Recoveries, NEW it \in todo'[s], it[1] \notin overlapped
        PROVE  it[2] = plan[it[1]] /\ plan[it[1]].made /\ ~Drives(s, it[1])'
    <3>1. it \in todo[s] BY <1>5, <2>3
    <3>2. it[2] = plan[it[1]] /\ plan[it[1]].made /\ ~Drives(s, it[1]) BY <1>4, <2>3, <3>1 DEF Alone
    <3>3. CASE s # r
      <4>1. Drives(s, it[1])' => Drives(s, it[1]) BY <1>7, <3>3, ThreadFacts DEF Drives
      <4> QED BY <3>2, <4>1
    <3>4. CASE s = r
      <4>1. it # item BY <1>3, <2>3, <3>4
      <4>2. it \in Plans \X PlanSet /\ item \in Plans \X PlanSet BY <3>1 DEF IInv, Types
      <4>3. ASSUME it[1] = p PROVE FALSE
        <5>1. item[2] = plan[p] BY <1>2, <1>4, <2>3, <4>3 DEF Alone
        <5> QED BY <1>2, <3>2, <4>1, <4>2, <4>3, <5>1
      <4>4. Drives(r, it[1])' => job'[r] = p BY <1>3, <1>7 DEF Drives, Driving
      <4> QED BY <3>2, <3>4, <4>3, <4>4 DEF Drives
    <3> QED BY <3>3, <3>4
  <2>4. \A u \in Threads, s \in Recoveries : Working(u)' /\ Working(s)' /\ u \notin overlapped => u = s
    BY <1>4, <2>1, <2>2, ThreadFacts DEF Alone
  <2>5. \A s \in Recoveries : todo'[s] # {} => Working(s)'
    BY <1>3, <1>4, <2>1, <2>2, ThreadFacts DEF Alone
  <2> QED BY <1>3, <1>4, <2>3, <2>4, <2>5 DEF Alone
<1>13. ASSUME NEW q \in Plans PROVE NotesOf(q)'
  <2> SUFFICES ASSUME q \notin overlapped
               PROVE  /\ plan[q].review # 0 => Len(handed[q]) <= plan[q].review
                      /\ \A u \in Threads : Drives(u, q)' =>
                           Len(handed[q]) <= at'[u] /\ (Owner(u)' => plan[q].review = 0)
    BY <1>3 DEF NotesOf
  <2>1. /\ plan[q].review # 0 => Len(handed[q]) <= plan[q].review
        /\ \A u \in Threads : Drives(u, q) =>
             Len(handed[q]) <= at[u] /\ (Owner(u) => plan[q].review = 0)
    BY <1>4 DEF NotesOf
  <2>2. ASSUME NEW u \in Threads, u # r, Drives(u, q)'
        PROVE  Len(handed[q]) <= at'[u] /\ (Owner(u)' => plan[q].review = 0)
    <3>1. Drives(u, q) /\ at'[u] = at[u] BY <1>7, <2>2 DEF Drives
    <3> QED BY <1>8, <2>1, <3>1
  <2>3. ASSUME Drives(r, q)' PROVE Len(handed[q]) <= at'[r]
    <3>1. job'[r] = p /\ at'[r] = k /\ (k = rec.cur \/ k = rec.cur + 1) /\ p = q
      BY <1>3, <1>7, <2>3 DEF Drives, Driving
    <3>2. rec = plan[q] /\ plan[q].made
      <4>1. p \notin overlapped BY <3>1
      <4> QED BY <1>2, <1>4, <3>1, <4>1 DEF Alone
    <3>3. Len(handed[q]) <= rec.cur BY <1>4, <3>2 DEF Near
    <3>4. rec.cur \in Nat /\ Len(handed[q]) \in Nat BY <3>2 DEF IInv, Types, PlanSet
    <3> QED BY <3>1, <3>3, <3>4
  <2> QED BY <1>8, <2>1, <2>2, <2>3
<1> QED BY <1>6, <1>9, <1>10, <1>11, <1>12, <1>13 DEF Finer

\* Only the list of one recovery and its place change.
LEMMA FinerRecover ==
  ASSUME IInv, Finer, NEW r \in Recoveries, Recover(r) \/ RecoverEnds(r) PROVE Finer'
<1>0. r \in Threads /\ r \notin Plans BY ThreadFacts
<1>1. /\ UNCHANGED <<route, overlapped, plan, handed, outcome, counted, job, at>>
      /\ \/ /\ pc[r] = "idle" /\ pc' = [pc EXCEPT ![r] = "next"]
            /\ \A t \in Threads \ overlapped : ~Working(t)
            /\ todo' = [todo EXCEPT ![r] = {<<p, plan[p]>> : p \in {q \in Plans : plan[q].made}}]
         \/ pc[r] = "next" /\ todo[r] = {} /\ pc' = [pc EXCEPT ![r] = "idle"] /\ todo' = todo
  BY DEF Recover, RecoverEnds, Goto, given, money
<1>2. PICK place \in {"idle", "next"} : \A u \in Threads : pc'[u] = IF u = r THEN place ELSE pc[u]
  BY <1>1 DEF IInv, Types
<1>3. pc[r] \in {"idle", "next"} /\ ~Owner(r) BY <1>1 DEF Owner
<1>4. \A s \in Recoveries : \A item \in todo'[s] :
         item \in todo[s] \/ (s = r /\ \E q \in Plans : plan[q].made /\ item = <<q, plan[q]>>)
  BY <1>1 DEF IInv, Types
<1>5. Near /\ Alone /\ (\A u \in Threads : Rests(u))
      /\ \A q \in Plans : FirstLegOf(q) /\ CountsOf(q) /\ NotesOf(q)
  BY DEF Finer
<1>6. \A u \in Threads : u # r => (Owner(u)' <=> Owner(u)) /\ (Working(u)' <=> Working(u))
  BY <1>2 DEF Owner, Working
<1>7. ~Owner(r)' BY <1>0, <1>2 DEF Owner
<1>8. \A q \in Plans, u \in Threads : Drives(u, q)' => Drives(u, q) /\ u # r /\ pc'[u] = pc[u]
  BY <1>1, <1>2 DEF Drives, Driving
<1>9. Near'
  <2>1. \A s \in Recoveries : \A item \in todo'[s] : item[2].cur <= Len(handed[item[1]]) + 1
    BY <1>4, <1>5 DEF Near
  <2> QED BY <1>1, <1>5, <2>1 DEF Near
<1>10. ASSUME NEW u \in Threads PROVE Rests(u)'
  <2>1. CASE u = r BY <1>0, <1>2, <1>7, <2>1 DEF Rests
  <2>2. CASE u # r
    <3>1. pc'[u] = pc[u] /\ Rests(u) BY <1>2, <1>5, <2>2
    <3>2. Kind(u)' = Kind(u) /\ (Over(job[u], at[u])' <=> Over(job[u], at[u])) BY <1>1 DEF Kind, Over, N
    <3>3. \A v \in Threads : Owner(v)' => Owner(v) BY <1>6, <1>7
    <3> QED BY <1>1, <3>1, <3>2, <3>3 DEF Rests
  <2> QED BY <2>1, <2>2
<1>11. ASSUME NEW q \in Plans PROVE FirstLegOf(q)'
  <2>1. q \in Threads /\ pc'[q] = pc[q] /\ FirstLegOf(q) BY <1>0, <1>2, <1>5, ThreadFacts
  <2>2. \A s \in Recoveries : Drives(s, q)' => Drives(s, q) /\ pc'[s] = pc[s] BY <1>8, ThreadFacts
  <2> SUFFICES ASSUME at[q] = 1, pc[q] \in {"guard", "record", "hand", "wait", "reset", "threw"}
               PROVE  FirstLegOf(q)'
    BY <1>1, <2>1 DEF FirstLegOf
  <2>3. \A s \in Recoveries : \A item \in todo'[s] : item[1] = q =>
           item[2].leg[1] \in {"unset", "in_flight"} /\ item[2].cur = 1
    BY <1>4, <2>1 DEF FirstLegOf
  <2> QED BY <1>1, <2>1, <2>2, <2>3 DEF FirstLegOf
<1>12. ASSUME NEW q \in Plans PROVE CountsOf(q)'
  <2>1. q \in Threads /\ pc'[q] = pc[q] /\ CountsOf(q) BY <1>0, <1>2, <1>5, ThreadFacts
  <2>2. FirstValueLeg(q)' = FirstValueLeg(q) /\ (Has(q, "lockup")' <=> Has(q, "lockup")) /\ N(q)' = N(q)
    BY <1>1, FirstStays DEF Has, N
  <2>3. \A u \in Threads : Owner(u)' => Owner(u) /\ pc'[u] = pc[u] BY <1>2, <1>6, <1>7
  <2> QED BY <1>1, <2>1, <2>2, <2>3 DEF CountsOf
<1>13. ASSUME NEW q \in Plans PROVE NotesOf(q)'
  <2>1. \A u \in Threads : Drives(u, q)' => Drives(u, q) /\ (Owner(u)' => Owner(u)) BY <1>6, <1>8
  <2> QED BY <1>1, <1>5, <2>1 DEF NotesOf
<1>14. Alone'
  <2>0. r \notin overlapped BY <1>0, <1>5 DEF Alone
  <2>1. CASE /\ pc[r] = "idle" /\ pc' = [pc EXCEPT ![r] = "next"]
             /\ \A t \in Threads \ overlapped : ~Working(t)
             /\ todo' = [todo EXCEPT ![r] = {<<p, plan[p]>> : p \in {q \in Plans : plan[q].made}}]
    <3>1. \A s \in Recoveries : ~Working(s) /\ todo[s] = {}
      BY <1>5, <2>1, ThreadFacts DEF Alone
    <3>2. Working(r)' /\ \A s \in Recoveries : s # r => ~Working(s)'
      BY <1>0, <1>6, <2>1, <3>1, ThreadFacts DEF IInv, Types, Working
    <3>3. \A s \in Recoveries : todo'[s] # {} => s = r BY <1>4, <3>1
    <3>4. \A u \in Threads : Working(u)' /\ u \notin overlapped => u = r BY <1>6, <2>1
    <3>5. ASSUME NEW s \in Recoveries, NEW item \in todo'[s]
          PROVE  item[2] = plan[item[1]] /\ plan[item[1]].made /\ ~Drives(s, item[1])'
      <4>1. PICK q \in Plans : s = r /\ plan[q].made /\ item = <<q, plan[q]>> BY <1>4, <3>1, <3>5
      <4>2. ~Drives(r, q)' BY <1>0, <1>8
      <4> QED BY <4>1, <4>2 DEF Drives
    <3> QED BY <1>1, <1>5, <3>2, <3>3, <3>4, <3>5 DEF Alone
  <2>2. CASE pc[r] = "next" /\ todo[r] = {} /\ pc' = [pc EXCEPT ![r] = "idle"] /\ todo' = todo
    <3>1. \A u \in Threads : Working(u)' => Working(u)
      <4>1. ~Working(r)' BY <1>0, <2>2 DEF IInv, Types, Working, Driving
      <4> QED BY <1>6, <4>1
    <3>2. \A s \in Recoveries : todo'[s] # {} => Working(s)'
      BY <1>5, <1>6, <2>2, ThreadFacts DEF Alone
    <3>3. \A s \in Recoveries : \A item \in todo[s] : Drives(s, item[1])' => Drives(s, item[1])
      BY <1>8, ThreadFacts DEF IInv, Types
    <3>4. \A u \in Threads, s \in Recoveries : Working(u)' /\ Working(s)' /\ u \notin overlapped => u = s
      BY <1>5, <3>1, ThreadFacts DEF Alone
    <3>5. \A s \in Recoveries : \A item \in todo'[s] : item[1] \notin overlapped =>
             item[2] = plan[item[1]] /\ plan[item[1]].made /\ ~Drives(s, item[1])'
      BY <1>5, <2>2, <3>3 DEF Alone
    <3> QED BY <1>1, <1>5, <3>2, <3>4, <3>5 DEF Alone
  <2> QED BY <1>1, <2>1, <2>2
<1> QED BY <1>5, <1>9, <1>10, <1>11, <1>12, <1>13, <1>14 DEF Finer

LEMMA FinerStart ==
  ASSUME IInv, IInv', Finer, NEW p \in Plans, Start(p) PROVE Finer'
<1>0. /\ pc[p] = "idle" /\ p \in Threads /\ p \notin Recoveries
      /\ UNCHANGED <<route, overlapped, handed, outcome, counted, job, at, todo>>
      /\ \A u \in Threads : pc'[u] = IF u = p THEN "claim" ELSE pc[u]
      /\ p \notin overlapped => \A r \in Recoveries : ~Working(r)
  BY ThreadFacts DEF Start, Goto, given, money, IInv, Types
<1>1. /\ plan'[p].made /\ plan'[p].cur = 1 /\ plan'[p].review = 0
      /\ \A q \in Plans : q # p => plan'[q] = plan[q]
  BY DEF Start, NewPlan, IInv, Types
<1>2. handed[p] = <<>> /\ at[p] = 1 /\ job[p] = p /\ ~plan[p].made BY <1>0 DEF IInv, IdleOK
<1>3. Near /\ Alone /\ (\A u \in Threads : Rests(u))
      /\ \A q \in Plans : FirstLegOf(q) /\ CountsOf(q) /\ NotesOf(q)
  BY DEF Finer
<1>4. \A u \in Threads : pc[u] \in Driving => job[u] # p BY <1>0, NobodyBefore
<1>5. \A u \in Threads : Owner(u)' => Owner(u) /\ u # p /\ job[u] # p /\ pc'[u] = pc[u]
  BY <1>0, <1>4 DEF Owner, Driving
<1>6. Near' BY <1>0, <1>1, <1>2, <1>3 DEF Near
<1>7. ASSUME NEW u \in Threads PROVE Rests(u)'
  <2>1. CASE u = p BY <1>0, <1>5, <2>1 DEF Rests
  <2>2. CASE u # p
    <3>1. pc'[u] = pc[u] /\ Rests(u) /\ (pc[u] \in Driving => plan'[job[u]] = plan[job[u]])
      BY <1>0, <1>1, <1>3, <1>4, <2>2 DEF IInv, ThreadOK
    <3>2. Kind(u)' = Kind(u) /\ (Over(job[u], at[u])' <=> Over(job[u], at[u])) BY <1>0 DEF Kind, Over, N
    <3>3. \A v \in Threads : Owner(v)' => Owner(v) BY <1>5
    <3>4. Owner(u) \/ pc[u] = "threw" => pc[u] \in Driving BY DEF Owner, Driving
    <3> QED BY <1>0, <1>5, <3>1, <3>2, <3>3, <3>4 DEF Rests
  <2> QED BY <2>1, <2>2
<1>8. ASSUME NEW q \in Plans PROVE FirstLegOf(q)'
  <2>1. CASE q = p BY <1>0, <2>1 DEF FirstLegOf
  <2>2. CASE q # p
    <3>1. q \in Threads /\ pc'[q] = pc[q] /\ plan'[q] = plan[q] /\ FirstLegOf(q)
      BY <1>0, <1>1, <1>3, <2>2, ThreadFacts
    <3>2. \A s \in Recoveries : pc'[s] = pc[s] BY <1>0, ThreadFacts
    <3>3. \A s \in Recoveries : Drives(s, q)' <=> Drives(s, q) BY <1>0, <3>2 DEF Drives
    <3> QED BY <1>0, <3>1, <3>2, <3>3 DEF FirstLegOf
  <2> QED BY <2>1, <2>2
<1>9. ASSUME NEW q \in Plans PROVE CountsOf(q)'
  <2>1. FirstValueLeg(q)' = FirstValueLeg(q) /\ (Has(q, "lockup")' <=> Has(q, "lockup")) /\ N(q)' = N(q)
    BY <1>0, FirstStays DEF Has, N
  <2>2. CountsOf(q) /\ q \in Threads BY <1>3, ThreadFacts
  <2>3. CASE q = p
    <3>1. ~Has(q, "lockup") => counted'[q] = 0 BY <1>0, <2>2, <2>3 DEF CountsOf
    <3>2. \A u \in Threads : Owner(u)' => job'[u] # q BY <1>0, <1>5, <2>3
    <3> QED BY <2>1, <3>1, <3>2 DEF CountsOf
  <2>4. CASE q # p
    <3>1. plan'[q] = plan[q] /\ pc'[q] = pc[q] BY <1>0, <1>1, <2>2, <2>4
    <3> QED BY <1>0, <1>5, <2>1, <2>2, <3>1 DEF CountsOf
  <2> QED BY <2>3, <2>4
<1>10. ASSUME NEW q \in Plans PROVE NotesOf(q)'
  <2>1. CASE q = p
    <3>1. \A u \in Threads : Drives(u, q)' => u = p BY <1>0, <1>4, <2>1 DEF Drives
    <3>2. Len(handed[p]) = 0 BY <1>2
    <3> QED BY <1>0, <1>1, <1>2, <1>5, <2>1, <3>1, <3>2 DEF NotesOf
  <2>2. CASE q # p
    <3>1. plan'[q] = plan[q] BY <1>1, <2>2
    <3>2. \A u \in Threads : Drives(u, q)' => Drives(u, q) BY <1>0, <1>2, <2>2 DEF Drives
    <3> QED BY <1>0, <1>3, <1>5, <3>1, <3>2 DEF NotesOf
  <2> QED BY <2>1, <2>2
<1>11. Alone'
  <2>1. \A u \in Threads : u # p => (Working(u)' <=> Working(u)) BY <1>0 DEF Working
  <2>2. \A s \in Recoveries : s \in Threads /\ (Working(s)' <=> Working(s)) BY <1>0, <2>1, ThreadFacts
  <2>3. \A u \in Threads, s \in Recoveries : Working(u)' /\ Working(s)' /\ u \notin overlapped => u = s
    BY <1>0, <1>3, <2>1, <2>2 DEF Alone
  <2>4. ASSUME NEW s \in Recoveries, NEW item \in todo[s], item[1] \notin overlapped
        PROVE  item[2] = plan'[item[1]] /\ plan'[item[1]].made /\ ~Drives(s, item[1])'
    <3>1. item[1] \in Plans /\ pc[item[1]] # "idle" BY DEF IInv, Types, Items
    <3>2. plan'[item[1]] = plan[item[1]] BY <1>0, <1>1, <3>1
    <3>3. item[2] = plan[item[1]] /\ plan[item[1]].made /\ ~Drives(s, item[1])
      BY <1>3, <2>4 DEF Alone
    <3>4. pc'[s] = pc[s] BY <1>0, <2>2
    <3>5. ~Drives(s, item[1])' BY <1>0, <3>3, <3>4 DEF Drives
    <3> QED BY <3>2, <3>3, <3>5
  <2> QED BY <1>0, <1>3, <2>2, <2>3, <2>4 DEF Alone
<1> QED BY <1>6, <1>7, <1>8, <1>9, <1>10, <1>11 DEF Finer

LEMMA FinerProvider ==
  ASSUME IInv, Finer, NEW p \in Plans, ProviderEnds(p) PROVE Finer'
<1>0. UNCHANGED <<route, overlapped, plan, handed, counted, pc, job, at, todo>> BY DEF ProviderEnds, given
<1>1. PICK i \in 1..N(p), end \in {"settled", "over"} :
        outcome[p][i] = "open" /\ outcome' = [outcome EXCEPT ![p] = [outcome[p] EXCEPT ![i] = end]]
  BY RouteFacts DEF ProviderEnds, IInv, Types
<1>2. /\ \A q \in Plans : q # p => outcome'[q] = outcome[q]
      /\ outcome'[p] = [outcome[p] EXCEPT ![i] = end]
      /\ outcome[p] \in [1..N(p) -> Ends]
  BY <1>1 DEF IInv, Types
<1>3. \A j \in 1..N(p) : j # i => outcome'[p][j] = outcome[p][j] BY <1>2
<1>4. ASSUME NEW q \in Plans, NEW j \in 1..N(q), Over(q, j) PROVE Over(q, j)'
  <2>1. outcome'[q][j] = outcome[q][j] BY <1>1, <1>2, <1>3, <1>4 DEF Over
  <2> QED BY <1>0, <1>4, <2>1 DEF Over, N
<1>5. ASSUME NEW u \in Threads PROVE Rests(u)'
  <2>1. Rests(u) /\ Kind(u)' = Kind(u) BY <1>0 DEF Finer, Kind
  <2>2. ASSUME pc[u] = "remove" PROVE Over(job[u], at[u])'
    <3>1. PICK q, j : q = job[u] /\ j = at[u] OBVIOUS
    <3>2. q \in Plans /\ j \in 1..N(q) /\ Over(q, j) BY <2>1, <2>2, <3>1, AtWork DEF Rests, Driving
    <3>3. Over(q, j)' BY <1>4, <3>2
    <3> QED BY <1>0, <3>1, <3>3 DEF Over, N
  <2> QED BY <1>0, <2>1, <2>2 DEF Rests, Owner
<1>6. Near' /\ Alone' BY <1>0 DEF Finer, Near, Alone, Working, Drives
<1>7. ASSUME NEW q \in Plans PROVE FirstLegOf(q)' /\ CountsOf(q)' /\ NotesOf(q)'
  <2>1. FirstLegOf(q) /\ CountsOf(q) /\ NotesOf(q) BY DEF Finer
  <2>2. FirstValueLeg(q)' = FirstValueLeg(q) /\ (Has(q, "lockup")' <=> Has(q, "lockup")) /\ N(q)' = N(q)
    BY <1>0, FirstStays DEF Has, N
  <2>3. \A u \in Threads : (Owner(u)' <=> Owner(u)) /\ (Drives(u, q)' <=> Drives(u, q)) BY <1>0 DEF Owner, Drives
  <2>4. CountsOf(q)' BY <1>0, <2>1, <2>2, <2>3 DEF CountsOf
  <2>5. FirstLegOf(q)' BY <1>0, <2>1 DEF FirstLegOf, Drives
  <2>6. NotesOf(q)' BY <1>0, <2>1, <2>3 DEF NotesOf
  <2> QED BY <2>4, <2>5, <2>6
<1> QED BY <1>5, <1>6, <1>7 DEF Finer

LEMMA FinerCrash == ASSUME IInv, Finer, Crash PROVE Finer'
<1>0. UNCHANGED <<route, overlapped, plan, handed, outcome, counted, job, at>>
  BY DEF Crash, given, money
<1>1. /\ \A u \in Threads : pc'[u] \in {"idle", "done"}
      /\ \A p \in Plans : pc'[p] = "idle" => pc[p] = "idle"
      /\ \A r \in Recoveries : todo'[r] = {}
  BY ThreadFacts DEF Crash
<1>2. \A u \in Threads : ~Owner(u)' /\ ~Working(u)' /\ \A p \in Plans : ~Drives(u, p)'
  BY <1>1 DEF Owner, Working, Drives, Driving
<1>3. Near' /\ Alone' BY <1>0, <1>1, <1>2 DEF Finer, Near, Alone
<1>4. \A u \in Threads : Rests(u)' BY <1>1, <1>2 DEF Rests
<1>5. ASSUME NEW q \in Plans PROVE FirstLegOf(q)' /\ CountsOf(q)' /\ NotesOf(q)'
  <2>1. FirstLegOf(q) /\ CountsOf(q) /\ NotesOf(q) /\ q \in Threads BY ThreadFacts DEF Finer
  <2>2. FirstValueLeg(q)' = FirstValueLeg(q) /\ (Has(q, "lockup")' <=> Has(q, "lockup")) /\ N(q)' = N(q)
    BY <1>0, FirstStays DEF Has, N
  <2>3. CountsOf(q)' BY <1>0, <1>1, <1>2, <2>1, <2>2 DEF CountsOf
  <2>4. FirstLegOf(q)' BY <1>1, <2>1 DEF FirstLegOf
  <2>5. NotesOf(q)' BY <1>0, <1>2, <2>1 DEF NotesOf
  <2> QED BY <2>3, <2>4, <2>5
<1> QED BY <1>3, <1>4, <1>5 DEF Finer

LEMMA FinerInit == Init => Finer
<1> SUFFICES ASSUME Init PROVE Finer OBVIOUS
<1>1. /\ \A p \in Plans : ~plan[p].made /\ plan[p].review = 0 /\ counted[p] = 0
      /\ \A r \in Recoveries : todo[r] = {}
      /\ \A u \in Threads : pc[u] = "idle"
      /\ overlapped \subseteq Plans
  BY DEF Init, NoPlan
<1>2. \A u \in Threads : ~Owner(u) /\ ~Working(u) /\ \A p \in Plans : ~Drives(u, p)
  BY <1>1 DEF Owner, Working, Drives, Driving
<1>3. Near /\ Alone BY <1>1, <1>2 DEF Near, Alone
<1>4. \A u \in Threads : Rests(u) BY <1>1, <1>2 DEF Rests
<1>5. \A p \in Plans : FirstLegOf(p) BY <1>1, ThreadFacts DEF FirstLegOf
<1>6. \A p \in Plans : CountsOf(p) BY <1>1, <1>2 DEF CountsOf
<1>7. \A p \in Plans : NotesOf(p) BY <1>1, <1>2 DEF NotesOf
<1> QED BY <1>3, <1>4, <1>5, <1>6, <1>7 DEF Finer

LEMMA FinerSteps == IInv /\ IInv' /\ Finer /\ [Next]_vars => Finer'
<1> SUFFICES ASSUME IInv, IInv', Finer, [Next]_vars PROVE Finer' OBVIOUS
<1>1. CASE UNCHANGED vars
  <2>1. UNCHANGED <<route, overlapped, plan, handed, outcome, counted, pc, job, at, todo>>
    BY <1>1 DEF vars
  <2>2. Near' /\ Alone' BY <2>1 DEF Finer, Near, Alone, Working, Drives
  <2>3. \A u \in Threads : Rests(u)' BY <2>1 DEF Finer, Rests, Owner, Over, Kind, N
  <2>4. \A q \in Plans : FirstValueLeg(q)' = FirstValueLeg(q) BY <2>1, FirstStays
  <2>5. \A q \in Plans : CountsOf(q)' BY <2>1, <2>4 DEF Finer, CountsOf, Owner, Has, N
  <2>6. \A q \in Plans : FirstLegOf(q)' /\ NotesOf(q)'
    BY <2>1 DEF Finer, FirstLegOf, NotesOf, Owner, Drives
  <2> QED BY <2>2, <2>3, <2>5, <2>6 DEF Finer
<1>2. ASSUME NEW p \in Plans, Start(p) \/ ProviderEnds(p) PROVE Finer'
  BY <1>2, FinerStart, FinerProvider
<1>3. ASSUME NEW t \in Threads, Drive(t) \/ Refuse(t) \/ WriteFails(t) PROVE Finer'
  <2>1. Works(t) BY <1>3, RunWorks, EndWorks, JudgeWorks DEF Drive
  <2> QED BY <2>1, FinerWorks
<1>4. ASSUME NEW r \in Recoveries, Pass(r) \/ ProbeFails(r) PROVE Finer'
  <2>1. CASE Probe(r) \/ ProbeFails(r)
    <3>1. r \in Threads /\ Works(r) BY <2>1, JudgeWorks, ThreadFacts
    <3> QED BY <3>1, FinerWorks
  <2>2. CASE Recover(r) \/ Take(r) \/ RecoverEnds(r) BY <2>2, FinerRecover, FinerTake
  <2> QED BY <1>4, <2>1, <2>2 DEF Pass
<1>5. CASE Crash BY <1>5, FinerCrash
<1> QED BY <1>1, <1>2, <1>3, <1>4, <1>5 DEF Next

LEMMA FinerInvariance == Spec => []Finer
<1>1. Spec => []IInv BY Invariance
<1>2. Init => Finer BY FinerInit
<1>3. IInv /\ IInv' /\ Finer /\ [Next]_vars => Finer' BY FinerSteps
<1> QED BY <1>1, <1>2, <1>3, PTL DEF Spec

\* "A started leg is NEVER re-executed": however many drivers and recoveries work on
\* a plan at once, crashes among them, each leg reaches its provider once, and after
\* the leg before it has delivered (drivePlan, claimLeg, resumeConversionPlans).
THEOREM LegsRunOnce == Spec => []LegsOnceInOrder
<1>1. IInv => LegsOnceInOrder
  <2> SUFFICES ASSUME IInv, NEW p \in Plans, NEW n \in 1..Len(handed[p])
               PROVE  handed[p][n] = n /\ (n > 1 => outcome[p][n - 1] = "settled")
    BY DEF LegsOnceInOrder
  <2>1. N(p) \in Nat /\ Len(handed[p]) \in Nat /\ MoneyOK(p) BY RouteFacts DEF IInv, Types
  <2>2. n > 1 => n - 1 \in 1..N(p) /\ n - 1 < Len(handed[p]) BY <2>1 DEF MoneyOK
  <2> QED BY <2>1, <2>2 DEF MoneyOK
<1> QED BY <1>1, Invariance, PTL

\* Before a provider gets a leg that spends, the value of the plan is in the spending
\* window, the exemption of continuations (isAuthorizedPlanContinuation) included.
THEOREM SpendingIsCounted == Spec => []NeverUncounted
<1>1. IInv => NeverUncounted BY DEF IInv
<1> QED BY <1>1, Invariance, PTL

\* The count-once carve-out: whatever a refused leg, a retry, a recovery beside the
\* running conversion or a crash adds, the value of a plan whose legs know of the
\* carve-out enters the spending window once (isAuthorizedPlanContinuation,
\* recordSpend; lockupLbtc, which never asks, is left out).
THEOREM ValueIsCountedOnce == Spec => []CountedOnce
<1>1. Finer => CountedOnce BY DEF Finer, CountsOf, CountedOnce
<1> QED BY <1>1, FinerInvariance, PTL

\* A plan parked while recovery ran apart from its convert() has had no leg handed to
\* a provider after the one its note names, so the remaining legs may be run by hand.
THEOREM NotesAreExact == Spec => []NoteIsExact
<1>1. Finer => NoteIsExact BY DEF Finer, NotesOf, NoteIsExact
<1> QED BY <1>1, FinerInvariance, PTL

----------------------------------------------------------------------------
(* The types                                                               *)

\* A record that is not made is none, a note is about a leg of its route.
Shaped(rec, n) == IF rec.made THEN rec.review \in 0..n ELSE rec = NoPlan
Bounded == /\ overlapped \subseteq Plans
           /\ faults \in 0..MaxFaults
           /\ \A p \in Plans : Shaped(plan[p], N(p))

\* What a step writes to one record, if any.
Writing(p, rec) == plan' = plan \/ plan' = [plan EXCEPT ![p] = rec]
Kept(p, rec) == /\ rec.made = plan[p].made
                /\ rec.review \in {0, plan[p].review} \union 1..N(p)

LEMMA ShapesStay ==
  ASSUME Types, \A p \in Plans : Shaped(plan[p], N(p)), UNCHANGED route,
         NEW q \in Plans, NEW rec, Shaped(rec, N(q)), Writing(q, rec)
  PROVE  \A p \in Plans : Shaped(plan[p], N(p))'
<1> SUFFICES ASSUME NEW p \in Plans PROVE Shaped(plan[p], N(p))'
  OBVIOUS
<1>1. plan \in [Plans -> PlanSet] /\ N(p)' = N(p) BY DEF Types, N
<1>2. plan'[p] = plan[p] \/ (p = q /\ plan'[p] = rec) BY <1>1 DEF Writing
<1> QED BY <1>1, <1>2 DEF Shaped

\* A patch writes what is made already.
LEMMA Patches ==
  ASSUME Types, NEW q \in Plans, NEW rec, Kept(q, rec), Shaped(plan[q], N(q)), Patch(q, rec)
  PROVE  \E r : Shaped(r, N(q)) /\ Writing(q, r)
<1>1. CASE plan[q].made
  <2>1. N(q) \in Nat BY RouteFacts DEF Types
  <2>2. Shaped(rec, N(q)) BY <1>1, <2>1 DEF Shaped, Kept
  <2> QED BY <1>1, <2>2 DEF Patch, Writing
<1>2. CASE ~plan[q].made BY <1>2 DEF Patch, Writing
<1> QED BY <1>1, <1>2

LEMMA Records ==
  ASSUME Types, NEW q \in Plans, NEW i \in 1..N(q)
  PROVE  /\ \A state : Kept(q, WithLeg(q, i, state)) /\ Kept(q, Result(q, i, state))
         /\ \A state : Kept(q, [Result(q, i, state) EXCEPT !.cur = i])
         /\ Kept(q, [plan[q] EXCEPT !.review = i])
<1>1. plan[q] \in [made : BOOLEAN, cur : Nat, review : Nat, leg : Legs] BY DEF Types, PlanSet
<1>2. i \in 1..N(q) OBVIOUS
<1>3. ASSUME NEW state
      PROVE  /\ WithLeg(q, i, state).made = plan[q].made /\ WithLeg(q, i, state).review = plan[q].review
             /\ Result(q, i, state).made = plan[q].made /\ Result(q, i, state).review = 0
             /\ [Result(q, i, state) EXCEPT !.cur = i].made = plan[q].made
             /\ [Result(q, i, state) EXCEPT !.cur = i].review = 0
  <2> DEFINE leg == [plan[q].leg EXCEPT ![i] = state]
  <2>1. WithLeg(q, i, state) = [plan[q] EXCEPT !.leg = leg] BY DEF WithLeg
  <2> HIDE DEF leg
  <2> QED BY <1>1, <2>1 DEF Result
<1>4. LET r == [plan[q] EXCEPT !.review = i] IN r.made = plan[q].made /\ r.review = i BY <1>1
<1> QED BY <1>2, <1>3, <1>4 DEF Kept

\* Every step writes one record, patched, new or removed, or none.
LEMMA StepShapes ==
  ASSUME IInv, \A p \in Plans : Shaped(plan[p], N(p)), [Next]_vars
  PROVE  UNCHANGED route /\ (plan' = plan \/ \E q \in Plans : \E rec : Shaped(rec, N(q)) /\ Writing(q, rec))
<1> DEFINE Goal == UNCHANGED route /\ (plan' = plan \/ \E q \in Plans : \E rec : Shaped(rec, N(q)) /\ Writing(q, rec))
<1>0. Types /\ \A p \in Plans : N(p) \in Nat /\ Shaped(NoPlan, N(p)) /\ Shaped(NewPlan(N(p)), N(p))
  <2>1. \A p \in Plans : N(p) \in Nat BY RouteFacts DEF IInv, Types
  <2> QED BY <2>1 DEF IInv, Shaped, NoPlan, NewPlan
<1>1. ASSUME NEW q \in Plans, NEW rec, UNCHANGED route, Kept(q, rec), Patch(q, rec) PROVE Goal
  BY <1>0, <1>1, Patches
<1>2. ASSUME NEW q \in Plans, UNCHANGED route, RemovePlan(q) PROVE Goal
  BY <1>0, <1>2 DEF RemovePlan, Writing
<1>3. ASSUME NEW p \in Plans, Start(p) PROVE Goal
  BY <1>0, <1>3 DEF Start, Writing, N, given
<1>4. ASSUME NEW p \in Plans, ProviderEnds(p) PROVE Goal
  BY <1>4 DEF ProviderEnds, given
<1>5. ASSUME NEW t \in Threads, Drive(t) PROVE Goal
  <2>1. job[t] \in Plans /\ at[t] \in 1..N(job[t])
    <3>1. pc[t] \in Driving
      BY <1>5 DEF Drive, Claim, Guard, Record, Hand, Throw, Wait, WaitOver, Drop, Reset, Park, Remove,
                  FirstLegFailed, Driving
    <3> QED BY <3>1, AtWork
  <2>2. /\ \A state : Kept(job[t], Result(job[t], at[t], state))
        /\ \A state : Kept(job[t], [Result(job[t], at[t], state) EXCEPT !.cur = at[t]])
        /\ Kept(job[t], [plan[job[t]] EXCEPT !.review = at[t]])
    BY <1>0, <2>1, Records
  <2>3. CASE Claim(t)
    <3>1. UNCHANGED route /\ (plan' = plan \/
            Patch(job[t], [Result(job[t], at[t], "in_flight") EXCEPT !.cur = at[t]]))
      BY <2>3 DEF Claim, given, Patch
    <3> QED BY <1>1, <2>1, <2>2, <3>1
  <2>4. CASE Guard(t) \/ Record(t) \/ Hand(t) \/ Throw(t)
    BY <2>4 DEF Guard, Record, Hand, Throw, given
  <2>5. CASE Wait(t) \/ WaitOver(t) \/ Reset(t)
    <3>1. UNCHANGED route /\ \E state : Patch(job[t], Result(job[t], at[t], state))
      BY <2>5 DEF Wait, WaitOver, Reset, given
    <3> QED BY <1>1, <2>1, <2>2, <3>1
  <2>6. CASE Park(t)
    <3>1. UNCHANGED route /\ Patch(job[t], [plan[job[t]] EXCEPT !.review = at[t]])
      BY <2>6 DEF Park, given
    <3> QED BY <1>1, <2>1, <2>2, <3>1
  <2>7. CASE Drop(t) \/ Remove(t)
    BY <1>2, <2>1, <2>7 DEF Drop, Remove, given
  <2> QED BY <1>5, <2>3, <2>4, <2>5, <2>6, <2>7 DEF Drive
<1>6. ASSUME NEW t \in Threads, Refuse(t) \/ WriteFails(t) PROVE Goal
  BY <1>6 DEF Refuse, WriteFails, given
<1>7. ASSUME NEW r \in Recoveries, Probe(r) PROVE Goal
  <2>1. job[r] \in Plans /\ at[r] \in 1..N(job[r])
    BY <1>7, AtWork, ThreadFacts DEF Probe, Driving
  <2>2. \A state : Kept(job[r], WithLeg(job[r], at[r], state))
    BY <1>0, <2>1, Records
  <2>3. UNCHANGED route /\ (plan' = plan \/ \E state : Patch(job[r], WithLeg(job[r], at[r], state)))
    BY <1>7 DEF Probe, given
  <2> QED BY <1>1, <2>1, <2>2, <2>3
<1>8. ASSUME NEW r \in Recoveries, Recover(r) \/ Take(r) \/ RecoverEnds(r) \/ ProbeFails(r) PROVE Goal
  BY <1>8 DEF Recover, Take, RecoverEnds, ProbeFails, given
<1>9. CASE Crash \/ UNCHANGED vars
  BY <1>9 DEF Crash, given, vars
<1> QED BY <1>3, <1>4, <1>5, <1>6, <1>7, <1>8, <1>9 DEF Next, Pass

LEMMA StepBounded == IInv /\ Bounded /\ [Next]_vars => Bounded'
<1> SUFFICES ASSUME IInv, Bounded, [Next]_vars PROVE Bounded'
  OBVIOUS
<1>1. UNCHANGED route /\ (plan' = plan \/ \E q \in Plans : \E rec : Shaped(rec, N(q)) /\ Writing(q, rec))
  BY StepShapes DEF Bounded
<1>2. \A p \in Plans : Shaped(plan[p], N(p))'
  <2>1. CASE plan' = plan
    BY <1>1, <2>1 DEF Bounded, Shaped, N
  <2>2. CASE \E q \in Plans : \E rec : Shaped(rec, N(q)) /\ Writing(q, rec)
    BY <1>1, <2>2, ShapesStay DEF IInv, Bounded
  <2> QED BY <1>1, <2>1, <2>2
<1>3. overlapped' = overlapped /\ faults' \in 0..MaxFaults
  <2>1. ASSUME faults' = faults \/ Fault PROVE faults' \in 0..MaxFaults
    BY <2>1, FaultsAssumption DEF Fault, Bounded
  <2>2. CASE UNCHANGED vars
    BY <2>1, <2>2 DEF vars
  <2>3. ASSUME NEW p \in Plans, Start(p) \/ ProviderEnds(p)
        PROVE  overlapped' = overlapped /\ faults' = faults
    BY <2>3 DEF Start, ProviderEnds, given
  <2>4. ASSUME NEW t \in Threads, Drive(t)
        PROVE  overlapped' = overlapped /\ faults' = faults
    BY <2>4 DEF Drive, Claim, Guard, Record, Hand, Throw, Wait, WaitOver, Drop, Reset, Park, Remove, given
  <2>5. ASSUME NEW t \in Threads, Refuse(t) \/ WriteFails(t)
        PROVE  overlapped' = overlapped /\ Fault
    BY <2>5 DEF Refuse, WriteFails, given
  <2>6. ASSUME NEW r \in Recoveries, Pass(r)
        PROVE  overlapped' = overlapped /\ faults' = faults
    BY <2>6 DEF Pass, Recover, Take, Probe, RecoverEnds, given
  <2>7. ASSUME NEW r \in Recoveries, ProbeFails(r)
        PROVE  overlapped' = overlapped /\ Fault
    BY <2>7 DEF ProbeFails, given
  <2>8. CASE Crash
    BY <2>1, <2>8 DEF Crash, given
  <2> QED BY <2>1, <2>2, <2>3, <2>4, <2>5, <2>6, <2>7, <2>8 DEF Next
<1> QED BY <1>2, <1>3 DEF Bounded

\* Each variable keeps its type: a record has as many legs as its route, stands at one
\* of them and names one of them in its note, whoever wrote it (plan-store.ts).
THEOREM TypeCorrect == Spec => []TypeOK
<1>1. Init => Bounded
  <2> SUFFICES ASSUME Init PROVE Bounded OBVIOUS
  <2>1. \A p \in Plans : plan[p] = NoPlan BY DEF Init
  <2> QED BY <2>1, FaultsAssumption DEF Init, Bounded, Shaped, NoPlan
<1>2. IInv /\ Bounded => TypeOK
  <2> SUFFICES ASSUME IInv, Bounded PROVE TypeOK OBVIOUS
  <2>1. Types BY DEF IInv
  <2>2. ASSUME NEW p \in Plans
        PROVE  /\ plan[p].made \in BOOLEAN
               /\ plan[p].leg \in [1..(IF plan[p].made THEN Len(route[p]) ELSE 0) -> LegStates]
               /\ plan[p].made => plan[p].cur \in DOMAIN route[p] /\ plan[p].review \in {0} \union DOMAIN route[p]
               /\ handed[p] \in Seq(DOMAIN route[p])
               /\ outcome[p] \in [DOMAIN route[p] -> {"none", "open", "settled", "over"}]
    <3>1. N(p) \in Nat /\ DOMAIN route[p] = 1..N(p) /\ Len(route[p]) = N(p)
      BY <2>1, RouteFacts DEF Types, N
    <3>2. plan[p] \in PlanSet /\ plan[p].made \in BOOLEAN BY <2>1 DEF Types, PlanSet
    <3>3. ASSUME plan[p].made
          PROVE  /\ plan[p].leg \in [1..(IF plan[p].made THEN Len(route[p]) ELSE 0) -> LegStates]
                 /\ plan[p].cur \in DOMAIN route[p] /\ plan[p].review \in {0} \union DOMAIN route[p]
      <4>1. plan[p].cur \in 1..N(p) /\ plan[p].leg \in [1..N(p) -> LegStates]
        BY <3>3 DEF IInv, PlanOK, RecOK
      <4>2. plan[p].review \in 0..N(p)
        BY <3>3 DEF Bounded, Shaped
      <4>3. plan[p].review \in {0} \union 1..N(p)
        BY <3>1, <4>2
      <4>4. plan[p].leg \in [1..(IF plan[p].made THEN Len(route[p]) ELSE 0) -> LegStates]
        BY <3>1, <3>3, <4>1
      <4> QED BY <3>1, <4>1, <4>3, <4>4
    <3>4. ASSUME ~plan[p].made
          PROVE  plan[p].leg \in [1..(IF plan[p].made THEN Len(route[p]) ELSE 0) -> LegStates]
      <4>1. plan[p] = NoPlan BY <3>4 DEF Bounded, Shaped
      <4>2. plan[p].leg = <<>> BY <4>1 DEF NoPlan
      <4>3. <<>> \in [1..0 -> LegStates] OBVIOUS
      <4>4. plan[p].leg \in [1..(IF plan[p].made THEN Len(route[p]) ELSE 0) -> LegStates]
        BY <3>4, <4>2, <4>3
      <4> QED BY <3>4, <4>4
    <3>5. handed[p] \in Seq(DOMAIN route[p])
      <4>1. handed[p] \in Seq(Nat) /\ Len(handed[p]) \in Nat /\ Len(handed[p]) <= N(p)
            /\ \A k \in 1..Len(handed[p]) : handed[p][k] = k
        BY <2>1 DEF Types, IInv, MoneyOK
      <4>2. \A k \in 1..Len(handed[p]) : handed[p][k] \in 1..N(p) BY <3>1, <4>1
      <4>3. handed[p] \in [1..Len(handed[p]) -> 1..N(p)] BY <4>1, <4>2
      <4> QED BY <3>1, <4>1, <4>3
    <3>6. outcome[p] \in [1..N(p) -> Ends] BY <2>1 DEF Types
    <3>7. Ends = {"none", "open", "settled", "over"} BY DEF Ends
    <3> QED BY <3>1, <3>2, <3>3, <3>4, <3>5, <3>6, <3>7
  <2>3. \A t \in Threads : Working(t) /\ pc[t] # "next" => job[t] \in Plans /\ at[t] \in DOMAIN route[job[t]]
    <3> SUFFICES ASSUME NEW t \in Threads, pc[t] \in Driving
                 PROVE  job[t] \in Plans /\ at[t] \in DOMAIN route[job[t]]
      BY DEF Working
    <3>1. job[t] \in Plans /\ at[t] \in 1..N(job[t]) BY AtWork
    <3> QED BY <2>1, <3>1, RouteFacts DEF Types
  <2> QED BY <2>1, <2>2, <2>3 DEF TypeOK, Types, Bounded
<1> QED BY <1>1, <1>2, StepBounded, Invariance, PTL DEF Spec
=============================================================================
