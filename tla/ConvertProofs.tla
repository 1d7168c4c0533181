--------------------------- MODULE ConvertProofs ---------------------------
(***************************************************************************)
(* Proofs about the operations that turn one asset into another: the       *)
(* orders and the market swaps of one wallet instance (Desk), and the      *)
(* intents that choose a route for them (Intent).                          *)
(*                                                                         *)
(* The orders.  The flow of an operation fixes what it has done by the     *)
(* step it is at: its order exists, its spend is counted, its record is    *)
(* written (OrderFits); a log says nothing the provider has not said       *)
(* (LogFits); and an answer on its way is not older than the record        *)
(* unless two polls raced (PollFits).                                      *)
(*                                                                         *)
(* The kill switch.  Only the gate lets a purchase go on, on a config that *)
(* says so (GateHolds); once the shop is off and no older answer is on its *)
(* way, what says "on" is as old as that (OffSince).                       *)
(*                                                                         *)
(* The market.  A call has no client before it connects, and hands it to   *)
(* the registry, to one execution or to nobody (CallFits); two executions  *)
(* never have the same quote (Apart); and a quote that was not signed for  *)
(* yet is counted before it is (ExecFits).                                 *)
(*                                                                         *)
(* Their sections.  Whoever waits for its section or is inside it is on    *)
(* the chain of opMutex, once, and whoever is inside is its head           *)
(* (ChainFits): each step joins the chain, enters a section, departs from  *)
(* it, empties the chain, or leaves both alone (ChainMoves).  Each kind of *)
(* call has the clients its place says, and no counter passes its bound    *)
(* (ClientFits, OrderBounds).                                              *)
(*                                                                         *)
(* The intents.  A result is true and stays so because each place in the   *)
(* code is reached by the methods that belong there, the wallet's refund   *)
(* begins only after the provider gave up (LegFits), and money that        *)
(* arrived or came back moves no more.  A quote is of an open route        *)
(* because its legs are estimated from the first on.  An answer is fresh   *)
(* because what a kept walk or probe says was so no longer ago than its    *)
(* age tells (AnswersKept), it is only joined before the time to live, and *)
(* the clock does not move between an answer and the calls that wait for   *)
(* it (Awaited).  The length of a route is what the place of its call      *)
(* says (RouteFits).                                                       *)
(***************************************************************************)
EXTENDS Intent, Desk, FiniteSetTheorems, SequenceTheorems, TLAPS

-----------------------------------------------------------------------------
(* The logs                                                                *)

Recs == [id : Operations, status : Nat]
Unique(log) == \A i \in DOMAIN log : \A j \in DOMAIN log : log[i].id = log[j].id => i = j
Full(log) == Len(log) = MaxStored

IsLog(log) == /\ log \in Seq(Recs)
              /\ Len(log) <= MaxStored
              /\ Unique(log)

\* A record that is new to the log is its first, and the rest moves back by one:
\* past the limit the oldest is cut off, and the log stays full.
LEMMA SaveAddsOne ==
  ASSUME NEW log, IsLog(log), NEW r \in Recs, r.id \notin Logged(log)
  PROVE  LET new == Save(log, r)
         IN  /\ IsLog(new)
             /\ r.id \in Logged(new)
             /\ Logged(new) \subseteq Logged(log) \cup {r.id}
             /\ \A i \in DOMAIN new : new[i] = r \/ (new[i].id # r.id /\ \E j \in DOMAIN log : new[i] = log[j])
             /\ Full(log) => Full(new)
             /\ Logged(log) \subseteq Logged(new) \/ Full(new)
             /\ ~Full(log) => \A j \in DOMAIN log : \E i \in DOMAIN new : new[i] = log[j]
<1> DEFINE all == <<r>> \o log
           new == Save(log, r)
           n == IF Len(all) < MaxStored THEN Len(all) ELSE MaxStored
<1>1. log \in Seq(Recs) /\ Len(log) \in Nat /\ DOMAIN log = 1 .. Len(log) /\ Len(log) <= MaxStored
  BY DEF IsLog
<1>2. /\ all \in Seq(Recs) /\ Len(all) = Len(log) + 1
      /\ all[1] = r /\ \A i \in 2 .. Len(log) + 1 : all[i] = log[i - 1]
  BY <1>1
<1>3. new = SubSeq(all, 1, n) /\ n \in 1 .. Len(all)
  BY <1>1, <1>2, StoredAssumption DEF Save, Rest, Cut
<1>4. new \in Seq(Recs) /\ Len(new) = n /\ DOMAIN new = 1 .. n /\ \A i \in 1 .. n : new[i] = all[i]
  BY <1>2, <1>3
<1> HIDE DEF all, new
<1>5. /\ n \in Nat /\ n >= 1 /\ n <= MaxStored /\ n <= Len(log) + 1
      /\ Len(log) = MaxStored => n = MaxStored
      /\ n = MaxStored \/ n = Len(log) + 1
      /\ Len(log) # MaxStored => n = Len(log) + 1
  <2>1. n = IF Len(log) + 1 < MaxStored THEN Len(log) + 1 ELSE MaxStored
    BY <1>2
  <2>2. Len(log) \in Nat /\ Len(log) <= MaxStored
    BY <1>1
  <2> HIDE DEF n
  <2> QED BY <2>1, <2>2, StoredAssumption
<1> HIDE DEF n
<1>6. new[1] = r /\ \A i \in 2 .. n : i - 1 \in DOMAIN log /\ new[i] = log[i - 1] /\ new[i].id # r.id
  <2>1. \A j \in DOMAIN log : log[j].id # r.id
    BY DEF Logged
  <2>2. new[1] = r
    BY <1>2, <1>4, <1>5
  <2>3. ASSUME NEW i \in 2 .. n PROVE i - 1 \in DOMAIN log /\ new[i] = log[i - 1]
    <3>1. i \in 2 .. Len(log) + 1 /\ i \in 1 .. n
      <4>1. Len(log) \in Nat
        BY <1>1
      <4> QED BY <1>5, <4>1
    <3>2. i - 1 \in 1 .. Len(log)
      <4>1. Len(log) \in Nat
        BY <1>1
      <4> QED BY <3>1, <4>1
    <3> QED BY <1>1, <1>2, <1>4, <3>1, <3>2
  <2> QED BY <2>1, <2>2, <2>3
<1>7. IsLog(new)
  <2>1. ASSUME NEW i \in 1 .. n, NEW j \in 1 .. n, new[i].id = new[j].id PROVE i = j
    <3>1. CASE i = 1 \/ j = 1
      BY <1>5, <1>6, <2>1, <3>1
    <3>2. CASE i # 1 /\ j # 1
      <4>1. log[i - 1].id = log[j - 1].id /\ i - 1 \in DOMAIN log /\ j - 1 \in DOMAIN log
        BY <1>5, <1>6, <2>1, <3>2
      <4>2. i - 1 = j - 1
        BY <4>1 DEF IsLog, Unique
      <4> QED BY <4>2
    <3> QED BY <3>1, <3>2
  <2> QED BY <1>4, <1>5, <2>1 DEF IsLog, Unique
<1>8. \A j \in DOMAIN log : j + 1 <= n => new[j + 1] = log[j] /\ j + 1 \in DOMAIN new
  <2> SUFFICES ASSUME NEW j \in DOMAIN log, j + 1 <= n PROVE new[j + 1] = log[j] /\ j + 1 \in DOMAIN new
    OBVIOUS
  <2>1. j + 1 \in 2 .. n /\ (j + 1) - 1 = j
    BY <1>1, <1>5
  <2> QED BY <1>4, <1>6, <2>1
<1>9. n = Len(log) + 1 => \A j \in DOMAIN log : \E i \in DOMAIN new : new[i] = log[j]
  BY <1>1, <1>8
<1>10. Logged(log) \subseteq Logged(new) \/ Full(new)
  <2>1. CASE n = MaxStored
    BY <1>4, <2>1 DEF Full
  <2>2. CASE n = Len(log) + 1
    BY <1>9, <2>2 DEF Logged
  <2> QED BY <1>5, <2>1, <2>2
<1>11. \A i \in DOMAIN new : new[i] = r \/ (new[i].id # r.id /\ \E j \in DOMAIN log : new[i] = log[j])
  <2> SUFFICES ASSUME NEW i \in 1 .. n
               PROVE  new[i] = r \/ (new[i].id # r.id /\ \E j \in DOMAIN log : new[i] = log[j])
    BY <1>4
  <2>1. CASE i = 1
    BY <1>6, <2>1
  <2>2. CASE i # 1
    <3>1. i \in 2 .. n
      BY <1>5, <2>2
    <3> QED BY <1>6, <3>1
  <2> QED BY <2>1, <2>2
<1>12. r.id \in Logged(new)
  BY <1>4, <1>5, <1>6 DEF Logged
<1>13. Logged(new) \subseteq Logged(log) \cup {r.id}
  BY <1>11 DEF Logged
<1>14. /\ Full(log) => Full(new)
       /\ ~Full(log) => \A j \in DOMAIN log : \E i \in DOMAIN new : new[i] = log[j]
  BY <1>4, <1>5, <1>9 DEF Full
<1> QED BY <1>7, <1>10, <1>11, <1>12, <1>13, <1>14 DEF new

\* An update keeps the records where they are, and changes one of them at most.
LEMMA MergeKeeps ==
  ASSUME NEW log, IsLog(log), NEW o \in Operations, NEW s \in Nat
  PROVE  LET new == Merge(log, o, s)
         IN  /\ IsLog(new)
             /\ DOMAIN new = DOMAIN log
             /\ Logged(new) = Logged(log)
             /\ Full(log) => Full(new)
             /\ \A i \in DOMAIN log : /\ new[i].id = log[i].id
                                      /\ new[i].status = IF log[i].id = o THEN s ELSE log[i].status
<1> DEFINE new == Merge(log, o, s)
<1>1. log \in Seq(Recs) /\ Len(log) \in Nat /\ DOMAIN log = 1 .. Len(log) /\ Len(log) <= MaxStored
  BY DEF IsLog
<1>2. \A i \in DOMAIN log : /\ log[i] \in Recs
                            /\ new[i] \in Recs
                            /\ new[i].id = log[i].id
                            /\ new[i].status = IF log[i].id = o THEN s ELSE log[i].status
  <2> SUFFICES ASSUME NEW i \in DOMAIN log
               PROVE  /\ log[i] \in Recs
                      /\ new[i] \in Recs
                      /\ new[i].id = log[i].id
                      /\ new[i].status = IF log[i].id = o THEN s ELSE log[i].status
    OBVIOUS
  <2>1. new[i] = IF log[i].id = o THEN [log[i] EXCEPT !.status = s] ELSE log[i]
    BY DEF Merge
  <2>2. log[i] \in Recs
    BY <1>1
  <2> HIDE DEF new
  <2> QED BY <2>1, <2>2 DEF Recs
<1>3. DOMAIN new = 1 .. Len(log) /\ new \in [1 .. Len(log) -> Recs]
  BY <1>1, <1>2 DEF Merge
<1> HIDE DEF new
<1>4. new \in Seq(Recs) /\ Len(new) = Len(log)
  BY <1>1, <1>3
<1>5. IsLog(new)
  BY <1>1, <1>2, <1>3, <1>4 DEF IsLog, Unique
<1>6. Logged(new) = Logged(log)
  BY <1>1, <1>2, <1>3 DEF Logged
<1> QED BY <1>1, <1>2, <1>3, <1>4, <1>5, <1>6 DEF Full, new

\* The record of an order is the only one with its id.
LEMMA TheRecord ==
  ASSUME NEW log, IsLog(log), NEW i \in DOMAIN log
  PROVE  RecordOf(log, log[i].id) = log[i]
<1>1. log[i] \in ToSet(log)
  BY DEF ToSet
<1>2. \A r \in ToSet(log) : r.id = log[i].id => r = log[i]
  BY DEF ToSet, IsLog, Unique
<1> QED BY <1>1, <1>2 DEF RecordOf

\* A log has one record of each order in it.
LEMMA LogSize == ASSUME NEW log, IsLog(log) PROVE Cardinality(Logged(log)) = Len(log)
<1> DEFINE ids == [i \in DOMAIN log |-> log[i].id]
<1>1. Len(log) \in Nat /\ DOMAIN log = 1 .. Len(log)
  BY DEF IsLog
<1>2. ids \in Bijection(1 .. Len(log), Logged(log))
  <2>1. ids \in Injection(1 .. Len(log), Logged(log))
    <3>1. \A i, j \in DOMAIN log : log[i].id = log[j].id => i = j
      BY DEF IsLog, Unique
    <3>2. ids \in [1 .. Len(log) -> Logged(log)]
      BY <1>1 DEF Logged
    <3> QED BY <1>1, <3>1, <3>2 DEF Injection, IsInjective
  <2>2. ids \in Surjection(1 .. Len(log), Logged(log))
    BY <1>1 DEF Surjection, Logged
  <2> QED BY <2>1, <2>2 DEF Bijection
<1>3. IsFiniteSet(1 .. Len(log)) /\ Cardinality(1 .. Len(log)) = Len(log)
  <2>1. Len(log) \in Nat
    BY <1>1
  <2>2. \A n \in Nat : IsFiniteSet(1 .. n) /\ Cardinality(1 .. n) = IF 1 > n THEN 0 ELSE n - 1 + 1
    BY FS_Interval
  <2>3. \A n \in Nat : (IF 1 > n THEN 0 ELSE n - 1 + 1) = n
    OBVIOUS
  <2> QED BY <2>1, <2>2, <2>3, Zenon
<1> QED BY <1>2, <1>3, FS_Bijection DEF ExistsBijection

\* A log of orders that is full holds them all, if there is room for all.
LogsHaveRoom == IsFiniteSet(Operations) /\ Cardinality(Operations) <= MaxStored

LEMMA AFullLogHasAll ==
  ASSUME LogsHaveRoom, NEW log, IsLog(log), Full(log)
  PROVE  Logged(log) = Operations
<1>1. log \in Seq(Recs) /\ Len(log) = MaxStored /\ DOMAIN log = 1 .. MaxStored
  BY DEF IsLog, Full
<1>2. Logged(log) \subseteq Operations
  <2>1. \A i \in DOMAIN log : log[i] \in Recs
    BY <1>1
  <2>2. \A i \in DOMAIN log : log[i].id \in Operations
    BY <2>1 DEF Recs
  <2> QED BY <2>2 DEF Logged
<1>3. IsFiniteSet(Logged(log)) /\ Cardinality(Logged(log)) <= Cardinality(Operations)
  BY <1>2, FS_Subset DEF LogsHaveRoom
<1>4. Cardinality(Logged(log)) = MaxStored
  BY <1>1, LogSize
<1>5. Cardinality(Operations) = Cardinality(Logged(log))
  <2>1. Cardinality(Operations) \in Nat
    BY FS_CardinalityType DEF LogsHaveRoom
  <2> QED BY <1>3, <1>4, <2>1, StoredAssumption DEF LogsHaveRoom
<1> QED BY <1>2, <1>5, FS_Subset DEF LogsHaveRoom
-----------------------------------------------------------------------------
(* The operations                                                          *)

LEMMA TheFlows ==
  /\ DOMAIN Flow = {"shift", "receive", "pegOut", "gift"}
  /\ Len(Flow["shift"]) = 9 /\ Len(Flow["receive"]) = 6 /\ Len(Flow["pegOut"]) = 8 /\ Len(Flow["gift"]) = 11
  /\ Flow["shift"][1] = "queue" /\ Flow["shift"][2] = "enter" /\ Flow["shift"][3] = "enforce"
  /\ Flow["shift"][4] = "order" /\ Flow["shift"][5] = "sign" /\ Flow["shift"][6] = "record"
  /\ Flow["shift"][7] = "broadcast" /\ Flow["shift"][8] = "save" /\ Flow["shift"][9] = "leave"
  /\ Flow["receive"][1] = "queue" /\ Flow["receive"][2] = "enter" /\ Flow["receive"][3] = "address"
  /\ Flow["receive"][4] = "leave" /\ Flow["receive"][5] = "order" /\ Flow["receive"][6] = "save"
  /\ Flow["pegOut"][1] = "queue" /\ Flow["pegOut"][2] = "enter" /\ Flow["pegOut"][3] = "enforce"
  /\ Flow["pegOut"][4] = "order" /\ Flow["pegOut"][5] = "sign" /\ Flow["pegOut"][6] = "record"
  /\ Flow["pegOut"][7] = "broadcast" /\ Flow["pegOut"][8] = "leave"
  /\ Flow["gift"][1] = "gate" /\ Flow["gift"][2] = "order" /\ Flow["gift"][3] = "save"
  /\ Flow["gift"][4] = "queue" /\ Flow["gift"][5] = "enter" /\ Flow["gift"][6] = "enforce"
  /\ Flow["gift"][7] = "sign" /\ Flow["gift"][8] = "record" /\ Flow["gift"][9] = "broadcast"
  /\ Flow["gift"][10] = "leave" /\ Flow["gift"][11] = "patch"
BY DEF Flow, SendFlow, ReceiveFlow, PegOutFlow, BuyFlow

LEMMA FlowLengths ==
  /\ DOMAIN Flow = {"shift", "receive", "pegOut", "gift"}
  /\ Len(Flow["shift"]) = 9 /\ Len(Flow["receive"]) = 6 /\ Len(Flow["pegOut"]) = 8 /\ Len(Flow["gift"]) = 11
BY TheFlows

OrderTypes ==
  /\ kind \in [Operations -> DOMAIN Flow \cup {"none"}]
  /\ at \in [Operations -> Nat]
  /\ status \in [Operations -> Nat]
  /\ booked \subseteq Operations /\ paid \subseteq Operations
  /\ raced \subseteq Operations /\ unsaved \subseteq Operations /\ lost \subseteq Operations
  /\ poll = [p \in Polls |-> poll[p]]
  /\ DOMAIN logs = {"shift", "gift"}
  /\ logs = [k \in {"shift", "gift"} |-> logs[k]]
  /\ IsLog(logs["shift"]) /\ IsLog(logs["gift"])

\* Whether the operation may still create its order, or its record.
ToOrder(k, i) == \/ k \in {"shift", "pegOut"} /\ i <= 4
                 \/ k = "receive" /\ i <= 5
                 \/ k = "gift" /\ i <= 2
ToRecord(k, i) == \/ k \in {"shift", "pegOut"} /\ i <= 6
                  \/ k = "receive"
                  \/ k = "gift" /\ i <= 8
ToSave(k, i) == \/ k = "none"
                \/ k = "shift" /\ i \in 1 .. 8
                \/ k = "receive" /\ i \in 1 .. 6
                \/ k = "gift" /\ i \in 1 .. 3
                \/ k = "pegOut"

\* Its record was written and is there, unless the write failed, or a full log
\* has dropped it for newer ones.
Kept(o) == \/ o \in Logged(logs[LogOf(kind[o])])
           \/ Full(logs[LogOf(kind[o])])
           \/ o \in unsaved

OrderFits(o) ==
  /\ kind[o] = "none" => at[o] = 0
  /\ at[o] # 0 => at[o] \in 1 .. Len(Flow[kind[o]])
  /\ at[o] # 0 /\ ~ToOrder(kind[o], at[o]) => status[o] >= 1
  /\ at[o] # 0 /\ ~ToRecord(kind[o], at[o]) => o \in booked
  /\ ToSave(kind[o], at[o]) => o \notin Logged(logs["shift"]) /\ o \notin Logged(logs["gift"])
  /\ kind[o] = "gift" /\ at[o] > 3 => Kept(o)
  /\ kind[o] = "shift" /\ at[o] > 8 => Kept(o)
  /\ o \in paid =>
       /\ o \in booked /\ kind[o] # "none"
       /\ \/ Kept(o)
          \/ kind[o] = "pegOut"
          \/ kind[o] = "shift" /\ (at[o] = 8 \/ o \in lost)

\* What a log says of an order the provider has said, and each kind of order has
\* its log.
LogFits(k) ==
  \A i \in DOMAIN logs[k] :
    LET r == logs[k][i]
    IN  /\ r.status <= status[r.id]
        /\ kind[r.id] # "none" /\ LogOf(kind[r.id]) = k

\* An answer on its way is not older than the record, unless a poll overtook it.
PollFits(p) ==
  poll[p] # NoPoll =>
    /\ poll[p].order \in Operations /\ poll[p].answer \in Nat
    /\ poll[p].answer <= status[poll[p].order]
    /\ ~ToSave(kind[poll[p].order], at[poll[p].order])
    /\ poll[p].order \notin raced =>
         /\ \A q \in Polls \ {p} : poll[q] # NoPoll => poll[q].order # poll[p].order
         /\ \A k \in {"shift", "gift"} : \A i \in DOMAIN logs[k] :
              logs[k][i].id = poll[p].order => logs[k][i].status <= poll[p].answer

OrdersInv ==
  /\ OrderTypes
  /\ \A o \in Operations : OrderFits(o)
  /\ LogFits("shift") /\ LogFits("gift")
  /\ \A p \in Polls : PollFits(p)

LEMMA InitOrders == OrdersInit => OrdersInv
<1> SUFFICES ASSUME OrdersInit PROVE OrdersInv
  OBVIOUS
<1>1. logs["shift"] = <<>> /\ logs["gift"] = <<>> /\ DOMAIN logs = {"shift", "gift"}
      /\ logs = [k \in {"shift", "gift"} |-> logs[k]]
  BY DEF OrdersInit
<1>2. IsLog(<<>>) /\ Logged(<<>>) = {}
  BY StoredAssumption DEF IsLog, Unique, Logged
<1>3. OrderTypes
  BY <1>1, <1>2, Zenon DEF OrdersInit, OrderTypes
<1>4. \A o \in Operations : OrderFits(o)
  BY <1>1, <1>2 DEF OrdersInit, OrderFits
<1>5. LogFits("shift") /\ LogFits("gift")
  BY <1>1 DEF LogFits
<1>6. \A p \in Polls : PollFits(p)
  BY DEF OrdersInit, PollFits
<1> QED BY <1>3, <1>4, <1>5, <1>6 DEF OrdersInv

\* Where an operation can stand, what it does there and where it goes next.
At(o, k, i, step, next) == /\ kind[o] = k /\ at[o] = i /\ Doing(o) = step
                           /\ Advance(o) => at' = [at EXCEPT ![o] = next]

ShiftAt(o) == \/ At(o, "shift", 1, "queue", 2)
              \/ At(o, "shift", 2, "enter", 3)
              \/ At(o, "shift", 3, "enforce", 4)
              \/ At(o, "shift", 4, "order", 5)
              \/ At(o, "shift", 5, "sign", 6)
              \/ At(o, "shift", 6, "record", 7)
              \/ At(o, "shift", 7, "broadcast", 8)
              \/ At(o, "shift", 8, "save", 9)
              \/ At(o, "shift", 9, "leave", 0)
ReceiveAt(o) == \/ At(o, "receive", 1, "queue", 2)
                \/ At(o, "receive", 2, "enter", 3)
                \/ At(o, "receive", 3, "address", 4)
                \/ At(o, "receive", 4, "leave", 5)
                \/ At(o, "receive", 5, "order", 6)
                \/ At(o, "receive", 6, "save", 0)
PegOutAt(o) == \/ At(o, "pegOut", 1, "queue", 2)
               \/ At(o, "pegOut", 2, "enter", 3)
               \/ At(o, "pegOut", 3, "enforce", 4)
               \/ At(o, "pegOut", 4, "order", 5)
               \/ At(o, "pegOut", 5, "sign", 6)
               \/ At(o, "pegOut", 6, "record", 7)
               \/ At(o, "pegOut", 7, "broadcast", 8)
               \/ At(o, "pegOut", 8, "leave", 0)
GiftAt(o) == \/ At(o, "gift", 1, "gate", 2)
             \/ At(o, "gift", 2, "order", 3)
             \/ At(o, "gift", 3, "save", 4)
             \/ At(o, "gift", 4, "queue", 5)
             \/ At(o, "gift", 5, "enter", 6)
             \/ At(o, "gift", 6, "enforce", 7)
             \/ At(o, "gift", 7, "sign", 8)
             \/ At(o, "gift", 8, "record", 9)
             \/ At(o, "gift", 9, "broadcast", 10)
             \/ At(o, "gift", 10, "leave", 11)
             \/ At(o, "gift", 11, "patch", 0)

LEMMA Stations ==
  ASSUME OrdersInv, NEW o \in Operations, at[o] # 0
  PROVE  \/ kind[o] = "shift" /\ ShiftAt(o)
         \/ kind[o] = "receive" /\ ReceiveAt(o)
         \/ kind[o] = "pegOut" /\ PegOutAt(o)
         \/ kind[o] = "gift" /\ GiftAt(o)
<1>1. kind[o] \in DOMAIN Flow /\ at[o] \in 1 .. Len(Flow[kind[o]])
  BY DEF OrdersInv, OrderTypes, OrderFits
<1>2. Doing(o) = Flow[kind[o]][at[o]]
  BY DEF Doing
<1>3. Advance(o) => at' = [at EXCEPT ![o] = IF at[o] = Len(Flow[kind[o]]) THEN 0 ELSE at[o] + 1]
  BY DEF Advance, OrdersInv, OrderTypes
<1>4. ASSUME kind[o] = "shift" PROVE ShiftAt(o)
  <2>0. at[o] \in 1 .. 9
    BY <1>1, <1>4, TheFlows
  <2>1. at[o] = 1 => At(o, "shift", 1, "queue", 2)
    BY <1>2, <1>3, <1>4, TheFlows DEF At
  <2>2. at[o] = 2 => At(o, "shift", 2, "enter", 3)
    BY <1>2, <1>3, <1>4, TheFlows DEF At
  <2>3. at[o] = 3 => At(o, "shift", 3, "enforce", 4)
    BY <1>2, <1>3, <1>4, TheFlows DEF At
  <2>4. at[o] = 4 => At(o, "shift", 4, "order", 5)
    BY <1>2, <1>3, <1>4, TheFlows DEF At
  <2>5. at[o] = 5 => At(o, "shift", 5, "sign", 6)
    BY <1>2, <1>3, <1>4, TheFlows DEF At
  <2>6. at[o] = 6 => At(o, "shift", 6, "record", 7)
    BY <1>2, <1>3, <1>4, TheFlows DEF At
  <2>7. at[o] = 7 => At(o, "shift", 7, "broadcast", 8)
    BY <1>2, <1>3, <1>4, TheFlows DEF At
  <2>8. at[o] = 8 => At(o, "shift", 8, "save", 9)
    BY <1>2, <1>3, <1>4, TheFlows DEF At
  <2>9. at[o] = 9 => At(o, "shift", 9, "leave", 0)
    BY <1>2, <1>3, <1>4, TheFlows DEF At
  <2> QED BY <2>0, <2>1, <2>2, <2>3, <2>4, <2>5, <2>6, <2>7, <2>8, <2>9 DEF ShiftAt
<1>5. ASSUME kind[o] = "receive" PROVE ReceiveAt(o)
  <2>0. at[o] \in 1 .. 6
    BY <1>1, <1>5, TheFlows
  <2>1. at[o] = 1 => At(o, "receive", 1, "queue", 2)
    BY <1>2, <1>3, <1>5, TheFlows DEF At
  <2>2. at[o] = 2 => At(o, "receive", 2, "enter", 3)
    BY <1>2, <1>3, <1>5, TheFlows DEF At
  <2>3. at[o] = 3 => At(o, "receive", 3, "address", 4)
    BY <1>2, <1>3, <1>5, TheFlows DEF At
  <2>4. at[o] = 4 => At(o, "receive", 4, "leave", 5)
    BY <1>2, <1>3, <1>5, TheFlows DEF At
  <2>5. at[o] = 5 => At(o, "receive", 5, "order", 6)
    BY <1>2, <1>3, <1>5, TheFlows DEF At
  <2>6. at[o] = 6 => At(o, "receive", 6, "save", 0)
    BY <1>2, <1>3, <1>5, TheFlows DEF At
  <2> QED BY <2>0, <2>1, <2>2, <2>3, <2>4, <2>5, <2>6 DEF ReceiveAt
<1>6. ASSUME kind[o] = "pegOut" PROVE PegOutAt(o)
  <2>0. at[o] \in 1 .. 8
    BY <1>1, <1>6, TheFlows
  <2>1. at[o] = 1 => At(o, "pegOut", 1, "queue", 2)
    BY <1>2, <1>3, <1>6, TheFlows DEF At
  <2>2. at[o] = 2 => At(o, "pegOut", 2, "enter", 3)
    BY <1>2, <1>3, <1>6, TheFlows DEF At
  <2>3. at[o] = 3 => At(o, "pegOut", 3, "enforce", 4)
    BY <1>2, <1>3, <1>6, TheFlows DEF At
  <2>4. at[o] = 4 => At(o, "pegOut", 4, "order", 5)
    BY <1>2, <1>3, <1>6, TheFlows DEF At
  <2>5. at[o] = 5 => At(o, "pegOut", 5, "sign", 6)
    BY <1>2, <1>3, <1>6, TheFlows DEF At
  <2>6. at[o] = 6 => At(o, "pegOut", 6, "record", 7)
    BY <1>2, <1>3, <1>6, TheFlows DEF At
  <2>7. at[o] = 7 => At(o, "pegOut", 7, "broadcast", 8)
    BY <1>2, <1>3, <1>6, TheFlows DEF At
  <2>8. at[o] = 8 => At(o, "pegOut", 8, "leave", 0)
    BY <1>2, <1>3, <1>6, TheFlows DEF At
  <2> QED BY <2>0, <2>1, <2>2, <2>3, <2>4, <2>5, <2>6, <2>7, <2>8 DEF PegOutAt
<1>7. ASSUME kind[o] = "gift" PROVE GiftAt(o)
  <2>0. at[o] \in 1 .. 11
    BY <1>1, <1>7, TheFlows
  <2>1. at[o] = 1 => At(o, "gift", 1, "gate", 2)
    BY <1>2, <1>3, <1>7, TheFlows DEF At
  <2>2. at[o] = 2 => At(o, "gift", 2, "order", 3)
    BY <1>2, <1>3, <1>7, TheFlows DEF At
  <2>3. at[o] = 3 => At(o, "gift", 3, "save", 4)
    BY <1>2, <1>3, <1>7, TheFlows DEF At
  <2>4. at[o] = 4 => At(o, "gift", 4, "queue", 5)
    BY <1>2, <1>3, <1>7, TheFlows DEF At
  <2>5. at[o] = 5 => At(o, "gift", 5, "enter", 6)
    BY <1>2, <1>3, <1>7, TheFlows DEF At
  <2>6. at[o] = 6 => At(o, "gift", 6, "enforce", 7)
    BY <1>2, <1>3, <1>7, TheFlows DEF At
  <2>7. at[o] = 7 => At(o, "gift", 7, "sign", 8)
    BY <1>2, <1>3, <1>7, TheFlows DEF At
  <2>8. at[o] = 8 => At(o, "gift", 8, "record", 9)
    BY <1>2, <1>3, <1>7, TheFlows DEF At
  <2>9. at[o] = 9 => At(o, "gift", 9, "broadcast", 10)
    BY <1>2, <1>3, <1>7, TheFlows DEF At
  <2>10. at[o] = 10 => At(o, "gift", 10, "leave", 11)
    BY <1>2, <1>3, <1>7, TheFlows DEF At
  <2>11. at[o] = 11 => At(o, "gift", 11, "patch", 0)
    BY <1>2, <1>3, <1>7, TheFlows DEF At
  <2> QED BY <2>0, <2>1, <2>2, <2>3, <2>4, <2>5, <2>6, <2>7, <2>8, <2>9, <2>10, <2>11 DEF GiftAt
<1> QED BY <1>1, <1>4, <1>5, <1>6, <1>7, TheFlows
-----------------------------------------------------------------------------
(* The steps of an operation                                               *)

\* The operation at o, asking for k, is at step i now; all that changes besides is
\* its own.  An order that is new is nobody's yet: not in a log, not polled.
Moves(o, k, i) ==
  /\ kind' = [kind EXCEPT ![o] = k] /\ at' = [at EXCEPT ![o] = i]
  /\ k \in DOMAIN Flow /\ i \in Nat
  /\ k = kind[o] \/ kind[o] = "none"
  /\ ToSave(k, i) => ToSave(kind[o], at[o])
  /\ UNCHANGED <<logs, poll, raced>>
  /\ status' \in [Operations -> Nat]
  /\ \A x \in Operations \ {o} : status'[x] = status[x]
  /\ status'[o] = status[o] \/ ToSave(kind[o], at[o])
  /\ booked' \in {booked, booked \cup {o}}
  /\ paid' \in {paid, paid \cup {o}}
  /\ lost' \in {lost, lost \cup {o}}
  /\ unsaved' \in {unsaved, unsaved \cup {o}}

LEMMA OneMoves ==
  ASSUME OrdersInv, NEW o \in Operations, NEW k, NEW i, Moves(o, k, i), OrderFits(o)'
  PROVE  OrdersInv'
<1>1. /\ kind' \in [Operations -> DOMAIN Flow \cup {"none"}] /\ at' \in [Operations -> Nat]
      /\ kind'[o] = k /\ at'[o] = i
      /\ \A x \in Operations \ {o} : kind'[x] = kind[x] /\ at'[x] = at[x] /\ status'[x] = status[x]
      /\ logs' = logs /\ poll' = poll /\ raced' = raced
  BY DEF Moves, OrdersInv, OrderTypes
<1>2. OrderTypes'
  <2>1. booked' \subseteq Operations /\ paid' \subseteq Operations /\ lost' \subseteq Operations
        /\ unsaved' \subseteq Operations /\ status' \in [Operations -> Nat]
    BY DEF Moves, OrdersInv, OrderTypes
  <2> QED BY <1>1, <2>1, Zenon DEF OrdersInv, OrderTypes
<1>3. \A x \in Operations : OrderFits(x)'
  <2> SUFFICES ASSUME NEW x \in Operations \ {o} PROVE OrderFits(x)'
    OBVIOUS
  <2>1. /\ OrderFits(x) /\ kind'[x] = kind[x] /\ at'[x] = at[x] /\ status'[x] = status[x]
        /\ x \in booked' <=> x \in booked
        /\ x \in paid' <=> x \in paid
        /\ x \in lost' <=> x \in lost
        /\ x \in unsaved' <=> x \in unsaved
    BY <1>1 DEF Moves, OrdersInv
  <2> QED BY <1>1, <2>1 DEF OrderFits, Kept
<1>4. ToSave(kind[o], at[o]) => o \notin Logged(logs["shift"]) /\ o \notin Logged(logs["gift"])
  BY DEF OrdersInv, OrderFits
<1>5. ASSUME NEW l \in {"shift", "gift"} PROVE LogFits(l)'
  <2> SUFFICES ASSUME NEW j \in DOMAIN logs[l]
               PROVE  /\ logs[l][j].status <= status'[logs[l][j].id]
                      /\ kind'[logs[l][j].id] # "none" /\ LogOf(kind'[logs[l][j].id]) = l
    BY <1>1 DEF LogFits
  <2> DEFINE r == logs[l][j]
  <2>1. r.id \in Operations
    <3>1. IsLog(logs[l])
      BY DEF OrdersInv, OrderTypes
    <3>2. r \in Recs
      BY <3>1 DEF IsLog
    <3> QED BY <3>2 DEF Recs
  <2>2. r.status <= status[r.id] /\ kind[r.id] # "none" /\ LogOf(kind[r.id]) = l
    BY DEF OrdersInv, LogFits
  <2>3. CASE r.id # o
    BY <1>1, <2>1, <2>2, <2>3
  <2>4. CASE r.id = o
    <3>1. o \in Logged(logs[l])
      BY <2>4 DEF Logged
    <3>2. ~ToSave(kind[o], at[o])
      BY <1>4, <3>1
    <3>3. kind'[o] = kind[o] /\ status'[o] = status[o]
      BY <1>1, <2>2, <2>4, <3>2 DEF Moves
    <3> QED BY <2>2, <2>4, <3>3
  <2> QED BY <2>3, <2>4
<1>6. ASSUME NEW p \in Polls PROVE PollFits(p)'
  <2> SUFFICES ASSUME poll[p] # NoPoll PROVE PollFits(p)'
    BY <1>1 DEF PollFits, NoPoll
  <2>1. PollFits(p)
    BY DEF OrdersInv
  <2> DEFINE x == poll[p].order
  <2>2. /\ x \in Operations /\ poll[p].answer \in Nat /\ poll[p].answer <= status[x]
        /\ ~ToSave(kind[x], at[x])
    BY <2>1 DEF PollFits
  <2>3. status'[x] = status[x] /\ ~ToSave(kind'[x], at'[x])
    <3>1. CASE x # o
      BY <1>1, <2>2, <3>1
    <3>2. CASE x = o
      BY <1>1, <2>2, <3>2 DEF Moves
    <3> QED BY <3>1, <3>2
  <2> QED BY <1>1, <2>1, <2>2, <2>3 DEF PollFits, NoPoll
<1> QED BY <1>2, <1>3, <1>5, <1>6 DEF OrdersInv

\* What an operation does where its order, its spend and its record stay as they
\* are, and where it goes from there.
Onward(o, n) ==
  /\ kind[o] \in DOMAIN Flow /\ n \in Nat
  /\ n # 0 => n \in 1 .. Len(Flow[kind[o]])
  /\ n # 0 /\ ~ToOrder(kind[o], n) => ~ToOrder(kind[o], at[o])
  /\ n # 0 /\ ~ToRecord(kind[o], n) => ~ToRecord(kind[o], at[o])
  /\ ToSave(kind[o], n) => ToSave(kind[o], at[o])
  /\ kind[o] = "gift" /\ n > 3 => at[o] > 3
  /\ kind[o] = "shift" /\ n > 8 => at[o] > 8
  /\ kind[o] = "shift" => at[o] # 8

LEMMA PlainSteps ==
  ASSUME OrdersInv, NEW o \in Operations, at[o] # 0,
         Doing(o) \notin {"order", "record", "broadcast", "save"}, Advance(o)
  PROVE  \E n \in Nat : at' = [at EXCEPT ![o] = n] /\ Onward(o, n)
<1>1. CASE kind[o] = "shift"
  <2>1. PICK n \in Nat : /\ at' = [at EXCEPT ![o] = n]
                        /\ \/ at[o] \in {1, 2, 3, 5} /\ n = at[o] + 1
                           \/ at[o] = 9 /\ n = 0
    BY <1>1, Stations DEF At, ShiftAt
  <2>2. Onward(o, n)
    BY <1>1, <2>1, TheFlows DEF Onward, ToOrder, ToRecord, ToSave
  <2> QED BY <2>1, <2>2
<1>2. CASE kind[o] = "receive"
  <2>1. PICK n \in Nat : /\ at' = [at EXCEPT ![o] = n]
                        /\ at[o] \in 1 .. 4 /\ n = at[o] + 1
    BY <1>2, Stations DEF At, ReceiveAt
  <2>2. Onward(o, n)
    BY <1>2, <2>1, TheFlows DEF Onward, ToOrder, ToRecord, ToSave
  <2> QED BY <2>1, <2>2
<1>3. CASE kind[o] = "pegOut"
  <2>1. PICK n \in Nat : /\ at' = [at EXCEPT ![o] = n]
                        /\ \/ at[o] \in {1, 2, 3, 5} /\ n = at[o] + 1
                           \/ at[o] = 8 /\ n = 0
    BY <1>3, Stations DEF At, PegOutAt
  <2>2. Onward(o, n)
    BY <1>3, <2>1, TheFlows DEF Onward, ToOrder, ToRecord, ToSave
  <2> QED BY <2>1, <2>2
<1>4. CASE kind[o] = "gift"
  <2>1. PICK n \in Nat : /\ at' = [at EXCEPT ![o] = n]
                        /\ \/ at[o] \in {1, 4, 5, 6, 7, 10} /\ n = at[o] + 1
                           \/ at[o] = 11 /\ n = 0
    BY <1>4, Stations DEF At, GiftAt
  <2>2. Onward(o, n)
    BY <1>4, <2>1, TheFlows DEF Onward, ToOrder, ToRecord, ToSave
  <2> QED BY <2>1, <2>2
<1> QED BY <1>1, <1>2, <1>3, <1>4, Stations

LEMMA PlainFits ==
  ASSUME OrdersInv, NEW o \in Operations, NEW n, Onward(o, n), at' = [at EXCEPT ![o] = n],
         UNCHANGED <<kind, status, booked, paid, logs, poll, raced, unsaved, lost>>, at[o] # 0
  PROVE  OrdersInv'
<1>1. Moves(o, kind[o], n)
  <2>1. kind' = [kind EXCEPT ![o] = kind[o]]
    BY DEF OrdersInv, OrderTypes
  <2>2. status' \in [Operations -> Nat]
    BY DEF OrdersInv, OrderTypes
  <2> QED BY <2>1, <2>2 DEF Moves, Onward
<1>2. OrderFits(o)'
  <2>1. at'[o] = n /\ OrderFits(o) /\ kind[o] # "none"
    BY TheFlows DEF OrdersInv, OrderTypes, Onward
  <2>2. /\ kind' = kind /\ status' = status /\ booked' = booked /\ paid' = paid
        /\ logs' = logs /\ unsaved' = unsaved /\ lost' = lost
    OBVIOUS
  <2> QED BY <2>1, <2>2 DEF Onward, OrderFits, Kept
<1> QED BY <1>1, <1>2, OneMoves

\* What the properties speak of stays as it is.
LEMMA OrdersStay ==
  ASSUME OrdersInv, UNCHANGED <<kind, at, status, booked, paid, logs, poll, raced, unsaved, lost>>
  PROVE  OrdersInv'
<1>1. /\ kind' = kind /\ at' = at /\ status' = status /\ booked' = booked /\ paid' = paid
      /\ logs' = logs /\ poll' = poll /\ raced' = raced /\ unsaved' = unsaved /\ lost' = lost
  OBVIOUS
<1>2. OrderTypes'
  BY <1>1, Zenon DEF OrdersInv, OrderTypes
<1>3. \A o \in Operations : OrderFits(o)'
  BY <1>1 DEF OrdersInv, OrderFits, Kept
<1>4. LogFits("shift")' /\ LogFits("gift")'
  BY <1>1 DEF OrdersInv, LogFits
<1>5. \A p \in Polls : PollFits(p)'
  BY <1>1 DEF OrdersInv, PollFits
<1> QED BY <1>2, <1>3, <1>4, <1>5 DEF OrdersInv

LEMMA StepRequest == ASSUME OrdersInv, NEW o \in Operations, NEW k \in OrderKinds, Request(o, k)
                     PROVE  OrdersInv'
<1>1. k \in DOMAIN Flow
  BY OrdersAssumption
<1>2. kind[o] = "none" /\ at[o] = 0 /\ ToSave(kind[o], at[o])
  BY DEF Request, OrdersInv, OrderFits, ToSave
<1>3. Moves(o, k, 1)
  BY <1>1, <1>2 DEF Request, Moves, OrdersInv, OrderTypes
<1>4. OrderFits(o)'
  <2>1. /\ kind'[o] = k /\ at'[o] = 1 /\ status' = status /\ booked' = booked /\ paid' = paid
        /\ logs' = logs /\ unsaved' = unsaved /\ lost' = lost
    BY DEF Request, OrdersInv, OrderTypes
  <2>2. OrderFits(o)
    BY DEF OrdersInv
  <2>3. /\ k \in {"shift", "receive", "pegOut", "gift"}
        /\ 1 \in 1 .. Len(Flow[k]) /\ ToOrder(k, 1) /\ ToRecord(k, 1)
    BY <1>1, TheFlows DEF ToOrder, ToRecord
  <2>4. o \notin Logged(logs["shift"]) /\ o \notin Logged(logs["gift"]) /\ o \notin paid
    BY <1>2, <2>2 DEF OrderFits
  <2> QED BY <2>1, <2>3, <2>4 DEF OrderFits
<1> QED BY <1>3, <1>4, OneMoves

\* The steps that only go on, and the gate of the shop.
LEMMA StepPlain ==
  ASSUME OrdersInv, NEW o \in Operations,
         Queue(o) \/ EnterSection(o) \/ Allow(o) \/ Sign(o) \/ Patch(o) \/ Leave(o)
  PROVE  OrdersInv'
<1>1. /\ Doing(o) \in {"queue", "enter", "enforce", "address", "sign", "patch", "leave"}
      /\ Advance(o)
      /\ UNCHANGED <<kind, status, booked, paid, logs, poll, raced, unsaved, lost>>
  <2>1. CASE Queue(o)
    BY <2>1 DEF Queue
  <2>2. CASE EnterSection(o)
    BY <2>2 DEF EnterSection
  <2>3. CASE Allow(o)
    BY <2>3 DEF Allow
  <2>4. CASE Sign(o)
    BY <2>4 DEF Sign
  <2>5. CASE Patch(o)
    BY <2>5 DEF Patch
  <2>6. CASE Leave(o)
    BY <2>6 DEF Leave
  <2> QED BY <2>1, <2>2, <2>3, <2>4, <2>5, <2>6
<1>2. at[o] # 0
  BY <1>1 DEF Doing
<1> QED BY <1>1, <1>2, PlainSteps, PlainFits

LEMMA StepGate == ASSUME OrdersInv, NEW o \in Operations, Gate(o) PROVE OrdersInv'
<1>1. /\ Doing(o) = "gate" /\ at[o] # 0
      /\ UNCHANGED <<kind, status, booked, paid, logs, poll, raced, unsaved, lost>>
      /\ Advance(o) \/ End(o) \/ UNCHANGED at
  BY DEF Gate, Doing
<1>2. CASE Advance(o)
  BY <1>1, <1>2, PlainSteps, PlainFits
<1>3. CASE End(o)
  <2>1. kind[o] = "gift" /\ at[o] = 1
    BY <1>1, Stations DEF At, ShiftAt, ReceiveAt, PegOutAt, GiftAt
  <2>2. Onward(o, 0)
    BY <2>1, TheFlows DEF Onward, ToSave
  <2> QED BY <1>1, <1>3, <2>2, PlainFits DEF End
<1>4. CASE UNCHANGED at
  BY <1>1, <1>4, OrdersStay
<1> QED BY <1>1, <1>2, <1>3, <1>4

LEMMA StepCreate == ASSUME OrdersInv, NEW o \in Operations, CreateOrder(o) PROVE OrdersInv'
<1>1. /\ Doing(o) = "order" /\ at[o] # 0 /\ Advance(o)
      /\ UNCHANGED <<kind, booked, paid, logs, poll, raced, unsaved, lost>>
      /\ status' = [status EXCEPT ![o] = 1]
  BY DEF CreateOrder, Doing
<1>2. \/ At(o, "shift", 4, "order", 5) \/ At(o, "receive", 5, "order", 6)
      \/ At(o, "pegOut", 4, "order", 5) \/ At(o, "gift", 2, "order", 3)
  BY <1>1, Stations DEF At, ShiftAt, ReceiveAt, PegOutAt, GiftAt
<1>n. PICK n \in Nat : /\ at' = [at EXCEPT ![o] = n]
                       /\ \/ kind[o] = "shift" /\ at[o] = 4 /\ n = 5
                          \/ kind[o] = "receive" /\ at[o] = 5 /\ n = 6
                          \/ kind[o] = "pegOut" /\ at[o] = 4 /\ n = 5
                          \/ kind[o] = "gift" /\ at[o] = 2 /\ n = 3
  BY <1>1, <1>2 DEF At
<1>3. /\ at' = [at EXCEPT ![o] = n]
      /\ n \in 1 .. Len(Flow[kind[o]])
      /\ ToSave(kind[o], n) /\ ToSave(kind[o], at[o]) /\ ToRecord(kind[o], n)
      /\ kind[o] \in DOMAIN Flow
      /\ kind[o] = "gift" => n <= 3
      /\ kind[o] = "shift" => at[o] = 4 /\ n = 5
  <2>1. CASE kind[o] = "shift"
    BY <1>n, <2>1, FlowLengths DEF ToSave, ToRecord
  <2>2. CASE kind[o] = "receive"
    BY <1>n, <2>2, FlowLengths DEF ToSave, ToRecord
  <2>3. CASE kind[o] = "pegOut"
    BY <1>n, <2>3, FlowLengths DEF ToSave, ToRecord
  <2>4. CASE kind[o] = "gift"
    BY <1>n, <2>4, FlowLengths DEF ToSave, ToRecord
  <2> QED BY <1>n, <2>1, <2>2, <2>3, <2>4
<1>4. Moves(o, kind[o], n)
  <2>1. kind' = [kind EXCEPT ![o] = kind[o]]
    BY <1>1 DEF OrdersInv, OrderTypes
  <2>2. status' \in [Operations -> Nat] /\ \A x \in Operations \ {o} : status'[x] = status[x]
    BY <1>1 DEF OrdersInv, OrderTypes
  <2> QED BY <1>1, <1>3, <2>1, <2>2 DEF Moves
<1>5. OrderFits(o)'
  <2>1. /\ kind' = kind /\ at'[o] = n /\ status'[o] = 1 /\ booked' = booked /\ paid' = paid
        /\ logs' = logs /\ unsaved' = unsaved /\ lost' = lost /\ kind[o] # "none"
    BY <1>1, <1>3, TheFlows DEF OrdersInv, OrderTypes
  <2>2. OrderFits(o)
    BY DEF OrdersInv
  <2> QED BY <1>3, <2>1, <2>2 DEF OrderFits, Kept
<1> QED BY <1>4, <1>5, OneMoves

LEMMA StepRecord == ASSUME OrdersInv, NEW o \in Operations, RecordOrderSpend(o) PROVE OrdersInv'
<1>1. /\ Doing(o) = "record" /\ at[o] # 0 /\ Advance(o)
      /\ UNCHANGED <<kind, status, paid, logs, poll, raced, unsaved, lost>>
      /\ booked' = booked \cup {o}
  BY DEF RecordOrderSpend, Doing
<1>2. \/ At(o, "shift", 6, "record", 7) \/ At(o, "pegOut", 6, "record", 7)
      \/ At(o, "gift", 8, "record", 9)
  BY <1>1, Stations DEF At, ShiftAt, ReceiveAt, PegOutAt, GiftAt
<1>n. PICK n \in Nat : /\ at' = [at EXCEPT ![o] = n]
                       /\ \/ kind[o] = "shift" /\ at[o] = 6 /\ n = 7
                          \/ kind[o] = "pegOut" /\ at[o] = 6 /\ n = 7
                          \/ kind[o] = "gift" /\ at[o] = 8 /\ n = 9
  BY <1>1, <1>2 DEF At
<1>3. /\ at' = [at EXCEPT ![o] = n]
      /\ n \in 1 .. Len(Flow[kind[o]])
      /\ ToSave(kind[o], n) => ToSave(kind[o], at[o])
      /\ ~ToOrder(kind[o], at[o])
      /\ kind[o] \in {"shift", "pegOut", "gift"}
      /\ kind[o] = "gift" => at[o] > 3
      /\ kind[o] = "shift" => n = 7
      /\ kind[o] = "shift" => at[o] = 6
  <2>1. CASE kind[o] = "shift"
    BY <1>n, <2>1, FlowLengths DEF ToSave, ToOrder
  <2>2. CASE kind[o] = "pegOut"
    BY <1>n, <2>2, FlowLengths DEF ToSave, ToOrder
  <2>3. CASE kind[o] = "gift"
    BY <1>n, <2>3, FlowLengths DEF ToSave, ToOrder
  <2> QED BY <1>n, <2>1, <2>2, <2>3
<1>4. Moves(o, kind[o], n)
  <2>1. kind' = [kind EXCEPT ![o] = kind[o]]
    BY <1>1 DEF OrdersInv, OrderTypes
  <2>2. status' \in [Operations -> Nat] /\ \A x \in Operations \ {o} : status'[x] = status[x]
    BY <1>1 DEF OrdersInv, OrderTypes
  <2> QED BY <1>1, <1>3, <2>1, <2>2, TheFlows DEF Moves
<1>5. OrderFits(o)'
  <2>1. /\ kind' = kind /\ at'[o] = n /\ status' = status /\ booked' = booked \cup {o} /\ paid' = paid
        /\ logs' = logs /\ unsaved' = unsaved /\ lost' = lost /\ kind[o] # "none"
    BY <1>1, <1>3, TheFlows DEF OrdersInv, OrderTypes
  <2>2. OrderFits(o)
    BY DEF OrdersInv
  <2>3. Kept(o)' <=> Kept(o)
    BY <2>1 DEF Kept
  <2>4. /\ status[o] >= 1 /\ o \in booked'
        /\ ToSave(kind[o], n) => o \notin Logged(logs["shift"]) /\ o \notin Logged(logs["gift"])
        /\ kind[o] = "gift" => Kept(o)
    BY <1>1, <1>3, <2>1, <2>2 DEF OrderFits
  <2>5. o \in paid' => Kept(o) \/ kind[o] = "pegOut" \/ (kind[o] = "shift" /\ (n = 8 \/ o \in lost))
    <3>1. kind[o] \in {"shift", "pegOut"} \/ Kept(o)
      BY <1>3, <2>4, TheFlows
    <3>2. o \in paid => Kept(o) \/ kind[o] = "pegOut" \/ (kind[o] = "shift" /\ (at[o] = 8 \/ o \in lost))
      BY <2>2 DEF OrderFits
    <3> QED BY <1>1, <1>3, <3>1, <3>2
  <2> QED BY <1>3, <2>1, <2>3, <2>4, <2>5 DEF OrderFits
<1> QED BY <1>4, <1>5, OneMoves

\* A payment goes out after it was counted, and a card's after its record was kept.
LEMMA StepBroadcast == ASSUME OrdersInv, NEW o \in Operations, Broadcast(o) PROVE OrdersInv'
<1>1. /\ Doing(o) = "broadcast" /\ at[o] # 0 /\ Advance(o)
      /\ UNCHANGED <<kind, status, booked, logs, poll, raced, unsaved, lost>>
      /\ paid' = paid \cup {o}
  BY DEF Broadcast, Doing
<1>2. \/ At(o, "shift", 7, "broadcast", 8) \/ At(o, "pegOut", 7, "broadcast", 8)
      \/ At(o, "gift", 9, "broadcast", 10)
  BY <1>1, Stations DEF At, ShiftAt, ReceiveAt, PegOutAt, GiftAt
<1>n. PICK n \in Nat : /\ at' = [at EXCEPT ![o] = n]
                       /\ \/ kind[o] = "shift" /\ at[o] = 7 /\ n = 8
                          \/ kind[o] = "pegOut" /\ at[o] = 7 /\ n = 8
                          \/ kind[o] = "gift" /\ at[o] = 9 /\ n = 10
  BY <1>1, <1>2 DEF At
<1>3. /\ at' = [at EXCEPT ![o] = n]
      /\ n \in 1 .. Len(Flow[kind[o]])
      /\ ToSave(kind[o], n) => ToSave(kind[o], at[o])
      /\ ~ToOrder(kind[o], at[o]) /\ ~ToRecord(kind[o], at[o])
      /\ kind[o] \in {"shift", "pegOut", "gift"}
      /\ kind[o] = "gift" => at[o] > 3
      /\ kind[o] = "shift" => n = 8
  <2>1. CASE kind[o] = "shift"
    BY <1>n, <2>1, FlowLengths DEF ToSave, ToOrder, ToRecord
  <2>2. CASE kind[o] = "pegOut"
    BY <1>n, <2>2, FlowLengths DEF ToSave, ToOrder, ToRecord
  <2>3. CASE kind[o] = "gift"
    BY <1>n, <2>3, FlowLengths DEF ToSave, ToOrder, ToRecord
  <2> QED BY <1>n, <2>1, <2>2, <2>3
<1>4. Moves(o, kind[o], n)
  <2>1. kind' = [kind EXCEPT ![o] = kind[o]]
    BY <1>1 DEF OrdersInv, OrderTypes
  <2>2. status' \in [Operations -> Nat] /\ \A x \in Operations \ {o} : status'[x] = status[x]
    BY <1>1 DEF OrdersInv, OrderTypes
  <2> QED BY <1>1, <1>3, <2>1, <2>2, TheFlows DEF Moves
<1>5. OrderFits(o)'
  <2>1. /\ kind' = kind /\ at'[o] = n /\ status' = status /\ booked' = booked /\ paid' = paid \cup {o}
        /\ logs' = logs /\ unsaved' = unsaved /\ lost' = lost
    BY <1>1, <1>3 DEF OrdersInv, OrderTypes
  <2>2. OrderFits(o)
    BY DEF OrdersInv
  <2>3. Kept(o)' <=> Kept(o)
    BY <2>1 DEF Kept
  <2>4. /\ status[o] >= 1 /\ o \in booked'
        /\ ToSave(kind[o], n) => o \notin Logged(logs["shift"]) /\ o \notin Logged(logs["gift"])
        /\ kind[o] = "gift" => Kept(o)
    BY <1>1, <1>3, <2>1, <2>2 DEF OrderFits
  <2>5. o \in paid' => Kept(o) \/ kind[o] = "pegOut" \/ (kind[o] = "shift" /\ (n = 8 \/ o \in lost))
    <3>1. kind[o] \in {"shift", "pegOut"} \/ Kept(o)
      BY <1>3, <2>4, TheFlows
    <3>2. o \in paid => Kept(o) \/ kind[o] = "pegOut" \/ (kind[o] = "shift" /\ (at[o] = 8 \/ o \in lost))
      BY <2>2 DEF OrderFits
    <3> QED BY <1>1, <1>3, <3>1, <3>2
  <2> QED BY <1>3, <2>1, <2>3, <2>4, <2>5 DEF OrderFits
<1> QED BY <1>4, <1>5, OneMoves

\* The operation ends; an order it asked for exists, a payment it sent may be out.
LEMMA StepFails == ASSUME OrdersInv, NEW o \in Operations, OperationFails(o) PROVE OrdersInv'
<1>1. /\ Doing(o) \in {"enforce", "address", "order", "sign", "record", "broadcast"} /\ at[o] # 0
      /\ at' = [at EXCEPT ![o] = 0]
      /\ UNCHANGED <<kind, booked, logs, poll, raced, unsaved>>
      /\ \/ Doing(o) = "order" /\ status' = [status EXCEPT ![o] = 1] /\ UNCHANGED <<paid, lost>>
         \/ Doing(o) = "broadcast" /\ paid' = paid \cup {o} /\ lost' = lost \cup {o} /\ UNCHANGED status
         \/ UNCHANGED <<status, paid, lost>>
  BY DEF OperationFails, Doing, End
<1>2. /\ kind[o] \in DOMAIN Flow
      /\ Doing(o) = "order" => ToSave(kind[o], at[o])
      /\ Doing(o) = "broadcast" => /\ ~ToRecord(kind[o], at[o]) /\ kind[o] \in {"shift", "pegOut", "gift"}
                                   /\ kind[o] = "gift" => at[o] > 3
      /\ kind[o] = "shift" => at[o] < 8
  <2>1. Doing(o) \in {"enforce", "address", "order", "sign", "record", "broadcast"} /\ at[o] # 0
    BY <1>1
  <2>2. \/ /\ kind[o] = "shift"
           /\ \/ at[o] \in {3, 5, 6} /\ Doing(o) \notin {"order", "broadcast"}
              \/ at[o] = 4 /\ Doing(o) = "order"
              \/ at[o] = 7 /\ Doing(o) = "broadcast"
        \/ /\ kind[o] = "receive"
           /\ \/ at[o] = 3 /\ Doing(o) = "address"
              \/ at[o] = 5 /\ Doing(o) = "order"
        \/ kind[o] = "pegOut" /\ (Doing(o) = "broadcast" => at[o] = 7)
        \/ /\ kind[o] = "gift"
           /\ \/ at[o] = 2 /\ Doing(o) = "order"
              \/ at[o] \in {6, 7, 8} /\ Doing(o) \notin {"order", "broadcast"}
              \/ at[o] = 9 /\ Doing(o) = "broadcast"
    <3>1. CASE kind[o] = "shift"
      BY <2>1, <3>1, Stations DEF At, ShiftAt
    <3>2. CASE kind[o] = "receive"
      BY <2>1, <3>2, Stations DEF At, ReceiveAt
    <3>3. CASE kind[o] = "pegOut"
      BY <2>1, <3>3, Stations DEF At, PegOutAt
    <3>4. CASE kind[o] = "gift"
      BY <2>1, <3>4, Stations DEF At, GiftAt
    <3> QED BY <2>1, <3>1, <3>2, <3>3, <3>4, Stations
  <2> QED BY <2>2, TheFlows DEF ToSave, ToRecord
<1>3. kind[o] \in {"shift", "receive", "pegOut", "gift"}
  BY <1>2, TheFlows
<1>4. ToSave(kind[o], 0) => kind[o] = "pegOut"
  BY <1>3 DEF ToSave
<1>5. Moves(o, kind[o], 0)
  <2>1. kind' = [kind EXCEPT ![o] = kind[o]]
    BY <1>1 DEF OrdersInv, OrderTypes
  <2>2. /\ status' \in [Operations -> Nat]
        /\ \A x \in Operations \ {o} : status'[x] = status[x]
        /\ status'[o] = status[o] \/ Doing(o) = "order"
    BY <1>1 DEF OrdersInv, OrderTypes
  <2>3. ToSave(kind[o], 0) => ToSave(kind[o], at[o])
    BY <1>4 DEF ToSave
  <2>4. paid' \in {paid, paid \cup {o}} /\ lost' \in {lost, lost \cup {o}}
    BY <1>1
  <2> QED BY <1>1, <1>2, <2>1, <2>2, <2>3, <2>4 DEF Moves
<1>6. OrderFits(o)'
  <2>1. kind' = kind /\ at'[o] = 0 /\ booked' = booked /\ logs' = logs /\ unsaved' = unsaved
    BY <1>1 DEF OrdersInv, OrderTypes
  <2>2. OrderFits(o)
    BY DEF OrdersInv
  <2>3. ToSave(kind[o], 0) => o \notin Logged(logs["shift"]) /\ o \notin Logged(logs["gift"])
    BY <1>4, <2>2 DEF OrderFits, ToSave
  <2>4. ASSUME o \in paid'
        PROVE  /\ o \in booked
               /\ \/ Kept(o) \/ kind[o] = "pegOut"
                  \/ kind[o] = "shift" /\ o \in lost'
    <3>1. CASE o \in paid
      BY <1>1, <1>2, <2>2, <3>1 DEF OrderFits
    <3>2. CASE o \notin paid
      BY <1>1, <1>2, <2>2, <2>4, <3>2 DEF OrderFits
    <3> QED BY <3>1, <3>2
  <2> QED BY <1>3, <2>1, <2>3, <2>4 DEF OrderFits, Kept
<1> QED BY <1>5, <1>6, OneMoves

LEMMA StepConfig == ASSUME OrdersInv, ConfigArrives \/ ConfigUnreachable PROVE OrdersInv'
<1>1. /\ UNCHANGED <<kind, status, booked, paid, logs, poll, raced, unsaved, lost>>
      /\ at' \in [Operations -> Nat]
      /\ \A o \in Operations : o \in Asking => at'[o] \in {0, 2}
      /\ \A o \in Operations : o \notin Asking => at'[o] = at[o]
  <2>1. at \in [Operations -> Nat]
    BY DEF OrdersInv, OrderTypes
  <2>2. CASE ConfigArrives
    BY <2>1, <2>2 DEF ConfigArrives
  <2>3. CASE ConfigUnreachable
    BY <2>1, <2>3 DEF ConfigUnreachable
  <2> QED BY <2>2, <2>3
<1>2. \A o \in Operations : at'[o] = at[o] \/ (kind[o] = "gift" /\ at[o] = 1 /\ at'[o] \in {0, 2})
  <2> SUFFICES ASSUME NEW o \in Asking PROVE kind[o] = "gift" /\ at[o] = 1
    BY <1>1
  <2>1. o \in Operations /\ Doing(o) = "gate" /\ at[o] # 0
    BY DEF Asking, Doing
  <2> QED BY <2>1, Stations DEF At, ShiftAt, ReceiveAt, PegOutAt, GiftAt
<1>3. /\ kind' = kind /\ status' = status /\ booked' = booked /\ paid' = paid
      /\ logs' = logs /\ poll' = poll /\ raced' = raced /\ unsaved' = unsaved /\ lost' = lost
  BY <1>1
<1>4. OrderTypes'
  BY <1>1, <1>3, Zenon DEF OrdersInv, OrderTypes
<1>5. ASSUME NEW o \in Operations PROVE OrderFits(o)'
  <2>1. OrderFits(o)
    BY DEF OrdersInv
  <2>2. CASE at'[o] = at[o]
    BY <1>3, <2>1, <2>2 DEF OrderFits, Kept
  <2>3. CASE kind[o] = "gift" /\ at[o] = 1 /\ at'[o] \in {0, 2}
    <3>1. ToOrder("gift", 2) /\ ToRecord("gift", 2) /\ ToSave("gift", 1) /\ ~ToSave("gift", 0)
          /\ 2 \in 1 .. Len(Flow["gift"])
      BY TheFlows DEF ToOrder, ToRecord, ToSave
    <3> QED BY <1>3, <2>1, <2>3, <3>1 DEF OrderFits, Kept
  <2> QED BY <1>2, <2>2, <2>3
<1>6. LogFits("shift")' /\ LogFits("gift")'
  BY <1>3 DEF OrdersInv, LogFits
<1>7. ASSUME NEW p \in Polls PROVE PollFits(p)'
  <2>1. PollFits(p)
    BY DEF OrdersInv
  <2>2. ASSUME NEW o \in Operations, ~ToSave(kind[o], at[o]) PROVE ~ToSave(kind[o], at'[o])
    BY <1>2, <2>2 DEF ToSave
  <2> QED BY <1>3, <2>1, <2>2 DEF PollFits
<1> QED BY <1>4, <1>5, <1>6, <1>7 DEF OrdersInv

\* What is in the logs when the record of o was saved in log l.
Saved(o, l) ==
  /\ logs' = [k \in {"shift", "gift"} |-> logs'[k]]
  /\ o \in Logged(logs'[l])
  /\ \A k \in {"shift", "gift"} :
       /\ IsLog(logs'[k])
       /\ Logged(logs[k]) \subseteq Logged(logs'[k]) \/ Full(logs'[k])
       /\ Full(logs[k]) => Full(logs'[k])
       /\ Logged(logs'[k]) \subseteq Logged(logs[k]) \cup {o}
       /\ k # l => logs'[k] = logs[k]
       /\ \A i \in DOMAIN logs'[k] : \/ k = l /\ logs'[k][i] = [id |-> o, status |-> 1]
                                     \/ /\ logs'[k][i].id # o \/ k # l
                                        /\ \E j \in DOMAIN logs[k] : logs'[k][i] = logs[k][j]

LEMMA SavedLogs ==
  ASSUME OrdersInv, NEW o \in Operations, NEW l \in {"shift", "gift"},
         o \notin Logged(logs[l]),
         logs' = [logs EXCEPT ![l] = Save(@, [id |-> o, status |-> 1])]
  PROVE  Saved(o, l)
<1> DEFINE rec == [id |-> o, status |-> 1]
           new == Save(logs[l], rec)
<1>1. IsLog(logs["shift"]) /\ IsLog(logs["gift"]) /\ logs = [k \in {"shift", "gift"} |-> logs[k]]
  BY DEF OrdersInv, OrderTypes
<1>2. rec \in Recs /\ rec.id = o
  BY DEF Recs
<1>3. /\ IsLog(new)
      /\ o \in Logged(new)
      /\ Logged(new) \subseteq Logged(logs[l]) \cup {o}
      /\ \A i \in DOMAIN new : new[i] = rec \/ (new[i].id # o /\ \E j \in DOMAIN logs[l] : new[i] = logs[l][j])
      /\ Full(logs[l]) => Full(new)
      /\ Logged(logs[l]) \subseteq Logged(new) \/ Full(new)
  <2> HIDE DEF rec
  <2>1. IsLog(logs[l])
    BY <1>1
  <2> QED BY <1>2, <2>1, SaveAddsOne
<1>4. logs'[l] = new /\ \A k \in {"shift", "gift"} \ {l} : logs'[k] = logs[k]
  BY <1>1
<1>5. logs' = [k \in {"shift", "gift"} |-> logs'[k]]
  BY <1>1
<1> HIDE DEF new, rec
<1>6. ASSUME NEW k \in {"shift", "gift"}
      PROVE  /\ IsLog(logs'[k])
             /\ Logged(logs[k]) \subseteq Logged(logs'[k]) \/ Full(logs'[k])
             /\ Full(logs[k]) => Full(logs'[k])
             /\ Logged(logs'[k]) \subseteq Logged(logs[k]) \cup {o}
             /\ k # l => logs'[k] = logs[k]
             /\ \A i \in DOMAIN logs'[k] : \/ k = l /\ logs'[k][i] = rec
                                           \/ /\ logs'[k][i].id # o \/ k # l
                                              /\ \E j \in DOMAIN logs[k] : logs'[k][i] = logs[k][j]
  <2>1. CASE k = l
    BY <1>3, <1>4, <2>1
  <2>2. CASE k # l
    <3>1. logs'[k] = logs[k] /\ IsLog(logs[k])
      BY <1>1, <1>4, <2>2
    <3> QED BY <2>2, <3>1
  <2> QED BY <2>1, <2>2
<1> QED BY <1>3, <1>4, <1>5, <1>6 DEF rec, Saved

\* The record of an order is written, or cannot be.
LEMMA StepSave == ASSUME OrdersInv, NEW o \in Operations, SaveOrder(o) PROVE OrdersInv'
<1>1. /\ Doing(o) = "save" /\ at[o] # 0 /\ Advance(o)
      /\ UNCHANGED <<kind, status, booked, paid, poll, raced, lost>>
      /\ \/ /\ logs' = [logs EXCEPT ![LogOf(kind[o])] = Save(@, [id |-> o, status |-> 1])]
            /\ UNCHANGED unsaved
         \/ unsaved' = unsaved \cup {o} /\ UNCHANGED logs
  BY DEF SaveOrder, Doing
<1>2. \/ At(o, "shift", 8, "save", 9) \/ At(o, "receive", 6, "save", 0)
      \/ At(o, "gift", 3, "save", 4)
  BY <1>1, Stations DEF At, ShiftAt, ReceiveAt, PegOutAt, GiftAt
<1>n. PICK n \in Nat : /\ at' = [at EXCEPT ![o] = n]
                       /\ \/ kind[o] = "shift" /\ at[o] = 8 /\ n = 9
                          \/ kind[o] = "receive" /\ at[o] = 6 /\ n = 0
                          \/ kind[o] = "gift" /\ at[o] = 3 /\ n = 4
  BY <1>1, <1>2 DEF At
<1>3. /\ at' = [at EXCEPT ![o] = n]
      /\ n # 0 => n \in 1 .. Len(Flow[kind[o]])
      /\ ~ToSave(kind[o], n) /\ ToSave(kind[o], at[o])
      /\ ~ToOrder(kind[o], at[o])
      /\ ~ToRecord(kind[o], n) => ~ToRecord(kind[o], at[o])
      /\ kind[o] \in {"shift", "receive", "gift"}
      /\ n # 8
  <2>1. CASE kind[o] = "shift"
    BY <1>n, <2>1, FlowLengths DEF ToSave, ToOrder, ToRecord
  <2>2. CASE kind[o] = "receive"
    BY <1>n, <2>2, FlowLengths DEF ToSave, ToOrder, ToRecord
  <2>3. CASE kind[o] = "gift"
    BY <1>n, <2>3, FlowLengths DEF ToSave, ToOrder, ToRecord
  <2> QED BY <1>n, <2>1, <2>2, <2>3
<1>4. /\ OrderFits(o) /\ status[o] >= 1
      /\ o \notin Logged(logs["shift"]) /\ o \notin Logged(logs["gift"])
      /\ n # 0 /\ ~ToRecord(kind[o], n) => o \in booked
      /\ o \in paid => o \in booked
  BY <1>1, <1>3 DEF OrdersInv, OrderFits
<1>5. /\ kind' = kind /\ status' = status /\ booked' = booked /\ paid' = paid
      /\ poll' = poll /\ raced' = raced /\ lost' = lost /\ at'[o] = n
      /\ at' \in [Operations -> Nat] /\ \A x \in Operations \ {o} : at'[x] = at[x]
  BY <1>1, <1>3 DEF OrdersInv, OrderTypes
\* Where its record ends up.
<1>6. ASSUME Kept(o)' PROVE OrderFits(o)'
  BY <1>3, <1>4, <1>5, <1>6 DEF OrderFits
<1>7. CASE unsaved' = unsaved \cup {o} /\ UNCHANGED logs
  <2>1. kind' = [kind EXCEPT ![o] = kind[o]] /\ status' \in [Operations -> Nat]
    BY <1>5 DEF OrdersInv, OrderTypes
  <2>2. Moves(o, kind[o], n)
    BY <1>3, <1>5, <1>7, <2>1, TheFlows DEF Moves
  <2>3. Kept(o)'
    BY <1>7 DEF Kept
  <2> QED BY <1>6, <2>2, <2>3, OneMoves
<1>8. CASE logs' = [logs EXCEPT ![LogOf(kind[o])] = Save(@, [id |-> o, status |-> 1])] /\ UNCHANGED unsaved
  <2> DEFINE l == LogOf(kind[o])
             rec == [id |-> o, status |-> 1]
  <2>1. l \in {"shift", "gift"} /\ o \notin Logged(logs[l])
    BY <1>4 DEF LogOf
  <2>2. Saved(o, l)
    <3>1. logs' = [logs EXCEPT ![l] = Save(@, [id |-> o, status |-> 1])]
      BY <1>8
    <3> HIDE DEF l
    <3> QED BY <2>1, <3>1, SavedLogs
  <2> HIDE DEF l
  <2> USE DEF Saved
  <2>3. OrderTypes'
    <3>1. IsLog(logs'["shift"]) /\ IsLog(logs'["gift"]) /\ DOMAIN logs' = {"shift", "gift"}
      BY <2>2
    <3>2. unsaved' = unsaved
      BY <1>8
    <3> QED BY <1>5, <2>2, <3>1, <3>2, Zenon DEF OrdersInv, OrderTypes
  <2>4. ASSUME NEW x \in Operations PROVE OrderFits(x)'
    <3>1. LogOf(kind[x]) \in {"shift", "gift"}
      BY DEF LogOf
    <3>2. CASE x = o
      <4>1. Kept(o)'
        BY <1>5, <2>2 DEF Kept, l
      <4> QED BY <1>6, <3>2, <4>1
    <3>3. CASE x # o
      <4>1. OrderFits(x) /\ unsaved' = unsaved
        BY <1>8 DEF OrdersInv
      <4>2. Kept(x) => Kept(x)'
        BY <1>5, <2>2, <3>1, <4>1 DEF Kept
      <4>3. /\ x \notin Logged(logs["shift"]) => x \notin Logged(logs'["shift"])
            /\ x \notin Logged(logs["gift"]) => x \notin Logged(logs'["gift"])
        BY <2>2, <3>3
      <4> QED BY <1>5, <3>3, <4>1, <4>2, <4>3 DEF OrderFits
    <3> QED BY <3>2, <3>3
  <2>5. ASSUME NEW k \in {"shift", "gift"} PROVE LogFits(k)'
    <3> SUFFICES ASSUME NEW i \in DOMAIN logs'[k]
                 PROVE  /\ logs'[k][i].status <= status[logs'[k][i].id]
                        /\ kind[logs'[k][i].id] # "none" /\ LogOf(kind[logs'[k][i].id]) = k
      BY <1>5 DEF LogFits
    <3>1. CASE k = l /\ logs'[k][i] = rec
      BY <1>3, <1>4, <3>1 DEF l
    <3>2. CASE \E j \in DOMAIN logs[k] : logs'[k][i] = logs[k][j]
      BY <3>2 DEF OrdersInv, LogFits
    <3> QED BY <2>2, <3>1, <3>2
  <2>6. ASSUME NEW p \in Polls PROVE PollFits(p)'
    <3> SUFFICES ASSUME poll[p] # NoPoll PROVE PollFits(p)'
      BY <1>5 DEF PollFits, NoPoll
    <3> DEFINE x == poll[p].order
    <3>1. PollFits(p)
      BY DEF OrdersInv
    <3>2. x \in Operations /\ x # o
      BY <1>3, <3>1 DEF PollFits
    <3>3. ASSUME NEW k \in {"shift", "gift"}, NEW i \in DOMAIN logs'[k], logs'[k][i].id = x
          PROVE  \E j \in DOMAIN logs[k] : logs'[k][i] = logs[k][j]
      BY <2>2, <3>2, <3>3
    <3>4. x \notin raced => \A k \in {"shift", "gift"} : \A i \in DOMAIN logs'[k] :
              logs'[k][i].id = x => logs'[k][i].status <= poll[p].answer
      BY <3>1, <3>3 DEF PollFits
    <3>5. ~ToSave(kind[x], at'[x])
      BY <1>5, <3>1, <3>2 DEF PollFits
    <3> QED BY <1>5, <3>1, <3>4, <3>5 DEF PollFits, NoPoll
  <2> QED BY <2>3, <2>4, <2>5, <2>6 DEF OrdersInv
<1> QED BY <1>1, <1>7, <1>8

LEMMA StepProvider == ASSUME OrdersInv, NEW o \in Operations, ProviderMoves(o) PROVE OrdersInv'
<1>1. /\ UNCHANGED <<kind, at, booked, paid, logs, poll, raced, unsaved, lost>>
      /\ status[o] \in Nat /\ status' = [status EXCEPT ![o] = @ + 1]
  BY DEF ProviderMoves, OrdersInv, OrderTypes
<1>2. status' \in [Operations -> Nat] /\ \A x \in Operations : status[x] \in Nat /\ status'[x] >= status[x]
  BY <1>1 DEF OrdersInv, OrderTypes
<1>3. /\ kind' = kind /\ at' = at /\ booked' = booked /\ paid' = paid /\ logs' = logs
      /\ poll' = poll /\ raced' = raced /\ unsaved' = unsaved /\ lost' = lost
  BY <1>1
<1>4. OrderTypes'
  BY <1>2, <1>3, Zenon DEF OrdersInv, OrderTypes
<1>5. ASSUME NEW x \in Operations PROVE OrderFits(x)'
  <2>1. OrderFits(x)
    BY DEF OrdersInv
  <2>2. status[x] >= 1 => status'[x] >= 1
    BY <1>2
  <2> QED BY <1>3, <2>1, <2>2 DEF OrderFits, Kept
<1>6. ASSUME NEW k \in {"shift", "gift"} PROVE LogFits(k)'
  <2> SUFFICES ASSUME NEW i \in DOMAIN logs[k]
               PROVE  /\ logs[k][i].status <= status'[logs[k][i].id]
                      /\ kind[logs[k][i].id] # "none" /\ LogOf(kind[logs[k][i].id]) = k
    BY <1>3 DEF LogFits
  <2>1. LogFits(k) /\ IsLog(logs[k])
    BY DEF OrdersInv, OrderTypes
  <2>2. logs[k][i] \in Recs
    BY <2>1 DEF IsLog
  <2>3. logs[k][i].id \in Operations /\ logs[k][i].status \in Nat
    BY <2>2 DEF Recs
  <2> QED BY <1>2, <2>1, <2>3 DEF LogFits
<1>7. ASSUME NEW p \in Polls PROVE PollFits(p)'
  <2>1. PollFits(p)
    BY DEF OrdersInv
  <2> QED BY <1>2, <1>3, <2>1 DEF PollFits
<1> QED BY <1>4, <1>5, <1>6, <1>7 DEF OrdersInv

\* A status is asked for: the answer is the provider's word of that moment.
LEMMA StepAsk ==
  ASSUME OrdersInv, NEW p \in Polls, NEW o \in Operations,
         GetStatus(p, o) \/ GetOrderStatus(p, o) \/ RefreshShift(p, o)
  PROVE  OrdersInv'
<1>1. AskProvider(p, o)
  BY DEF GetStatus, GetOrderStatus, RefreshShift
<1>2. \/ o \in Logged(logs["shift"]) \/ o \in Logged(logs["gift"])
      \/ kind[o] \in {"shift", "receive", "gift"} /\ at[o] = 0
  <2>1. CASE RefreshShift(p, o)
    BY <2>1 DEF RefreshShift, Pending
  <2>2. CASE GetStatus(p, o) \/ GetOrderStatus(p, o)
    BY <2>2 DEF GetStatus, GetOrderStatus, Known, Here, LogOf
  <2> QED BY <2>1, <2>2
<1>3. ~ToSave(kind[o], at[o])
  BY <1>2 DEF OrdersInv, OrderFits, ToSave
<1>4. /\ kind' = kind /\ at' = at /\ status' = status /\ booked' = booked /\ paid' = paid
      /\ logs' = logs /\ unsaved' = unsaved /\ lost' = lost
      /\ poll' = [poll EXCEPT ![p] = [order |-> o, answer |-> status[o]]]
      /\ raced \subseteq raced' /\ raced' \subseteq Operations
      /\ \A q \in Polls : poll[q].order = o => o \in raced'
  BY <1>1 DEF AskProvider, OrdersInv, OrderTypes
<1>5. /\ poll' = [q \in Polls |-> poll'[q]]
      /\ poll'[p] = [order |-> o, answer |-> status[o]]
      /\ \A q \in Polls \ {p} : poll'[q] = poll[q]
  BY <1>4 DEF OrdersInv, OrderTypes
<1>6. OrderTypes'
  BY <1>4, <1>5, Zenon DEF OrdersInv, OrderTypes
<1>7. \A x \in Operations : OrderFits(x)'
  BY <1>4 DEF OrdersInv, OrderFits, Kept
<1>8. LogFits("shift")' /\ LogFits("gift")'
  BY <1>4 DEF OrdersInv, LogFits
<1>9. PollFits(p)'
  <2>1. poll'[p].order = o /\ poll'[p].answer = status[o] /\ status[o] \in Nat
    BY <1>5 DEF OrdersInv, OrderTypes
  <2>2. ASSUME o \notin raced' PROVE \A q \in Polls \ {p} : poll'[q].order # o
    BY <1>4, <1>5, <2>2
  <2>3. \A k \in {"shift", "gift"} : \A i \in DOMAIN logs[k] : logs[k][i].id = o => logs[k][i].status <= status[o]
    BY DEF OrdersInv, LogFits
  <2> QED BY <1>3, <1>4, <2>1, <2>2, <2>3 DEF PollFits
<1>10. ASSUME NEW q \in Polls \ {p} PROVE PollFits(q)'
  <2> SUFFICES ASSUME poll[q] # NoPoll PROVE PollFits(q)'
    BY <1>5 DEF PollFits, NoPoll
  <2>1. PollFits(q) /\ poll'[q] = poll[q]
    BY <1>5 DEF OrdersInv
  <2>2. ASSUME poll[q].order \notin raced'
        PROVE  \A r \in Polls \ {q} : poll'[r] # NoPoll => poll'[r].order # poll[q].order
    <3>1. poll[q].order # o
      BY <1>4, <2>2
    <3>2. poll[q].order \notin raced
      BY <1>4, <2>2
    <3> QED BY <1>5, <2>1, <3>1, <3>2 DEF PollFits
  <2>3. poll[q].order \notin raced' => poll[q].order \notin raced
    BY <1>4
  <2>4. NoPoll' = NoPoll
    BY DEF NoPoll
  <2> QED BY <1>4, <2>1, <2>2, <2>3, <2>4 DEF PollFits
<1> QED BY <1>6, <1>7, <1>8, <1>9, <1>10 DEF OrdersInv

\* A poll that is over leaves the others as they were.
LEMMA OtherPolls ==
  ASSUME OrdersInv, NEW p \in Polls, poll' = [poll EXCEPT ![p] = NoPoll],
         UNCHANGED <<kind, at, status, raced>>,
         NEW q \in Polls, poll[q] # NoPoll, q # p,
         \A k \in {"shift", "gift"} :
           /\ DOMAIN logs'[k] = DOMAIN logs[k]
           /\ \A i \in DOMAIN logs[k] :
                /\ logs'[k][i].id = logs[k][i].id
                /\ logs'[k][i].status = logs[k][i].status
                     \/ (poll[p] # NoPoll /\ logs[k][i].id = poll[p].order)
  PROVE  PollFits(q)'
<1>1. PollFits(q) /\ poll'[q] = poll[q] /\ NoPoll' = NoPoll
      /\ \A r \in Polls \ {p} : poll'[r] = poll[r]
      /\ poll'[p] = NoPoll
  BY DEF OrdersInv, OrderTypes, NoPoll
<1>2. kind' = kind /\ at' = at /\ status' = status /\ raced' = raced
  OBVIOUS
<1>3. ASSUME poll[q].order \notin raced
      PROVE  \A r \in Polls \ {q} : poll'[r] # NoPoll => poll'[r].order # poll[q].order
  BY <1>1, <1>3 DEF PollFits
<1>4. ASSUME poll[q].order \notin raced
      PROVE  \A k \in {"shift", "gift"} : \A i \in DOMAIN logs'[k] :
               logs'[k][i].id = poll[q].order => logs'[k][i].status <= poll[q].answer
  <2>1. poll[p] # NoPoll => poll[p].order # poll[q].order
    BY <1>1, <1>4 DEF PollFits
  <2> QED BY <1>1, <1>4, <2>1 DEF PollFits
<1> QED BY <1>1, <1>2, <1>3, <1>4 DEF PollFits

LEMMA StepPollFails == ASSUME OrdersInv, NEW p \in Polls, PollFails(p) PROVE OrdersInv'
<1>1. /\ kind' = kind /\ at' = at /\ status' = status /\ booked' = booked /\ paid' = paid
      /\ logs' = logs /\ raced' = raced /\ unsaved' = unsaved /\ lost' = lost
      /\ poll' = [poll EXCEPT ![p] = NoPoll]
  BY DEF PollFails
<1>2. poll' = [q \in Polls |-> poll'[q]] /\ poll'[p] = NoPoll /\ \A q \in Polls \ {p} : poll'[q] = poll[q]
  BY <1>1 DEF OrdersInv, OrderTypes
<1>3. OrderTypes'
  BY <1>1, <1>2, Zenon DEF OrdersInv, OrderTypes
<1>4. \A x \in Operations : OrderFits(x)'
  BY <1>1 DEF OrdersInv, OrderFits, Kept
<1>5. LogFits("shift")' /\ LogFits("gift")'
  BY <1>1 DEF OrdersInv, LogFits
<1>6. ASSUME NEW q \in Polls PROVE PollFits(q)'
  <2>1. CASE q = p \/ poll[q] = NoPoll
    BY <1>2, <2>1 DEF PollFits, NoPoll
  <2>2. CASE q # p /\ poll[q] # NoPoll
    BY <1>1, <2>2, OtherPolls
  <2> QED BY <2>1, <2>2
<1> QED BY <1>3, <1>4, <1>5, <1>6 DEF OrdersInv

\* The answer of a poll replaces what the log says of its order.
Folded(p) ==
  /\ logs' = [k \in {"shift", "gift"} |-> logs'[k]]
  /\ \A k \in {"shift", "gift"} :
       /\ IsLog(logs'[k])
       /\ Logged(logs'[k]) = Logged(logs[k])
       /\ Full(logs[k]) => Full(logs'[k])
       /\ DOMAIN logs'[k] = DOMAIN logs[k]
       /\ \A i \in DOMAIN logs[k] :
            /\ logs'[k][i].id = logs[k][i].id
            /\ \/ logs'[k][i].status = logs[k][i].status
               \/ logs[k][i].id = poll[p].order /\ logs'[k][i].status = poll[p].answer

LEMMA FoldedLogs ==
  ASSUME OrdersInv, NEW p \in Polls, FoldStatus(p)
  PROVE  Folded(p)
<1> DEFINE o == poll[p].order
           l == LogOf(kind[o])
           new == Merge(logs[l], o, poll[p].answer)
<1>1. IsLog(logs["shift"]) /\ IsLog(logs["gift"]) /\ logs = [k \in {"shift", "gift"} |-> logs[k]]
  BY DEF OrdersInv, OrderTypes
<1>2. o \in Operations /\ poll[p].answer \in Nat /\ l \in {"shift", "gift"}
  BY DEF OrdersInv, PollFits, FoldStatus, LogOf
<1>3. logs' = logs \/ logs' = [logs EXCEPT ![l] = new]
  BY DEF FoldStatus
<1>4. /\ IsLog(new)
      /\ DOMAIN new = DOMAIN logs[l]
      /\ Logged(new) = Logged(logs[l])
      /\ Full(logs[l]) => Full(new)
      /\ \A i \in DOMAIN logs[l] : /\ new[i].id = logs[l][i].id
                                   /\ new[i].status = IF logs[l][i].id = o THEN poll[p].answer ELSE logs[l][i].status
  <2> HIDE DEF o, l
  <2>1. IsLog(logs[l])
    BY <1>1, <1>2
  <2> QED BY <1>2, <2>1, MergeKeeps
<1> HIDE DEF new, l, o
<1>5. CASE logs' = logs
  BY <1>1, <1>5 DEF Folded
<1>6. CASE logs' = [logs EXCEPT ![l] = new]
  <2>1. logs'[l] = new /\ \A k \in {"shift", "gift"} \ {l} : logs'[k] = logs[k]
    BY <1>1, <1>2, <1>6
  <2>2. logs' = [k \in {"shift", "gift"} |-> logs'[k]]
    BY <1>1, <1>6
  <2>3. ASSUME NEW k \in {"shift", "gift"}
        PROVE  /\ IsLog(logs'[k])
               /\ Logged(logs'[k]) = Logged(logs[k])
               /\ Full(logs[k]) => Full(logs'[k])
               /\ DOMAIN logs'[k] = DOMAIN logs[k]
               /\ \A i \in DOMAIN logs[k] :
                    /\ logs'[k][i].id = logs[k][i].id
                    /\ \/ logs'[k][i].status = logs[k][i].status
                       \/ logs[k][i].id = o /\ logs'[k][i].status = poll[p].answer
    <3>1. CASE k = l
      BY <1>4, <2>1, <3>1
    <3>2. CASE k # l
      <4>1. logs'[k] = logs[k] /\ IsLog(logs[k])
        BY <1>1, <2>1, <3>2
      <4> QED BY <4>1
    <3> QED BY <3>1, <3>2
  <2> QED BY <2>2, <2>3 DEF Folded, o
<1> QED BY <1>3, <1>5, <1>6

LEMMA StepFold == ASSUME OrdersInv, NEW p \in Polls, FoldStatus(p) PROVE OrdersInv'
<1>1. /\ kind' = kind /\ at' = at /\ status' = status /\ booked' = booked /\ paid' = paid
      /\ raced' = raced /\ unsaved' = unsaved /\ lost' = lost
      /\ poll' = [poll EXCEPT ![p] = NoPoll] /\ poll[p] # NoPoll
  BY DEF FoldStatus
<1>2. poll' = [q \in Polls |-> poll'[q]] /\ poll'[p] = NoPoll /\ \A q \in Polls \ {p} : poll'[q] = poll[q]
  BY <1>1 DEF OrdersInv, OrderTypes
<1>3. Folded(p)
  BY FoldedLogs
<1>4. OrderTypes'
  <2>1. IsLog(logs'["shift"]) /\ IsLog(logs'["gift"]) /\ DOMAIN logs' = {"shift", "gift"}
        /\ logs' = [k \in {"shift", "gift"} |-> logs'[k]]
    BY <1>3 DEF Folded
  <2> QED BY <1>1, <1>2, <2>1, Zenon DEF OrdersInv, OrderTypes
<1>5. ASSUME NEW x \in Operations PROVE OrderFits(x)'
  <2>1. OrderFits(x)
    BY DEF OrdersInv
  <2>2. Kept(x) => Kept(x)'
    <3>1. LogOf(kind[x]) \in {"shift", "gift"}
      BY DEF LogOf
    <3> QED BY <1>1, <1>3, <3>1 DEF Kept, Folded
  <2>3. Logged(logs'["shift"]) = Logged(logs["shift"]) /\ Logged(logs'["gift"]) = Logged(logs["gift"])
    BY <1>3 DEF Folded
  <2> QED BY <1>1, <2>1, <2>2, <2>3 DEF OrderFits
<1>6. ASSUME NEW k \in {"shift", "gift"} PROVE LogFits(k)'
  <2> SUFFICES ASSUME NEW i \in DOMAIN logs[k]
               PROVE  /\ logs'[k][i].status <= status[logs'[k][i].id]
                      /\ kind[logs'[k][i].id] # "none" /\ LogOf(kind[logs'[k][i].id]) = k
    BY <1>1, <1>3 DEF LogFits, Folded
  <2>1. LogFits(k)
    BY DEF OrdersInv
  <2>2. poll[p].answer <= status[poll[p].order]
    BY <1>1 DEF OrdersInv, PollFits
  <2> QED BY <1>3, <2>1, <2>2 DEF LogFits, Folded
<1>7. ASSUME NEW q \in Polls PROVE PollFits(q)'
  <2>1. CASE q = p \/ poll[q] = NoPoll
    BY <1>2, <2>1 DEF PollFits, NoPoll
  <2>2. CASE q # p /\ poll[q] # NoPoll
    <3>1. \A k \in {"shift", "gift"} :
            /\ DOMAIN logs'[k] = DOMAIN logs[k]
            /\ \A i \in DOMAIN logs[k] :
                 /\ logs'[k][i].id = logs[k][i].id
                 /\ logs'[k][i].status = logs[k][i].status
                      \/ (poll[p] # NoPoll /\ logs[k][i].id = poll[p].order)
      BY <1>1, <1>3 DEF Folded
    <3> QED BY <1>1, <2>2, <3>1, OtherPolls
  <2> QED BY <2>1, <2>2
<1> QED BY <1>4, <1>5, <1>6, <1>7 DEF OrdersInv

\* The process stops between any two steps: what it was about to log is lost.
LEMMA StepOrdersStop == ASSUME OrdersInv, OrdersStop PROVE OrdersInv'
<1>1. /\ kind' = kind /\ status' = status /\ booked' = booked /\ paid' = paid
      /\ logs' = logs /\ raced' = raced /\ unsaved' = unsaved
      /\ lost' = lost \cup {o \in Operations : at[o] # 0}
      /\ at' = [o \in Operations |-> 0]
      /\ poll' = [p \in Polls |-> NoPoll]
  BY DEF OrdersStop
<1>2. OrderTypes'
  <2>1. lost' \subseteq Operations /\ at' \in [Operations -> Nat] /\ poll' = [p \in Polls |-> poll'[p]]
    BY <1>1 DEF OrdersInv, OrderTypes
  <2> QED BY <1>1, <2>1, Zenon DEF OrdersInv, OrderTypes
<1>3. ASSUME NEW o \in Operations PROVE OrderFits(o)'
  <2>1. OrderFits(o) /\ kind[o] \in {"none", "shift", "receive", "pegOut", "gift"}
    BY TheFlows DEF OrdersInv, OrderTypes
  <2>2. at'[o] = 0
    BY <1>1
  <2>3. ToSave(kind[o], 0) => ToSave(kind[o], at[o])
    BY <2>1 DEF ToSave
  <2>4. Kept(o)' <=> Kept(o)
    BY <1>1 DEF Kept
  <2>5. at[o] = 8 => o \in lost'
    BY <1>1
  <2> QED BY <1>1, <2>1, <2>2, <2>3, <2>4, <2>5 DEF OrderFits
<1>4. LogFits("shift")' /\ LogFits("gift")'
  BY <1>1 DEF OrdersInv, LogFits
<1>5. \A p \in Polls : PollFits(p)'
  BY <1>1 DEF PollFits, NoPoll
<1> QED BY <1>2, <1>3, <1>4, <1>5 DEF OrdersInv

LEMMA StepOrders == OrdersInv /\ [DeskNext]_deskVars => OrdersInv'
<1> SUFFICES ASSUME OrdersInv, [DeskNext]_deskVars PROVE OrdersInv'
  OBVIOUS
<1>1. CASE MarketNext /\ UNCHANGED <<orderVars, stops>>
  BY <1>1, OrdersStay DEF orderVars
<1>2. CASE OrdersNext
  <2>1. CASE ConfigArrives \/ ConfigUnreachable
    BY <2>1, StepConfig
  <2>2. CASE ShopMoves
    BY <2>2, OrdersStay DEF ShopMoves
  <2>3. ASSUME NEW o \in Operations, NEW k \in OrderKinds, Request(o, k) PROVE OrdersInv'
    BY <2>3, StepRequest
  <2>4. ASSUME NEW o \in Operations, Gate(o) PROVE OrdersInv'
    BY <2>4, StepGate
  <2>5. ASSUME NEW o \in Operations,
               Queue(o) \/ EnterSection(o) \/ Allow(o) \/ Sign(o) \/ Patch(o) \/ Leave(o)
        PROVE  OrdersInv'
    BY <2>5, StepPlain
  <2>6. ASSUME NEW o \in Operations, CreateOrder(o) PROVE OrdersInv'
    BY <2>6, StepCreate
  <2>7. ASSUME NEW o \in Operations, RecordOrderSpend(o) PROVE OrdersInv'
    BY <2>7, StepRecord
  <2>8. ASSUME NEW o \in Operations, Broadcast(o) PROVE OrdersInv'
    BY <2>8, StepBroadcast
  <2>9. ASSUME NEW o \in Operations, SaveOrder(o) PROVE OrdersInv'
    BY <2>9, StepSave
  <2>10. ASSUME NEW o \in Operations, OperationFails(o) PROVE OrdersInv'
    BY <2>10, StepFails
  <2>11. ASSUME NEW o \in Operations, ProviderMoves(o) PROVE OrdersInv'
    BY <2>11, StepProvider
  <2>12. ASSUME NEW o \in Operations, NEW p \in Polls,
                GetStatus(p, o) \/ GetOrderStatus(p, o) \/ RefreshShift(p, o)
         PROVE  OrdersInv'
    BY <2>12, StepAsk
  <2>13. ASSUME NEW p \in Polls, FoldStatus(p) PROVE OrdersInv'
    BY <2>13, StepFold
  <2>14. ASSUME NEW p \in Polls, PollFails(p) PROVE OrdersInv'
    BY <2>14, StepPollFails
  <2> QED BY <1>2, <2>1, <2>2, <2>3, <2>4, <2>5, <2>6, <2>7, <2>8, <2>9, <2>10, <2>11, <2>12, <2>13, <2>14
          DEF OrdersNext
<1>3. CASE Stop
  BY <1>3, StepOrdersStop DEF Stop
<1>4. CASE UNCHANGED deskVars
  BY <1>4, OrdersStay DEF deskVars, orderVars
<1> QED BY <1>1, <1>2, <1>3, <1>4 DEF DeskNext

THEOREM OrdersInvariance == DeskSpec => []OrdersInv
<1>1. DeskInit => OrdersInv
  BY InitOrders DEF DeskInit
<1> QED BY <1>1, StepOrders, PTL DEF DeskSpec

\* Money that left for an order was counted first, and its record was written in
\* the one log such orders have (or could not be, or the answer was lost with it):
\* only a log that is full of newer orders no longer has it.
TrackedOrDropped ==
  \A o \in paid :
    /\ o \in booked
    /\ \/ Kept(o)
       \/ kind[o] = "pegOut"
       \/ kind[o] = "shift" /\ (Doing(o) = "save" \/ o \in lost)

LEMMA TrackedOrders == OrdersInv => TrackedOrDropped
<1> SUFFICES ASSUME OrdersInv, NEW o \in paid
             PROVE  /\ o \in booked
                    /\ \/ Kept(o)
                       \/ kind[o] = "pegOut"
                       \/ kind[o] = "shift" /\ (Doing(o) = "save" \/ o \in lost)
  BY DEF TrackedOrDropped
<1>1. o \in Operations /\ OrderFits(o)
  BY DEF OrdersInv, OrderTypes
<1>2. kind[o] = "shift" /\ at[o] = 8 => Doing(o) = "save"
  BY TheFlows DEF Doing
<1> QED BY <1>1, <1>2 DEF OrderFits

THEOREM PaidOrdersStayTracked == DeskSpec => []TrackedOrDropped
BY OrdersInvariance, TrackedOrders, PTL

\* With room in the logs for every order, a paid order can be found again.
THEOREM PaidOrdersAreFound == ASSUME LogsHaveRoom PROVE DeskSpec => []PaidOrdersAreTracked
<1>1. OrdersInv => PaidOrdersAreTracked
  <2> SUFFICES ASSUME OrdersInv, NEW o \in paid
               PROVE  /\ o \in booked
                      /\ \/ o \in Logged(Here(o))
                         \/ o \in unsaved
                         \/ kind[o] = "pegOut"
                         \/ kind[o] = "shift" /\ (Doing(o) = "save" \/ o \in lost)
    BY DEF PaidOrdersAreTracked
  <2>1. o \in Operations /\ IsLog(logs["shift"]) /\ IsLog(logs["gift"])
    BY DEF OrdersInv, OrderTypes
  <2>2. LogOf(kind[o]) \in {"shift", "gift"}
    BY DEF LogOf
  <2>3. Kept(o) => o \in Logged(Here(o)) \/ o \in unsaved
    BY <2>1, <2>2, AFullLogHasAll DEF Kept, Here
  <2>4. /\ o \in booked
        /\ \/ Kept(o)
           \/ kind[o] = "pegOut"
           \/ kind[o] = "shift" /\ (Doing(o) = "save" \/ o \in lost)
    BY TrackedOrders DEF TrackedOrDropped
  <2> QED BY <2>3, <2>4
<1> QED BY <1>1, OrdersInvariance, PTL

\* No record of an order nobody raced for is dropped, or goes back.
GoesOn ==
  \A k \in {"shift", "gift"} : \A o \in Logged(logs[k]) \ raced :
    /\ o \in Logged(logs'[k])
    /\ RecordOf(logs'[k], o).status >= RecordOf(logs[k], o).status

LEMMA LogsGoOn ==
  ASSUME LogsHaveRoom, OrdersInv, [DeskNext]_deskVars
  PROVE  GoesOn
<1>1. \A k \in {"shift", "gift"} : IsLog(logs[k])
  BY DEF OrdersInv, OrderTypes
<1>2. \A k \in {"shift", "gift"} : IsLog(logs'[k])
  BY StepOrders DEF OrdersInv, OrderTypes
\* A record is where its id is.
<1>3. ASSUME NEW log, IsLog(log), NEW o \in Logged(log)
      PROVE  \E i \in DOMAIN log : log[i].id = o /\ RecordOf(log, o) = log[i] /\ log[i].status \in Nat
  <2>1. PICK i \in DOMAIN log : log[i].id = o
    BY DEF Logged
  <2>2. log[i] \in Recs
    BY <1>3 DEF IsLog
  <2>3. RecordOf(log, o) = log[i]
    BY <1>3, <2>1, TheRecord
  <2> QED BY <2>1, <2>2, <2>3 DEF Recs
<1>4. CASE UNCHANGED logs
  <2> SUFFICES ASSUME NEW k \in {"shift", "gift"}, NEW o \in Logged(logs[k]) \ raced
               PROVE  RecordOf(logs[k], o).status >= RecordOf(logs[k], o).status
    BY <1>4 DEF GoesOn
  <2>1. RecordOf(logs[k], o).status \in Nat
    BY <1>1, <1>3
  <2> QED BY <2>1
<1>5. ASSUME NEW o \in Operations, SaveOrder(o), ~UNCHANGED logs PROVE GoesOn
  <2> DEFINE l == LogOf(kind[o])
  <2>1. l \in {"shift", "gift"}
    BY DEF LogOf
  <2>2. logs' = [logs EXCEPT ![l] = Save(@, [id |-> o, status |-> 1])]
    BY <1>5 DEF SaveOrder
  <2>3. o \notin Logged(logs[l])
    <3>1. Doing(o) = "save" /\ at[o] # 0
      BY <1>5 DEF SaveOrder, Doing
    <3>2. ToSave(kind[o], at[o])
      BY <3>1, Stations DEF At, ShiftAt, ReceiveAt, PegOutAt, GiftAt, ToSave
    <3> QED BY <2>1, <3>2 DEF OrdersInv, OrderFits
  <2> HIDE DEF l
  <2>4. Saved(o, l)
    BY <2>1, <2>2, <2>3, SavedLogs
  <2> SUFFICES ASSUME NEW k \in {"shift", "gift"}, NEW x \in Logged(logs[k]) \ raced
               PROVE  /\ x \in Logged(logs'[k])
                      /\ RecordOf(logs'[k], x).status >= RecordOf(logs[k], x).status
    BY DEF GoesOn
  <2>5. x \in Operations
    <3>1. PICK i \in DOMAIN logs[k] : logs[k][i].id = x
      BY DEF Logged
    <3>2. logs[k][i] \in Recs
      BY <1>1 DEF IsLog
    <3> QED BY <3>1, <3>2 DEF Recs
  <2>6. x \in Logged(logs'[k])
    <3>1. Full(logs'[k]) => Logged(logs'[k]) = Operations
      BY <1>2, AFullLogHasAll
    <3> QED BY <2>4, <2>5, <3>1 DEF Saved
  <2>7. k # l \/ x # o
    BY <2>3
  <2>8. PICK i \in DOMAIN logs'[k] : logs'[k][i].id = x /\ RecordOf(logs'[k], x) = logs'[k][i]
    BY <1>2, <1>3, <2>6
  <2>9. PICK j \in DOMAIN logs[k] : logs'[k][i] = logs[k][j]
    BY <2>4, <2>7, <2>8 DEF Saved
  <2>10. RecordOf(logs[k], x) = logs[k][j]
    BY <1>1, <2>8, <2>9, TheRecord
  <2>11. RecordOf(logs[k], x).status \in Nat
    BY <1>1, <1>3
  <2> QED BY <2>6, <2>8, <2>9, <2>10, <2>11
<1>6. ASSUME NEW p \in Polls, FoldStatus(p) PROVE GoesOn
  <2>1. Folded(p) /\ poll[p] # NoPoll /\ PollFits(p)
    BY <1>6, FoldedLogs DEF FoldStatus, OrdersInv
  <2> SUFFICES ASSUME NEW k \in {"shift", "gift"}, NEW x \in Logged(logs[k]) \ raced
               PROVE  /\ x \in Logged(logs'[k])
                      /\ RecordOf(logs'[k], x).status >= RecordOf(logs[k], x).status
    BY DEF GoesOn
  <2>2. x \in Logged(logs'[k])
    BY <2>1 DEF Folded
  <2>3. PICK i \in DOMAIN logs[k] : /\ logs[k][i].id = x /\ RecordOf(logs[k], x) = logs[k][i]
                                    /\ logs[k][i].status \in Nat
    BY <1>1, <1>3
  <2>4. /\ i \in DOMAIN logs'[k] /\ logs'[k][i].id = x
        /\ \/ logs'[k][i].status = logs[k][i].status
           \/ x = poll[p].order /\ logs'[k][i].status = poll[p].answer
    BY <2>1, <2>3 DEF Folded
  <2>5. RecordOf(logs'[k], x) = logs'[k][i]
    BY <1>2, <2>4, TheRecord
  <2>6. poll[p].answer \in Nat /\ (x = poll[p].order => logs[k][i].status <= poll[p].answer)
    BY <2>1, <2>3 DEF PollFits
  <2> QED BY <2>2, <2>3, <2>4, <2>5, <2>6
<1>7. \/ UNCHANGED logs
      \/ \E o \in Operations : SaveOrder(o) /\ ~UNCHANGED logs
      \/ \E p \in Polls : FoldStatus(p)
  <2>1. CASE MarketNext /\ UNCHANGED <<orderVars, stops>>
    BY <2>1 DEF orderVars
  <2>2. CASE OrdersNext
    <3>1. CASE ConfigArrives \/ ConfigUnreachable \/ ShopMoves
      BY <3>1 DEF ConfigArrives, ConfigUnreachable, ShopMoves
    <3>2. ASSUME NEW o \in Operations, \E k \in OrderKinds : Request(o, k) PROVE UNCHANGED logs
      BY <3>2 DEF Request
    <3>3. ASSUME NEW o \in Operations,
                 Gate(o) \/ Queue(o) \/ EnterSection(o) \/ Allow(o) \/ CreateOrder(o) \/ Sign(o)
          PROVE  UNCHANGED logs
      BY <3>3 DEF Gate, Queue, EnterSection, Allow, CreateOrder, Sign
    <3>4. ASSUME NEW o \in Operations,
                 RecordOrderSpend(o) \/ Broadcast(o) \/ Patch(o) \/ Leave(o) \/ OperationFails(o)
                   \/ ProviderMoves(o)
          PROVE  UNCHANGED logs
      BY <3>4 DEF RecordOrderSpend, Broadcast, Patch, Leave, OperationFails, ProviderMoves
    <3>5. ASSUME NEW o \in Operations, NEW p \in Polls,
                 GetStatus(p, o) \/ GetOrderStatus(p, o) \/ RefreshShift(p, o)
          PROVE  UNCHANGED logs
      BY <3>5 DEF GetStatus, GetOrderStatus, RefreshShift, AskProvider
    <3>6. ASSUME NEW p \in Polls, PollFails(p) PROVE UNCHANGED logs
      BY <3>6 DEF PollFails
    <3> QED BY <2>2, <3>1, <3>2, <3>3, <3>4, <3>5, <3>6 DEF OrdersNext
  <2>3. CASE Stop
    BY <2>3 DEF Stop, OrdersStop
  <2>4. CASE UNCHANGED deskVars
    BY <2>4 DEF deskVars, orderVars
  <2> QED BY <2>1, <2>2, <2>3, <2>4 DEF DeskNext
<1> QED BY <1>4, <1>5, <1>6, <1>7

\* With room in the logs, what they say of an order only goes forward, except to
\* the late answer of a poll another one overtook.
THEOREM RecordsGoForward == ASSUME LogsHaveRoom PROVE DeskSpec => StatusNeverGoesBack
<1>1. OrdersInv /\ [DeskNext]_deskVars => GoesOn
  BY LogsGoOn
<1>2. OrdersInv /\ [DeskNext]_deskVars =>
        [\A k \in {"shift", "gift"} : \A o \in Logged(logs[k]) \ raced :
           /\ o \in Logged(logs'[k])
           /\ RecordOf(logs'[k], o).status >= RecordOf(logs[k], o).status]_<<logs, raced>>
  BY <1>1 DEF GoesOn
<1> QED BY <1>2, OrdersInvariance, PTL DEF DeskSpec, StatusNeverGoesBack
-----------------------------------------------------------------------------
(* The kill switch                                                         *)

\* A gift card may be sold: the cached config says so, or an answer on its way.
Selling == \/ CacheIsFresh /\ config.value = "on"
           \/ fetch.answer = "on"

\* requireEnabled() lets the operation at o go on.
GateOpens(o) == Doing(o) = "gate" /\ Doing(o)' \notin {"gate", "nothing"}

\* What a step does to the cached config and the shared fetch.
ShopMoved == \/ UNCHANGED shopVars
             \/ Tick1 \/ SwitchOff \/ Serve \/ Fetched
             \/ fetch.answer = "none" /\ JoinFetch
             \/ /\ config' = config \/ config' = [value |-> "none", at |-> 0]
                /\ fetch' = NoFetch
                /\ UNCHANGED <<now, shopOn>>

LEMMA ShopSteps == ASSUME [DeskNext]_deskVars PROVE ShopMoved
<1>1. CASE MarketNext /\ UNCHANGED <<orderVars, stops>>
  BY <1>1 DEF orderVars, ShopMoved
<1>2. CASE OrdersNext
  <2>1. ASSUME NEW o \in Operations, Gate(o) PROVE ShopMoved
    BY <2>1 DEF Gate, ShopMoved
  <2>2. CASE ConfigArrives \/ ConfigUnreachable \/ ShopMoves
    BY <2>2 DEF ConfigArrives, ConfigUnreachable, ShopMoves, FetchFails, ShopMoved
  <2>3. ASSUME NEW o \in Operations,
               \/ \E k \in OrderKinds : Request(o, k)
               \/ Queue(o) \/ EnterSection(o) \/ Allow(o) \/ CreateOrder(o) \/ Sign(o)
        PROVE  UNCHANGED shopVars
    BY <2>3 DEF Request, Queue, EnterSection, Allow, CreateOrder, Sign
  <2>4. ASSUME NEW o \in Operations,
               \/ RecordOrderSpend(o) \/ Broadcast(o) \/ SaveOrder(o) \/ Patch(o) \/ Leave(o)
               \/ OperationFails(o) \/ ProviderMoves(o)
        PROVE  UNCHANGED shopVars
    BY <2>4 DEF RecordOrderSpend, Broadcast, SaveOrder, Patch, Leave, OperationFails, ProviderMoves
  <2>5. ASSUME NEW p \in Polls, NEW o \in Operations,
               GetStatus(p, o) \/ GetOrderStatus(p, o) \/ RefreshShift(p, o)
        PROVE  UNCHANGED shopVars
    BY <2>5 DEF GetStatus, GetOrderStatus, RefreshShift, AskProvider
  <2>6. ASSUME NEW p \in Polls, FoldStatus(p) \/ PollFails(p) PROVE UNCHANGED shopVars
    BY <2>6 DEF FoldStatus, PollFails
  <2>7. UNCHANGED shopVars => ShopMoved
    BY DEF ShopMoved
  <2> QED BY <1>2, <2>1, <2>2, <2>3, <2>4, <2>5, <2>6, <2>7 DEF OrdersNext
<1>3. CASE Stop
  BY <1>3 DEF Stop, OrdersStop, ShopMoved
<1>4. CASE UNCHANGED deskVars
  BY <1>4 DEF deskVars, orderVars, ShopMoved
<1> QED BY <1>1, <1>2, <1>3, <1>4 DEF DeskNext

\* The operation asks at the gate until it is answered there.
LEMMA GateHolds ==
  ASSUME OrdersInv, [DeskNext]_deskVars, NEW o \in Operations, Doing(o) = "gate"
  PROVE  \/ kind'[o] = kind[o] /\ at'[o] \in {at[o], 0}
         \/ kind'[o] = kind[o] /\ Gate(o) /\ CacheIsFresh /\ config.value = "on"
         \/ kind'[o] = kind[o] /\ fetch.answer = "on"
<1> DEFINE Held == kind'[o] = kind[o] /\ at'[o] \in {at[o], 0}
<1>0. kind[o] # "none" /\ kind \in [Operations -> DOMAIN Flow \cup {"none"}] /\ at \in [Operations -> Nat]
  BY DEF OrdersInv, OrderTypes, OrderFits, Doing
<1>1. ASSUME NEW x \in Operations \ {o}, NEW n, at' = [at EXCEPT ![x] = n], kind' = kind PROVE Held
  BY <1>0, <1>1
<1>2. ASSUME UNCHANGED <<kind, at>> PROVE Held
  BY <1>2
<1>3. CASE MarketNext /\ UNCHANGED <<orderVars, stops>>
  BY <1>2, <1>3 DEF orderVars
<1>4. CASE OrdersNext
  <2>1. CASE ConfigArrives \/ ConfigUnreachable
    <3>1. kind' = kind
      BY <2>1 DEF ConfigArrives, ConfigUnreachable
    <3>2. o \in Asking
      BY DEF Asking
    <3>3. ConfigArrives => at'[o] = 0 \/ fetch.answer = "on"
      BY <3>2 DEF ConfigArrives
    <3>4. ConfigUnreachable => at'[o] = 0
      BY <3>2 DEF ConfigUnreachable
    <3> QED BY <2>1, <3>1, <3>3, <3>4
  <2>2. ASSUME NEW x \in Operations, NEW k \in OrderKinds, Request(x, k) PROVE Held
    <3>1. x # o
      BY <1>0, <2>2 DEF Request
    <3> QED BY <1>0, <2>2, <3>1 DEF Request
  <2>3. ASSUME NEW x \in Operations \ {o}, Gate(x) PROVE Held
    BY <1>1, <1>2, <2>3 DEF Gate, Advance, End
  <2>4. CASE Gate(o)
    <3>1. kind' = kind
      BY <2>4 DEF Gate
    <3>2. CASE CacheIsFresh /\ config.value = "on"
      BY <2>4, <3>1, <3>2
    <3>3. CASE CacheIsFresh /\ config.value # "on"
      BY <1>0, <2>4, <3>1, <3>3 DEF Gate, End
    <3>4. CASE ~CacheIsFresh
      BY <2>4, <3>1, <3>4 DEF Gate
    <3> QED BY <3>2, <3>3, <3>4
  <2>5. ASSUME NEW x \in Operations,
               Queue(x) \/ EnterSection(x) \/ Allow(x) \/ CreateOrder(x) \/ Sign(x) \/ RecordOrderSpend(x)
        PROVE  Held
    <3>1. x # o
      BY <2>5 DEF Queue, EnterSection, Allow, CreateOrder, Sign, RecordOrderSpend
    <3>2. Advance(x) /\ kind' = kind
      BY <2>5 DEF Queue, EnterSection, Allow, CreateOrder, Sign, RecordOrderSpend
    <3> QED BY <1>1, <3>1, <3>2 DEF Advance
  <2>6. ASSUME NEW x \in Operations,
               Broadcast(x) \/ SaveOrder(x) \/ Patch(x) \/ Leave(x) \/ OperationFails(x)
        PROVE  Held
    <3>1. x # o
      BY <2>6 DEF Broadcast, SaveOrder, Patch, Leave, OperationFails
    <3>2. (Advance(x) \/ End(x)) /\ kind' = kind
      BY <2>6 DEF Broadcast, SaveOrder, Patch, Leave, OperationFails
    <3> QED BY <1>1, <3>1, <3>2 DEF Advance, End
  <2>7. ASSUME NEW x \in Operations, ProviderMoves(x) PROVE Held
    BY <1>2, <2>7 DEF ProviderMoves
  <2>8. ASSUME NEW p \in Polls, NEW x \in Operations,
               GetStatus(p, x) \/ GetOrderStatus(p, x) \/ RefreshShift(p, x)
        PROVE  Held
    BY <1>2, <2>8 DEF GetStatus, GetOrderStatus, RefreshShift, AskProvider
  <2>9. ASSUME NEW p \in Polls, FoldStatus(p) \/ PollFails(p) PROVE Held
    BY <1>2, <2>9 DEF FoldStatus, PollFails
  <2>10. CASE ShopMoves
    BY <1>2, <2>10 DEF ShopMoves
  <2> QED BY <1>4, <2>1, <2>2, <2>3, <2>4, <2>5, <2>6, <2>7, <2>8, <2>9, <2>10 DEF OrdersNext
<1>5. CASE Stop
  BY <1>5 DEF Stop, OrdersStop
<1>6. CASE UNCHANGED deskVars
  BY <1>2, <1>6 DEF deskVars, orderVars
<1> QED BY <1>3, <1>4, <1>5, <1>6 DEF DeskNext

\* No gift card is bought unless the config read is one that may be sold on.
LEMMA OnlyAShopThatSellsSells ==
  DeskSpec => [][\A o \in Operations : GateOpens(o) => Selling]_deskVars
<1>1. OrdersInv /\ [DeskNext]_deskVars => \A o \in Operations : GateOpens(o) => Selling
  <2> SUFFICES ASSUME OrdersInv, [DeskNext]_deskVars, NEW o \in Operations, GateOpens(o) PROVE Selling
    OBVIOUS
  <2>1. Doing(o) = "gate" /\ Doing(o)' # "gate" /\ Doing(o)' # "nothing"
    BY DEF GateOpens
  <2>2. kind'[o] = kind[o] => at'[o] # 0 /\ at'[o] # at[o]
    BY <2>1 DEF Doing
  <2> QED BY <2>1, <2>2, GateHolds DEF Selling
<1> QED BY <1>1, OrdersInvariance, PTL DEF DeskSpec

\* What is cached was fetched in the past.
ShopFits == /\ now \in Nat
            /\ config \in [value : {"none", "on", "off"}, at : Nat]
            /\ config.at <= now
            /\ fetch \in [asked : Nat, answer : Answers]

LEMMA ShopFitsAlways == ShopFits /\ [DeskNext]_deskVars => ShopFits'
<1> SUFFICES ASSUME ShopFits, ShopMoved PROVE ShopFits'
  BY ShopSteps
<1>1. CASE UNCHANGED shopVars
  BY <1>1 DEF shopVars, ShopFits
<1>2. CASE Tick1
  BY <1>2 DEF Tick1, ShopFits
<1>3. CASE SwitchOff
  BY <1>3 DEF SwitchOff, ShopFits
<1>4. CASE Serve
  BY <1>4 DEF Serve, ShopFits, Answers
<1>5. CASE Fetched
  BY <1>5 DEF Fetched, ShopFits, NoFetch, Answers
<1>6. CASE JoinFetch
  BY <1>6 DEF JoinFetch, ShopFits, Answers
<1>7. CASE /\ config' = config \/ config' = [value |-> "none", at |-> 0]
           /\ fetch' = NoFetch
           /\ UNCHANGED <<now, shopOn>>
  BY <1>7 DEF ShopFits, NoFetch, Answers
<1> QED BY <1>1, <1>2, <1>3, <1>4, <1>5, <1>6, <1>7 DEF ShopMoved

\* The shop is off, and an "on" that is still remembered was cached by t.
OffSince(t) == /\ ~shopOn
               /\ config.value = "on" => config.at <= t
               /\ fetch.answer # "on"

LEMMA ItStaysOff == ASSUME NEW t, ShopFits, OffSince(t), [DeskNext]_deskVars PROVE OffSince(t)'
<1> USE ShopSteps
<1>1. CASE UNCHANGED shopVars
  BY <1>1 DEF shopVars, OffSince
<1>2. CASE Tick1 \/ SwitchOff
  BY <1>2 DEF Tick1, SwitchOff, OffSince
<1>3. CASE Serve
  BY <1>3 DEF Serve, ShopFits, OffSince
<1>4. CASE Fetched
  BY <1>4 DEF Fetched, OffSince, NoFetch
<1>5. CASE JoinFetch
  BY <1>5 DEF JoinFetch, OffSince
<1>6. CASE /\ config' = config \/ config' = [value |-> "none", at |-> 0]
           /\ fetch' = NoFetch
           /\ UNCHANGED <<now, shopOn>>
  BY <1>6 DEF OffSince, NoFetch
<1> QED BY <1>1, <1>2, <1>3, <1>4, <1>5, <1>6 DEF ShopMoved

\* Once the shop is off and no answer from before is on its way, nothing is sold
\* later than CacheTtl from then.  (An answer's headers come within the timeout, its
\* body may take longer: there is no bound from the moment of the switch itself.)
THEOREM TheSwitchIsObeyed ==
  ASSUME NEW t \in Nat
  PROVE  DeskSpec => [](/\ ~shopOn /\ now = t /\ fetch.answer # "on"
                        => [](now >= t + CacheTtl => ~Selling))
<1>1. DeskInit => ShopFits
  BY DEF DeskInit, OrdersInit, ShopInit, ShopFits, NoFetch, Answers
<1>2. ShopFits /\ ~shopOn /\ now = t /\ fetch.answer # "on" => OffSince(t)
  BY DEF ShopFits, OffSince
<1>3. ShopFits /\ OffSince(t) /\ [DeskNext]_deskVars => OffSince(t)'
  BY ItStaysOff
<1>4. ShopFits /\ OffSince(t) /\ now >= t + CacheTtl => ~Selling
  BY ShopAssumption DEF ShopFits, OffSince, Selling, CacheIsFresh
<1> QED BY <1>1, <1>2, <1>3, <1>4, ShopFitsAlways, PTL DEF DeskSpec

-----------------------------------------------------------------------------
(* The market swaps                                                        *)

\* The steps of a quote call before it has a client.
Early == {"idle", "coins", "receive", "receiving", "change", "changing", "connect"}

MarketTypes ==
  /\ quoting \in [Calls -> Quoting \cup {"idle", "held", "failed"}]
  /\ sock \in [Calls -> {"none", "opening", "open", "lost", "gaveUp", "destroyed"}]
  /\ promise \in [Calls -> {"none", "pending", "deaf", "resolved", "rejected"}]
  /\ held \subseteq Calls
  /\ running \in [Execs -> Executing \cup {"idle", "done"}]
  /\ target \in [Execs -> Calls \cup {"none"}]
  /\ signings \in [Calls -> Nat]
  /\ counted \subseteq Calls

\* No execution has had the quote yet: it is still asked for, or in the registry.
Untaken(c) == c \in held \/ quoting[c] \notin {"held", "failed"}

\* A quote and the client behind it.
CallFits(c) ==
  /\ Live(c) => \/ quoting[c] \in Quoting
                \/ c \in held
                \/ \E e \in Execs : target[e] = c /\ running[e] \in Executing
                \/ promise[c] = "rejected"
  /\ quoting[c] \in Early => sock[c] = "none"
  /\ c \in held => quoting[c] = "held"
  /\ Untaken(c) => /\ signings[c] = 0
                   /\ \A e \in Execs : running[e] \in Executing => target[e] # c
  /\ signings[c] <= 1
  /\ signings[c] > 0 => c \in counted

\* An execution and the quote it took.
ExecFits(e) ==
  running[e] \in Executing =>
    /\ target[e] \in Calls \ held /\ quoting[target[e]] = "held"
    /\ running[e] # "sending" => signings[target[e]] = 0
    /\ running[e] \in {"takerSign", "sending"} => target[e] \in counted

\* No two executions have the same quote.
Apart == \A e, f \in Execs :
  running[e] \in Executing /\ running[f] \in Executing /\ target[e] = target[f] => e = f

MarketInv == MarketTypes /\ Apart /\ (\A c \in Calls : CallFits(c)) /\ (\A e \in Execs : ExecFits(e))

LEMMA InitMarket == MarketInit => MarketInv
BY DEF MarketInit, MarketInv, MarketTypes, Apart, CallFits, ExecFits, Untaken, Live, Quoting, Executing, Early

\* The quote call or the client of c takes a step, and no execution does.
OneCall(c) ==
  /\ UNCHANGED <<running, target, counted, signings>>
  /\ quoting' \in [Calls -> Quoting \cup {"idle", "held", "failed"}]
  /\ sock' \in [Calls -> {"none", "opening", "open", "lost", "gaveUp", "destroyed"}]
  /\ promise' \in [Calls -> {"none", "pending", "deaf", "resolved", "rejected"}]
  /\ held' \subseteq Calls
  /\ \A x \in Calls \ {c} : /\ quoting'[x] = quoting[x] /\ sock'[x] = sock[x] /\ promise'[x] = promise[x]
                            /\ x \in held' <=> x \in held
  /\ Live(c)' => \/ /\ Live(c) /\ quoting'[c] = quoting[c]
                    /\ c \in held => c \in held'
                    /\ promise[c] = "rejected" => promise'[c] = "rejected"
                 \/ quoting'[c] \in Quoting \/ c \in held' \/ promise'[c] = "rejected"
  /\ quoting'[c] \in Early => sock'[c] = "none"
  /\ c \in held' => quoting'[c] = "held"
  /\ Untaken(c)' => Untaken(c)
  /\ quoting[c] = "held" => quoting'[c] = "held" /\ (c \in held' => c \in held)

LEMMA OneCallMoves == ASSUME MarketInv, NEW c \in Calls, OneCall(c) PROVE MarketInv'
<1>1. running' = running /\ target' = target /\ counted' = counted /\ signings' = signings
  BY DEF OneCall
<1>2. MarketTypes'
  BY <1>1 DEF OneCall, MarketInv, MarketTypes
<1>3. Apart'
  BY <1>1 DEF MarketInv, Apart
<1>4. ASSUME NEW x \in Calls PROVE CallFits(x)'
  <2>1. CallFits(x)
    BY DEF MarketInv
  <2>2. CASE x # c
    <3>1. /\ quoting'[x] = quoting[x] /\ sock'[x] = sock[x] /\ promise'[x] = promise[x]
          /\ x \in held' <=> x \in held
      BY <2>2 DEF OneCall
    <3> QED BY <1>1, <2>1, <3>1 DEF CallFits, Live, Untaken
  <2>3. CASE x = c
    <3>1. /\ Live(c)' => \/ quoting'[c] \in Quoting
                         \/ c \in held'
                         \/ \E e \in Execs : target[e] = c /\ running[e] \in Executing
                         \/ promise'[c] = "rejected"
          /\ quoting'[c] \in Early => sock'[c] = "none"
          /\ c \in held' => quoting'[c] = "held"
          /\ Untaken(c)' => Untaken(c)
      BY <2>1, <2>3 DEF OneCall, CallFits
    <3> QED BY <1>1, <2>1, <2>3, <3>1 DEF CallFits
  <2> QED BY <2>2, <2>3
<1>5. ASSUME NEW e \in Execs PROVE ExecFits(e)'
  <2> SUFFICES ASSUME running[e] \in Executing
               PROVE  target[e] \in Calls \ held' /\ quoting'[target[e]] = "held"
    BY <1>1 DEF ExecFits, MarketInv
  <2>1. target[e] \in Calls \ held /\ quoting[target[e]] = "held"
    BY DEF MarketInv, ExecFits
  <2> QED BY <2>1 DEF OneCall
<1> QED BY <1>2, <1>3, <1>4, <1>5 DEF MarketInv

\* Steps of a quote call.
LEMMA QuoteSteps ==
  ASSUME MarketInv, NEW c \in Calls,
         \/ Ask(c) \/ SelectCoins(c) \/ AskAddress(c) \/ GetAddress(c) \/ Connect(c)
         \/ ConnectResolves(c) \/ ConnectTimesOut(c) \/ StartQuotes(c)
  PROVE  OneCall(c)
<1>1. MarketTypes /\ CallFits(c)
  BY DEF MarketInv
<1> USE DEF MarketTypes, CallFits, OneCall, Live, Untaken, Move, clients, money, Quoting, Early
<1>2. CASE Ask(c)
  BY <1>1, <1>2 DEF Ask
<1>3. CASE SelectCoins(c)
  BY <1>1, <1>3 DEF SelectCoins
<1>4. CASE AskAddress(c)
  BY <1>1, <1>4 DEF AskAddress
<1>5. CASE GetAddress(c)
  BY <1>1, <1>5 DEF GetAddress
<1>6. CASE Connect(c)
  BY <1>1, <1>6 DEF Connect
<1>7. CASE ConnectResolves(c)
  BY <1>1, <1>7 DEF ConnectResolves
<1>8. CASE ConnectTimesOut(c)
  BY <1>1, <1>8 DEF ConnectTimesOut
<1>9. CASE StartQuotes(c)
  BY <1>1, <1>9 DEF StartQuotes
<1> QED BY <1>2, <1>3, <1>4, <1>5, <1>6, <1>7, <1>8, <1>9

\* Steps of a client, and of the stream and the registry behind it.
LEMMA StreamSteps ==
  ASSUME MarketInv, NEW c \in Calls,
         \/ HandleOpen(c) \/ MarketsAnswer(c) \/ SubscriptionAnswers(c) \/ StreamFails(c)
         \/ Tick(c) \/ Lapse(c) \/ Evict(c) \/ ReconnectTimer(c)
  PROVE  OneCall(c)
<1>1. MarketTypes /\ CallFits(c)
  BY DEF MarketInv
<1> USE DEF MarketTypes, CallFits, OneCall, Live, Untaken, Move, clients, money, Quoting, Early, Disconnect
<1>2. CASE HandleOpen(c)
  BY <1>1, <1>2 DEF HandleOpen
<1>3. CASE MarketsAnswer(c)
  BY <1>1, <1>3 DEF MarketsAnswer
<1>4. CASE SubscriptionAnswers(c)
  BY <1>1, <1>4 DEF SubscriptionAnswers
<1>5. CASE StreamFails(c)
  BY <1>1, <1>5 DEF StreamFails, Doomed
<1>6. CASE Tick(c)
  BY <1>1, <1>6 DEF Tick, Register
<1>7. CASE Lapse(c)
  BY <1>1, <1>7 DEF Lapse
<1>8. CASE Evict(c)
  BY <1>1, <1>8 DEF Evict
<1>9. CASE ReconnectTimer(c)
  BY <1>1, <1>9 DEF ReconnectTimer
<1> QED BY <1>2, <1>3, <1>4, <1>5, <1>6, <1>7, <1>8, <1>9

\* What the properties speak of stays as it is.
LEMMA MarketStays ==
  ASSUME MarketInv, UNCHANGED <<quoting, sock, promise, held, running, target, signings, counted>>
  PROVE  MarketInv'
<1>1. /\ quoting' = quoting /\ sock' = sock /\ promise' = promise /\ held' = held
      /\ running' = running /\ target' = target /\ signings' = signings /\ counted' = counted
  OBVIOUS
<1>2. MarketTypes'
  BY <1>1 DEF MarketInv, MarketTypes
<1>3. Apart'
  BY <1>1 DEF MarketInv, Apart
<1>4. \A c \in Calls : CallFits(c)'
  BY <1>1 DEF MarketInv, CallFits, Live, Untaken
<1>5. \A e \in Execs : ExecFits(e)'
  BY <1>1 DEF MarketInv, ExecFits
<1> QED BY <1>2, <1>3, <1>4, <1>5 DEF MarketInv

LEMMA StepDispose == ASSUME MarketInv, DisposeAll PROVE MarketInv'
<1>1. /\ quoting' = quoting /\ promise' = promise /\ running' = running /\ target' = target
      /\ signings' = signings /\ counted' = counted /\ held' = {}
      /\ sock' = [c \in Calls |-> IF c \in held THEN "destroyed" ELSE sock[c]]
  BY DEF DisposeAll, money
<1>2. MarketTypes'
  BY <1>1 DEF MarketInv, MarketTypes
<1>3. Apart'
  BY <1>1 DEF MarketInv, Apart
<1>4. ASSUME NEW c \in Calls PROVE CallFits(c)'
  <2>1. CallFits(c) /\ sock'[c] = IF c \in held THEN "destroyed" ELSE sock[c]
    BY <1>1 DEF MarketInv
  <2>2. Untaken(c)' => Untaken(c)
    BY <1>1 DEF Untaken
  <2>3. quoting[c] \in Early => c \notin held
    BY <2>1 DEF CallFits, Early
  <2>4. Live(c)' => Live(c) /\ c \notin held
    BY <2>1 DEF Live
  <2> QED BY <1>1, <2>1, <2>2, <2>3, <2>4 DEF CallFits
<1>5. \A e \in Execs : ExecFits(e)'
  BY <1>1 DEF MarketInv, ExecFits
<1> QED BY <1>2, <1>3, <1>4, <1>5 DEF MarketInv

\* An execution goes one step further with its quote, counted before it is signed.
Proceeds(e, step) ==
  /\ UNCHANGED <<quoting, sock, promise, held, target>>
  /\ running[e] \in Executing \ {"sending"} /\ step \in Executing
  /\ running' = [running EXCEPT ![e] = step]
  /\ counted \subseteq counted' /\ counted' \subseteq Calls
  /\ step \in {"takerSign", "sending"} => target[e] \in counted'
  /\ IF step = "sending" THEN signings' = [signings EXCEPT ![target[e]] = @ + 1] ELSE signings' = signings

LEMMA OneProceeds == ASSUME MarketInv, NEW e \in Execs, NEW step, Proceeds(e, step) PROVE MarketInv'
<1>1. /\ quoting' = quoting /\ sock' = sock /\ promise' = promise /\ held' = held /\ target' = target
      /\ running'[e] = step /\ \A f \in Execs \ {e} : running'[f] = running[f]
      /\ \A f \in Execs : running'[f] \in Executing <=> running[f] \in Executing
      /\ running' \in [Execs -> Executing \cup {"idle", "done"}]
  BY DEF Proceeds, MarketInv, MarketTypes
<1>2. /\ target[e] \in Calls \ held /\ quoting[target[e]] = "held"
      /\ signings[target[e]] = 0 /\ ExecFits(e)
  BY DEF Proceeds, MarketInv, ExecFits
<1>3. /\ signings' \in [Calls -> Nat]
      /\ \A c \in Calls \ {target[e]} : signings'[c] = signings[c]
      /\ signings'[target[e]] = IF step = "sending" THEN 1 ELSE 0
  BY <1>2 DEF Proceeds, MarketInv, MarketTypes
<1>4. MarketTypes'
  BY <1>1, <1>3 DEF Proceeds, MarketInv, MarketTypes
<1>5. Apart'
  BY <1>1 DEF MarketInv, Apart
<1>6. ASSUME NEW c \in Calls PROVE CallFits(c)'
  <2>1. CallFits(c) /\ (Untaken(c)' <=> Untaken(c)) /\ (Live(c)' <=> Live(c))
    BY <1>1 DEF MarketInv, Untaken, Live
  <2>2. CASE c # target[e]
    <3>1. signings'[c] = signings[c] /\ (c \in counted => c \in counted')
      BY <1>3, <2>2 DEF Proceeds
    <3> QED BY <1>1, <2>1, <3>1 DEF CallFits
  <2>3. CASE c = target[e]
    <3>1. ~Untaken(c) /\ signings'[c] <= 1 /\ (signings'[c] > 0 => c \in counted')
      BY <1>2, <1>3, <2>3 DEF Untaken, Proceeds
    <3> QED BY <1>1, <2>1, <3>1 DEF CallFits
  <2> QED BY <2>2, <2>3
<1>7. ASSUME NEW f \in Execs PROVE ExecFits(f)'
  <2>1. CASE f = e
    BY <1>1, <1>2, <1>3, <2>1 DEF Proceeds, ExecFits
  <2>2. CASE f # e
    <3> SUFFICES ASSUME running[f] \in Executing PROVE ExecFits(f)'
      BY <1>1, <2>2 DEF ExecFits
    <3>1. ExecFits(f) /\ target[f] # target[e]
      BY <2>2 DEF MarketInv, Apart, Proceeds
    <3>2. target[f] \in Calls /\ signings'[target[f]] = signings[target[f]]
      BY <1>3, <3>1 DEF ExecFits
    <3> QED BY <1>1, <2>2, <3>1, <3>2 DEF ExecFits, Proceeds
  <2> QED BY <2>1, <2>2
<1> QED BY <1>4, <1>5, <1>6, <1>7 DEF MarketInv

LEMMA StepExecution ==
  ASSUME MarketInv, NEW e \in Execs,
         \/ StartSwap(e) \/ EnforceSwap(e) \/ GetQuote(e) \/ QuoteArrives(e) \/ SignSwap(e)
         \/ RecordSwap(e) \/ TakerSign(e)
  PROVE  MarketInv'
<1>1. MarketTypes /\ ExecFits(e)
  BY DEF MarketInv
<1> USE DEF Step, clients, money, Executing
<1>2. CASE StartSwap(e)
  <2>1. Proceeds(e, "enforce")
    BY <1>1, <1>2 DEF StartSwap, Proceeds, MarketTypes
  <2> QED BY <2>1, OneProceeds
<1>3. CASE EnforceSwap(e)
  <2>1. Proceeds(e, "getQuote")
    BY <1>1, <1>3 DEF EnforceSwap, Proceeds, MarketTypes
  <2> QED BY <2>1, OneProceeds
<1>4. CASE GetQuote(e)
  <2>1. Proceeds(e, "fetching")
    BY <1>1, <1>4 DEF GetQuote, Proceeds, MarketTypes
  <2> QED BY <2>1, OneProceeds
<1>5. CASE QuoteArrives(e)
  <2>1. Proceeds(e, "sign")
    BY <1>1, <1>5 DEF QuoteArrives, Proceeds, MarketTypes
  <2> QED BY <2>1, OneProceeds
<1>6. CASE SignSwap(e)
  <2>1. Proceeds(e, "record")
    BY <1>1, <1>6 DEF SignSwap, Proceeds, MarketTypes
  <2> QED BY <2>1, OneProceeds
<1>7. CASE RecordSwap(e)
  <2>1. Proceeds(e, "takerSign")
    BY <1>1, <1>7 DEF RecordSwap, Proceeds, MarketTypes, ExecFits
  <2> QED BY <2>1, OneProceeds
<1>8. CASE TakerSign(e)
  <2>1. Proceeds(e, "sending")
    BY <1>1, <1>8 DEF TakerSign, Proceeds, MarketTypes, ExecFits
  <2> QED BY <2>1, OneProceeds
<1> QED BY <1>2, <1>3, <1>4, <1>5, <1>6, <1>7, <1>8

\* However its section ends, an execution closes the stream of its quote.
LEMMA StepFinish ==
  ASSUME MarketInv, NEW e \in Execs, running[e] \in Executing, Finish(e), UNCHANGED <<signings, counted>>
  PROVE  MarketInv'
<1>1. /\ quoting' = quoting /\ promise' = promise /\ held' = held /\ target' = target
      /\ signings' = signings /\ counted' = counted
      /\ running' = [running EXCEPT ![e] = "done"]
      /\ sock' = [sock EXCEPT ![target[e]] = "destroyed"]
  BY DEF Finish, Step, Disconnect
<1>2. target[e] \in Calls /\ quoting[target[e]] = "held"
  BY DEF MarketInv, ExecFits
<1>3. /\ running'[e] = "done" /\ \A f \in Execs \ {e} : running'[f] = running[f]
      /\ sock'[target[e]] = "destroyed" /\ \A c \in Calls \ {target[e]} : sock'[c] = sock[c]
      /\ "done" \notin Executing
  BY <1>1, <1>2 DEF MarketInv, MarketTypes, Executing
<1>4. MarketTypes'
  BY <1>1 DEF MarketInv, MarketTypes
<1>5. Apart'
  BY <1>1, <1>3 DEF MarketInv, Apart
<1>6. ASSUME NEW c \in Calls PROVE CallFits(c)'
  <2>1. CallFits(c) /\ (Untaken(c)' <=> Untaken(c))
    BY <1>1 DEF MarketInv, Untaken
  <2>2. CASE c # target[e]
    <3>1. Live(c)' <=> Live(c)
      BY <1>3, <2>2 DEF Live
    <3>2. \A f \in Execs : target[f] = c /\ running[f] \in Executing => running'[f] \in Executing
      BY <1>3, <2>2
    <3>3. \A f \in Execs : running'[f] \in Executing => running[f] \in Executing
      BY <1>3
    <3> QED BY <1>1, <1>3, <2>1, <2>2, <3>1, <3>2, <3>3 DEF CallFits
  <2>3. CASE c = target[e]
    <3>1. ~Live(c)' /\ quoting[c] \notin Early
      BY <1>2, <1>3, <2>3 DEF Live, Early
    <3>2. ~Untaken(c)
      BY <2>1, <2>3 DEF CallFits
    <3> QED BY <1>1, <2>1, <3>1, <3>2 DEF CallFits
  <2> QED BY <2>2, <2>3
<1>7. ASSUME NEW f \in Execs PROVE ExecFits(f)'
  <2>1. CASE f = e
    BY <1>3, <2>1 DEF ExecFits
  <2>2. CASE f # e
    BY <1>1, <1>3, <2>2 DEF MarketInv, ExecFits
  <2> QED BY <2>1, <2>2
<1> QED BY <1>4, <1>5, <1>6, <1>7 DEF MarketInv

\* A quote is taken once: out of the registry, into one execution or none.
LEMMA StepExecute == ASSUME MarketInv, NEW e \in Execs, NEW c \in Calls, Execute(e, c) PROVE MarketInv'
<1>1. /\ running[e] = "idle" /\ c \in held
      /\ quoting' = quoting /\ promise' = promise /\ held' = held \ {c}
      /\ signings' = signings /\ counted' = counted
      /\ target' = [target EXCEPT ![e] = c]
      /\ \/ running' = [running EXCEPT ![e] = "queued"] /\ sock' = sock
         \/ running' = [running EXCEPT ![e] = "done"] /\ sock' = [sock EXCEPT ![c] = "destroyed"]
  BY DEF Execute, Step, Disconnect, Take, clients, money
<1>2. CallFits(c) /\ quoting[c] = "held" /\ Untaken(c) /\ signings[c] = 0
      /\ \A f \in Execs : running[f] \in Executing => target[f] # c
  BY <1>1 DEF MarketInv, CallFits, Untaken
<1>3. /\ target'[e] = c /\ \A f \in Execs \ {e} : target'[f] = target[f] /\ running'[f] = running[f]
      /\ \A x \in Calls \ {c} : sock'[x] = sock[x]
      /\ "queued" \in Executing /\ "done" \notin Executing /\ running[e] \notin Executing
      /\ \/ running'[e] = "queued" /\ sock'[c] = sock[c]
         \/ running'[e] = "done" /\ sock'[c] = "destroyed"
  BY <1>1 DEF MarketInv, MarketTypes, Executing
<1>4. MarketTypes'
  BY <1>1, <1>3 DEF MarketInv, MarketTypes
<1>5. Apart'
  BY <1>2, <1>3 DEF MarketInv, Apart
<1>6. ASSUME NEW x \in Calls PROVE CallFits(x)'
  <2>1. CallFits(x)
    BY DEF MarketInv
  <2>2. CASE x # c
    <3>1. (Untaken(x)' <=> Untaken(x)) /\ (Live(x)' <=> Live(x)) /\ (x \in held' <=> x \in held)
      BY <1>1, <1>3, <2>2 DEF Untaken, Live
    <3>2. \A f \in Execs : (target'[f] = x /\ running'[f] \in Executing) <=> (target[f] = x /\ running[f] \in Executing)
      BY <1>3, <2>2
    <3>3. Live(x)' => \/ quoting'[x] \in Quoting
                      \/ x \in held'
                      \/ \E f \in Execs : target'[f] = x /\ running'[f] \in Executing
                      \/ promise'[x] = "rejected"
      BY <1>1, <2>1, <3>1, <3>2 DEF CallFits
    <3>4. Untaken(x)' => /\ signings'[x] = 0
                         /\ \A f \in Execs : running'[f] \in Executing => target'[f] # x
      BY <1>1, <2>1, <3>1, <3>2 DEF CallFits
    <3>5. quoting'[x] \in Early => sock'[x] = "none"
      BY <1>1, <1>3, <2>1, <2>2 DEF CallFits
    <3> QED BY <1>1, <2>1, <3>1, <3>3, <3>4, <3>5 DEF CallFits
  <2>3. CASE x = c
    <3>1. ~Untaken(c)' /\ quoting[c] \notin Early
      BY <1>1, <1>2 DEF Untaken, Early
    <3>2. Live(c)' => target'[e] = c /\ running'[e] \in Executing
      BY <1>3 DEF Live
    <3>3. Live(c)' => \E f \in Execs : target'[f] = c /\ running'[f] \in Executing
      BY <3>2
    <3>4. c \notin held' /\ signings'[c] = 0 /\ quoting'[c] = "held"
      BY <1>1, <1>2
    <3> QED BY <1>1, <2>3, <3>1, <3>3, <3>4 DEF CallFits
  <2> QED BY <2>2, <2>3
<1>7. ASSUME NEW f \in Execs PROVE ExecFits(f)'
  <2>1. CASE f = e
    BY <1>1, <1>2, <1>3, <2>1 DEF ExecFits
  <2>2. CASE f # e
    BY <1>1, <1>3, <2>2 DEF MarketInv, ExecFits
  <2> QED BY <2>1, <2>2
<1> QED BY <1>4, <1>5, <1>6, <1>7 DEF MarketInv

LEMMA StepUnknown == ASSUME MarketInv, NEW e \in Execs, ExecuteUnknown(e) PROVE MarketInv'
<1>1. /\ running[e] = "idle" /\ running' = [running EXCEPT ![e] = "done"]
      /\ quoting' = quoting /\ sock' = sock /\ promise' = promise /\ held' = held
      /\ target' = target /\ signings' = signings /\ counted' = counted
  BY DEF ExecuteUnknown, Step, clients, money
<1>2. /\ \A f \in Execs : running'[f] \in Executing <=> running[f] \in Executing
      /\ \A f \in Execs : running[f] \in Executing => running'[f] = running[f]
  BY <1>1 DEF MarketInv, MarketTypes, Executing
<1>3. MarketTypes'
  BY <1>1 DEF MarketInv, MarketTypes
<1>4. Apart'
  BY <1>1, <1>2 DEF MarketInv, Apart
<1>5. \A c \in Calls : CallFits(c)'
  BY <1>1, <1>2 DEF MarketInv, CallFits, Live, Untaken
<1>6. \A f \in Execs : ExecFits(f)'
  BY <1>1, <1>2 DEF MarketInv, ExecFits
<1> QED BY <1>3, <1>4, <1>5, <1>6 DEF MarketInv

\* A socket drops: the execution on it fails, or the quote call that waits, or the
\* client goes on with a timer.
LEMMA StepClose == ASSUME MarketInv, NEW c \in Calls, HandleClose(c) PROVE MarketInv'
<1>1. \/ \E e \in Interrupted(c) : Finish(e) /\ UNCHANGED money
      \/ Move(c, "failed") /\ Disconnect(c) /\ UNCHANGED <<held, running, target, money>>
      \/ /\ Backoff(c)
         /\ promise' = [promise EXCEPT ![c] = IF @ = "pending" THEN "deaf" ELSE @]
         /\ UNCHANGED <<quoting, held, running, target, money>>
  BY DEF HandleClose
<1>2. sock[c] \in {"opening", "open"} /\ MarketTypes /\ CallFits(c)
  BY DEF HandleClose, MarketInv
<1>3. ASSUME NEW e \in Interrupted(c), Finish(e), UNCHANGED money PROVE MarketInv'
  BY <1>3, StepFinish DEF Interrupted, Executing, money
<1>4. CASE Move(c, "failed") /\ Disconnect(c) /\ UNCHANGED <<held, running, target, money>> /\ quoting[c] = "waiting"
  <2>1. OneCall(c)
    BY <1>2, <1>4 DEF MarketTypes, CallFits, OneCall, Live, Untaken, Move, money, Quoting, Early, Disconnect
  <2> QED BY <2>1, OneCallMoves
<1>5. CASE /\ Backoff(c)
           /\ promise' = [promise EXCEPT ![c] = IF @ = "pending" THEN "deaf" ELSE @]
           /\ UNCHANGED <<quoting, held, running, target, money>>
  <2>1. OneCall(c)
    BY <1>2, <1>5 DEF MarketTypes, CallFits, OneCall, Live, Untaken, money, Backoff, Early
  <2> QED BY <2>1, OneCallMoves
<1> QED BY <1>1, <1>3, <1>4, <1>5 DEF HandleClose

\* A process that stops takes every socket and every execution with it.
LEMMA StepMarketStop == ASSUME MarketInv, Stop PROVE MarketInv'
<1>1. /\ quoting' = [c \in Calls |-> IF quoting[c] = "idle" THEN "idle" ELSE "failed"]
      /\ sock' = [c \in Calls |-> IF sock[c] = "none" THEN "none" ELSE "destroyed"]
      /\ running' = [e \in Execs |-> IF running[e] = "idle" THEN "idle" ELSE "done"]
      /\ held' = {} /\ promise' = promise /\ target' = target
      /\ signings' = signings /\ counted' = counted
  BY DEF Stop, money
<1>2. \A e \in Execs : running'[e] \notin Executing
  BY <1>1 DEF Executing
<1>3. MarketTypes'
  BY <1>1 DEF MarketInv, MarketTypes
<1>4. ASSUME NEW c \in Calls PROVE CallFits(c)'
  <2>1. CallFits(c)
    BY DEF MarketInv
  <2>2. ~Live(c)'
    BY <1>1 DEF Live
  <2>3. quoting'[c] \in Early => sock'[c] = "none"
    BY <1>1, <2>1 DEF CallFits, Early
  <2>4. Untaken(c)' => Untaken(c)
    BY <1>1 DEF Untaken
  <2> QED BY <1>1, <1>2, <2>1, <2>2, <2>3, <2>4 DEF CallFits
<1> QED BY <1>2, <1>3, <1>4 DEF MarketInv, Apart, ExecFits

LEMMA StepMarket == MarketInv /\ [DeskNext]_deskVars => MarketInv'
<1> SUFFICES ASSUME MarketInv, [DeskNext]_deskVars PROVE MarketInv'
  OBVIOUS
<1>1. CASE MarketNext
  <2>1. CASE DisposeAll
    BY <2>1, StepDispose
  <2>2. ASSUME NEW c \in Calls,
               \/ Ask(c) \/ SelectCoins(c) \/ AskAddress(c) \/ GetAddress(c) \/ Connect(c)
               \/ ConnectResolves(c) \/ ConnectTimesOut(c) \/ StartQuotes(c)
        PROVE  MarketInv'
    BY <2>2, QuoteSteps, OneCallMoves
  <2>3. ASSUME NEW c \in Calls,
               \/ HandleOpen(c) \/ MarketsAnswer(c) \/ SubscriptionAnswers(c) \/ StreamFails(c)
               \/ Tick(c) \/ Lapse(c) \/ Evict(c) \/ ReconnectTimer(c)
        PROVE  MarketInv'
    BY <2>3, StreamSteps, OneCallMoves
  <2>4. ASSUME NEW c \in Calls, HandleClose(c) PROVE MarketInv'
    BY <2>4, StepClose
  <2>5. ASSUME NEW c \in Calls, ServerBroadcasts(c) PROVE MarketInv'
    BY <2>5, MarketStays DEF ServerBroadcasts, clients
  <2>6. ASSUME NEW e \in Execs, NEW c \in Calls, Execute(e, c) PROVE MarketInv'
    BY <2>6, StepExecute
  <2>7. ASSUME NEW e \in Execs, ExecuteUnknown(e) PROVE MarketInv'
    BY <2>7, StepUnknown
  <2>8. ASSUME NEW e \in Execs,
               \/ StartSwap(e) \/ EnforceSwap(e) \/ GetQuote(e) \/ QuoteArrives(e) \/ SignSwap(e)
               \/ RecordSwap(e) \/ TakerSign(e)
        PROVE  MarketInv'
    BY <2>8, StepExecution
  <2>9. ASSUME NEW e \in Execs, SwapFails(e) \/ SwapDone(e) PROVE MarketInv'
    <3>1. running[e] \in Executing /\ Finish(e) /\ UNCHANGED <<signings, counted>>
      BY <2>9 DEF SwapFails, SwapDone, money, Executing
    <3> QED BY <3>1, StepFinish
  <2> QED BY <1>1, <2>1, <2>2, <2>3, <2>4, <2>5, <2>6, <2>7, <2>8, <2>9 DEF MarketNext
<1>2. CASE OrdersNext /\ UNCHANGED <<marketVars, stops>>
  BY <1>2, MarketStays DEF marketVars, clients, money
<1>3. CASE Stop
  BY <1>3, StepMarketStop
<1>4. CASE UNCHANGED deskVars
  BY <1>4, MarketStays DEF deskVars, marketVars, clients, money
<1> QED BY <1>1, <1>2, <1>3, <1>4 DEF DeskNext

THEOREM MarketInvariance == DeskSpec => []MarketInv
<1>1. DeskInit => MarketInv
  BY InitMarket DEF DeskInit
<1> QED BY <1>1, StepMarket, PTL DEF DeskSpec

\* Whatever drops, times out, is refused or stops, somebody answers for every
\* socket that is open or will be opened again.
THEOREM EverySocketIsOwned == DeskSpec => []SocketsAreOwned
<1>1. MarketInv => SocketsAreOwned
  BY DEF MarketInv, CallFits, SocketsAreOwned
<1> QED BY <1>1, MarketInvariance, PTL

\* Whatever answers are lost, a quote is swapped once at most, and counted first.
THEOREM QuotesAreSwappedOnce == DeskSpec => []OneCountedSwapPerQuote
<1>1. MarketInv => OneCountedSwapPerQuote
  BY DEF MarketInv, CallFits, OneCountedSwapPerQuote
<1> QED BY <1>1, MarketInvariance, PTL
-----------------------------------------------------------------------------
(* The sections of opMutex                                                 *)

Who == Calls \cup Execs \cup Operations

\* After its call to runExclusive, and before its section has settled.
Chained(o) == \/ kind[o] = "shift" /\ at[o] \in 2 .. 9
              \/ kind[o] = "receive" /\ at[o] \in 2 .. 4
              \/ kind[o] = "pegOut" /\ at[o] \in 2 .. 8
              \/ kind[o] = "gift" /\ at[o] \in 5 .. 10
Begun(o) == \/ kind[o] = "shift" /\ at[o] \in 3 .. 9
            \/ kind[o] = "receive" /\ at[o] \in 3 .. 4
            \/ kind[o] = "pegOut" /\ at[o] \in 3 .. 8
            \/ kind[o] = "gift" /\ at[o] \in 6 .. 10

Allocating == {"receiving", "changing"}
OnChain == {c \in Calls : quoting[c] \in Allocating}
             \cup {e \in Execs : running[e] \in Executing}
             \cup {o \in Operations : Chained(o)}

\* Whoever waits for its section or is inside it is on the chain, once, and
\* whoever is inside is its head.
ChainFits ==
  /\ chain \in Seq(Who)
  /\ \A i, j \in DOMAIN chain : chain[i] = chain[j] => i = j
  /\ ToSet(chain) = OnChain
  /\ \A x \in Inside : chain # <<>> /\ Head(chain) = x

LEMMA SectionPlaces ==
  ASSUME OrdersInv, NEW o \in Operations
  PROVE  InSection(o) <=> Begun(o)
<1>0. kind[o] \in DOMAIN Flow \cup {"none"} /\ at[o] \in Nat
  BY DEF OrdersInv, OrderTypes
<1>1. CASE at[o] = 0
  BY <1>1 DEF InSection, Begun
<1>2. CASE at[o] # 0
  <2>0. kind[o] \in DOMAIN Flow /\ at[o] \in 1 .. Len(Flow[kind[o]])
    BY <1>0, <1>2 DEF OrdersInv, OrderFits
  <2>1. \A k \in DOMAIN Flow : DOMAIN Flow[k] = 1 .. Len(Flow[k])
    BY DEF Flow, SendFlow, ReceiveFlow, PegOutFlow, BuyFlow
  <2>2. /\ \A i \in 1 .. 9 : /\ Flow["shift"][i] = "enter" <=> i = 2
                             /\ Flow["shift"][i] = "leave" <=> i = 9
        /\ \A i \in 1 .. 6 : /\ Flow["receive"][i] = "enter" <=> i = 2
                             /\ Flow["receive"][i] = "leave" <=> i = 4
        /\ \A i \in 1 .. 8 : /\ Flow["pegOut"][i] = "enter" <=> i = 2
                             /\ Flow["pegOut"][i] = "leave" <=> i = 8
        /\ \A i \in 1 .. 11 : /\ Flow["gift"][i] = "enter" <=> i = 5
                              /\ Flow["gift"][i] = "leave" <=> i = 10
    BY DEF Flow, SendFlow, ReceiveFlow, PegOutFlow, BuyFlow
  <2>3. CASE kind[o] = "shift"
    <3>1. DOMAIN Flow[kind[o]] = 1 .. 9 /\ at[o] \in 1 .. 9
      BY <2>0, <2>1, <2>3, TheFlows
    <3>2. (\E i \in 1 .. 9 : i < at[o] /\ Flow["shift"][i] = "enter") <=> 2 < at[o]
      BY <2>2, <3>1
    <3>3. (\E i \in 1 .. 9 : i >= at[o] /\ Flow["shift"][i] = "leave") <=> at[o] <= 9
      BY <2>2, <3>1
    <3>4. InSection(o) <=> 2 < at[o] /\ at[o] <= 9
      BY <1>2, <2>3, <3>1, <3>2, <3>3 DEF InSection
    <3> QED BY <2>3, <3>1, <3>4 DEF Begun
  <2>4. CASE kind[o] = "receive"
    <3>1. DOMAIN Flow[kind[o]] = 1 .. 6 /\ at[o] \in 1 .. 6
      BY <2>0, <2>1, <2>4, TheFlows
    <3>2. (\E i \in 1 .. 6 : i < at[o] /\ Flow["receive"][i] = "enter") <=> 2 < at[o]
      BY <2>2, <3>1
    <3>3. (\E i \in 1 .. 6 : i >= at[o] /\ Flow["receive"][i] = "leave") <=> at[o] <= 4
      BY <2>2, <3>1
    <3>4. InSection(o) <=> 2 < at[o] /\ at[o] <= 4
      BY <1>2, <2>4, <3>1, <3>2, <3>3 DEF InSection
    <3> QED BY <2>4, <3>1, <3>4 DEF Begun
  <2>5. CASE kind[o] = "pegOut"
    <3>1. DOMAIN Flow[kind[o]] = 1 .. 8 /\ at[o] \in 1 .. 8
      BY <2>0, <2>1, <2>5, TheFlows
    <3>2. (\E i \in 1 .. 8 : i < at[o] /\ Flow["pegOut"][i] = "enter") <=> 2 < at[o]
      BY <2>2, <3>1
    <3>3. (\E i \in 1 .. 8 : i >= at[o] /\ Flow["pegOut"][i] = "leave") <=> at[o] <= 8
      BY <2>2, <3>1
    <3>4. InSection(o) <=> 2 < at[o] /\ at[o] <= 8
      BY <1>2, <2>5, <3>1, <3>2, <3>3 DEF InSection
    <3> QED BY <2>5, <3>1, <3>4 DEF Begun
  <2>6. CASE kind[o] = "gift"
    <3>1. DOMAIN Flow[kind[o]] = 1 .. 11 /\ at[o] \in 1 .. 11
      BY <2>0, <2>1, <2>6, TheFlows
    <3>2. (\E i \in 1 .. 11 : i < at[o] /\ Flow["gift"][i] = "enter") <=> 5 < at[o]
      BY <2>2, <3>1
    <3>3. (\E i \in 1 .. 11 : i >= at[o] /\ Flow["gift"][i] = "leave") <=> at[o] <= 10
      BY <2>2, <3>1
    <3>4. InSection(o) <=> 5 < at[o] /\ at[o] <= 10
      BY <1>2, <2>6, <3>1, <3>2, <3>3 DEF InSection
    <3> QED BY <2>6, <3>1, <3>4 DEF Begun
  <2> QED BY <2>0, <2>3, <2>4, <2>5, <2>6, TheFlows
<1> QED BY <1>0, <1>1, <1>2

\* What a step may do to the chain and to who is inside.
ChainStays == UNCHANGED <<chain, OnChain, Inside>>
Joins(x) == /\ x \in Who \ OnChain /\ Join(x)
            /\ OnChain' = OnChain \cup {x} /\ UNCHANGED Inside
Enters(x) == /\ x \in (Execs \cup Operations) \ Inside /\ Turn(x)
             /\ Inside' = Inside \cup {x} /\ UNCHANGED <<chain, OnChain>>
Departs(x) == /\ x \in Who /\ Turn(x) /\ Settled
              /\ OnChain' = OnChain \ {x} /\ Inside' = Inside \ {x}
Empties == chain' = <<>> /\ OnChain' = {} /\ Inside' = {}
ChainMoves == \/ ChainStays \/ Empties
              \/ \E x \in Who : Joins(x) \/ Enters(x) \/ Departs(x)

\* Each of these keeps the chain and is a step of the mutex, or none.
LEMMA ChainKeeps ==
  ASSUME ChainFits, ChainMoves
  PROVE  ChainFits' /\ (Section!Next \/ UNCHANGED Inside)
<1> USE DEF ChainFits, ToSet
<1>0. Inside \subseteq Execs \cup Operations
  BY DEF Inside
<1>1. CASE ChainStays
  BY <1>1 DEF ChainStays
<1>2. CASE Empties
  <2>1. ChainFits'
    BY <1>2 DEF Empties
  <2>2. Inside = {} \/ \E x \in Execs \cup Operations : Inside = {x}
    BY <1>0
  <2> QED BY <1>2, <2>1, <2>2 DEF Empties, Section!Next, Section!Leave
<1>3. ASSUME NEW x \in Who, Joins(x) PROVE ChainFits' /\ UNCHANGED Inside
  <2>1. /\ chain' \in Seq(Who) /\ chain' # <<>>
        /\ Len(chain') = Len(chain) + 1
        /\ \A i \in 1 .. Len(chain) : chain'[i] = chain[i]
        /\ chain'[Len(chain) + 1] = x
    BY <1>3, AppendProperties DEF Joins, Join
  <2>2. /\ Len(chain) \in Nat /\ DOMAIN chain = 1 .. Len(chain) /\ DOMAIN chain' = 1 .. Len(chain) + 1
    BY <2>1
  <2>3. x \notin ToSet(chain)
    BY <1>3 DEF Joins
  <2>4. \A i, j \in DOMAIN chain' : chain'[i] = chain'[j] => i = j
    BY <2>1, <2>2, <2>3
  <2>5. ToSet(chain') = ToSet(chain) \cup {x}
    BY <2>1, <2>2
  <2>6. \A y \in Inside : Head(chain') = y
    <3> SUFFICES ASSUME NEW y \in Inside PROVE Head(chain') = y
      OBVIOUS
    <3>1. chain # <<>> /\ Head(chain) = y
      OBVIOUS
    <3>2. Head(chain') = Head(chain)
      BY <1>3, <3>1, HeadTailAppend DEF Joins, Join
    <3> QED BY <3>1, <3>2
  <2> QED BY <1>3, <2>1, <2>4, <2>5, <2>6 DEF Joins
<1>4. ASSUME NEW x \in Who, Enters(x) PROVE ChainFits' /\ Section!Next
  <2>1. Inside = {}
    BY <1>4 DEF Enters, Turn
  <2>2. Inside' = {x} /\ x \in Execs \cup Operations
    BY <1>4, <2>1 DEF Enters
  <2>3. ChainFits'
    BY <1>4, <2>2 DEF Enters, Turn
  <2> QED BY <2>1, <2>2, <2>3 DEF Section!Next, Section!Enter
<1>5. ASSUME NEW x \in Who, Departs(x) PROVE ChainFits' /\ (Section!Next \/ UNCHANGED Inside)
  <2>1. chain # <<>> /\ Head(chain) = x /\ chain' = Tail(chain)
    BY <1>5 DEF Departs, Turn, Settled
  <2>2. /\ chain' \in Seq(Who)
        /\ Len(chain') = Len(chain) - 1
        /\ \A i \in 1 .. Len(chain') : chain'[i] = chain[i + 1]
    BY <2>1, HeadTailProperties
  <2>3. /\ Len(chain) \in Nat \ {0} /\ DOMAIN chain = 1 .. Len(chain) /\ chain[1] = x
        /\ DOMAIN chain' = 1 .. Len(chain) - 1
    BY <2>1, <2>2, EmptySeq
  <2>4. ASSUME NEW i \in DOMAIN chain', NEW j \in DOMAIN chain', chain'[i] = chain'[j]
        PROVE  i = j
    <3>1. i \in Nat /\ j \in Nat /\ i + 1 \in DOMAIN chain /\ j + 1 \in DOMAIN chain
      BY <2>3
    <3>2. chain[i + 1] = chain[j + 1]
      BY <2>2, <2>3, <2>4
    <3>3. i + 1 = j + 1
      BY <3>1, <3>2
    <3> QED BY <3>1, <3>3
  <2>5. ToSet(chain') = ToSet(chain) \ {x}
    <3>1. \A i \in DOMAIN chain' : chain'[i] \in ToSet(chain) /\ chain'[i] # x
      BY <2>2, <2>3
    <3>2. \A i \in DOMAIN chain : chain[i] # x => i - 1 \in DOMAIN chain' /\ chain'[i - 1] = chain[i]
      BY <2>2, <2>3
    <3> QED BY <3>1, <3>2
  <2>6. Inside' = {}
    BY <1>5, <2>1 DEF Departs
  <2>7. Inside = {} \/ (Inside = {x} /\ x \in Execs \cup Operations)
    BY <1>0, <2>1
  <2> QED BY <1>5, <2>2, <2>4, <2>5, <2>6, <2>7 DEF Departs, Section!Next, Section!Leave
<1> QED BY <1>1, <1>2, <1>3, <1>4, <1>5 DEF ChainMoves

\* Operations that stay where they are.
LEMMA OperationsStay ==
  ASSUME UNCHANGED <<kind, at>>
  PROVE  \A o \in Operations : (Chained(o)' <=> Chained(o)) /\ (InSection(o)' <=> InSection(o))
BY DEF Chained, InSection

\* A quote call that neither asks for an address nor gets one.
LEMMA CallStays ==
  ASSUME MarketInv, NEW c \in Calls, UNCHANGED <<chain, running, kind, at>>,
         \/ UNCHANGED quoting
         \/ quoting[c] \notin Allocating /\ \E s : s \notin Allocating /\ Move(c, s)
  PROVE  ChainStays
<1>1. \A d \in Calls : quoting'[d] \in Allocating <=> quoting[d] \in Allocating
  BY DEF Move, MarketInv, MarketTypes
<1> QED BY <1>1, OperationsStay DEF ChainStays, OnChain, Inside

\* An execution that neither queues, starts nor ends.
LEMMA ExecStays ==
  ASSUME MarketInv, NEW e \in Execs, UNCHANGED <<chain, quoting, kind, at>>,
         \E s : /\ Step(e, s)
                /\ s \in Executing <=> running[e] \in Executing
                /\ s = "queued" <=> running[e] = "queued"
  PROVE  ChainStays
<1>1. \A f \in Execs : /\ running'[f] \in Executing <=> running[f] \in Executing
                       /\ running'[f] \in Executing \ {"queued"} <=> running[f] \in Executing \ {"queued"}
  BY DEF Step, MarketInv, MarketTypes
<1> QED BY <1>1, OperationsStay DEF ChainStays, OnChain, Inside

LEMMA CallsOnTheChain ==
  ASSUME MarketInv, ChainFits, NEW c \in Calls, UNCHANGED <<kind, at>>,
         AskAddress(c) \/ GetAddress(c)
  PROVE  ChainMoves
<1>0. /\ quoting \in [Calls -> Quoting \cup {"idle", "held", "failed"}]
      /\ c \in Who /\ c \notin Execs /\ c \notin Operations /\ UNCHANGED running
  BY DeskAssumption DEF MarketInv, MarketTypes, Who, AskAddress, GetAddress
<1>1. Inside' = Inside /\ c \notin Inside
  BY <1>0, OperationsStay DEF Inside
<1>2. CASE AskAddress(c)
  <2>1. quoting[c] \notin Allocating /\ quoting'[c] \in Allocating /\ \A d \in Calls \ {c} : quoting'[d] = quoting[d]
    BY <1>0, <1>2 DEF AskAddress, Move, Allocating
  <2>2. c \notin OnChain /\ OnChain' = OnChain \cup {c}
    BY <1>0, <2>1, OperationsStay DEF OnChain
  <2> QED BY <1>0, <1>1, <1>2, <2>2 DEF AskAddress, Joins, ChainMoves
<1>3. CASE GetAddress(c)
  <2>1. quoting'[c] \notin Allocating /\ \A d \in Calls \ {c} : quoting'[d] = quoting[d]
    BY <1>0, <1>3 DEF GetAddress, Move, Allocating
  <2>2. OnChain' = OnChain \ {c}
    BY <1>0, <2>1, OperationsStay DEF OnChain
  <2> QED BY <1>0, <1>1, <1>3, <2>2 DEF GetAddress, Departs, ChainMoves
<1> QED BY <1>2, <1>3

LEMMA ExecutionEnds ==
  ASSUME MarketInv, ChainFits, NEW e \in Execs, running[e] \in Executing \ {"queued"},
         Finish(e), UNCHANGED <<kind, at>>
  PROVE  ChainMoves
<1>0. /\ running \in [Execs -> Executing \cup {"idle", "done"}] /\ UNCHANGED quoting
      /\ e \in Who /\ e \notin Calls /\ e \notin Operations
  BY DeskAssumption DEF MarketInv, MarketTypes, Who, Finish
<1>1. e \in Inside
  BY DEF Inside
<1>2. Turn(e)
  BY <1>1 DEF ChainFits, Turn
<1>3. running'[e] \notin Executing /\ \A f \in Execs \ {e} : running'[f] = running[f]
  BY <1>0 DEF Finish, Step, Executing
<1>4. OnChain' = OnChain \ {e} /\ Inside' = Inside \ {e}
  BY <1>0, <1>3, OperationsStay DEF OnChain, Inside
<1> QED BY <1>0, <1>2, <1>4 DEF Finish, Departs, ChainMoves

LEMMA ExecutionStarts ==
  ASSUME MarketInv, NEW e \in Execs, UNCHANGED <<kind, at>>,
         StartSwap(e) \/ \E c \in Calls : Execute(e, c)
  PROVE  ChainMoves
<1>0. /\ running \in [Execs -> Executing \cup {"idle", "done"}] /\ UNCHANGED quoting
      /\ e \in Who /\ e \notin Calls /\ e \notin Operations
  BY DeskAssumption DEF MarketInv, MarketTypes, Who, StartSwap, Execute
<1>1. CASE StartSwap(e)
  <2>1. /\ running[e] = "queued" /\ running'[e] = "enforce" /\ UNCHANGED chain
        /\ \A f \in Execs \ {e} : running'[f] = running[f]
    BY <1>0, <1>1 DEF StartSwap, Step
  <2>2. e \notin Inside /\ Inside' = Inside \cup {e}
    BY <1>0, <2>1, OperationsStay DEF Inside, Executing
  <2>3. OnChain' = OnChain
    BY <1>0, <2>1, OperationsStay DEF OnChain, Executing
  <2> QED BY <1>0, <1>1, <2>1, <2>2, <2>3 DEF StartSwap, Enters, ChainMoves
<1>2. ASSUME NEW c \in Calls, Execute(e, c), Step(e, "queued"), Join(e) PROVE ChainMoves
  <2>1. /\ running[e] = "idle" /\ running'[e] = "queued"
        /\ \A f \in Execs \ {e} : running'[f] = running[f]
    BY <1>0, <1>2 DEF Execute, Step
  <2>2. e \notin OnChain /\ OnChain' = OnChain \cup {e}
    BY <1>0, <2>1, OperationsStay DEF OnChain, Executing
  <2>3. Inside' = Inside
    BY <1>0, <2>1, OperationsStay DEF Inside, Executing
  <2> QED BY <1>0, <1>2, <2>2, <2>3 DEF Joins, ChainMoves
<1>3. ASSUME NEW c \in Calls, Execute(e, c), Step(e, "done"), UNCHANGED chain PROVE ChainMoves
  <2>1. running[e] = "idle"
    BY <1>3 DEF Execute
  <2> QED BY <1>0, <1>3, <2>1, ExecStays DEF ChainMoves, Executing
<1> QED BY <1>1, <1>2, <1>3 DEF Execute

LEMMA MarketOnTheChain ==
  ASSUME MarketInv, ChainFits, MarketNext, UNCHANGED orderVars
  PROVE  ChainMoves
<1>0. UNCHANGED <<kind, at>>
  BY DEF orderVars
<1>1. ASSUME NEW c \in Calls,
             \/ Ask(c) \/ SelectCoins(c) \/ Connect(c) \/ ConnectResolves(c) \/ ConnectTimesOut(c)
             \/ StartQuotes(c) \/ StreamFails(c) \/ Tick(c)
      PROVE  ChainMoves
  <2>1. UNCHANGED <<chain, running>>
    BY <1>1 DEF Ask, SelectCoins, Connect, ConnectResolves, ConnectTimesOut, StartQuotes, StreamFails, Doomed, Tick
  <2>2. \/ UNCHANGED quoting
        \/ quoting[c] \notin Allocating /\ \E s : s \notin Allocating /\ Move(c, s)
    <3>1. CASE Ask(c) \/ SelectCoins(c)
      BY <3>1 DEF Ask, SelectCoins, Allocating
    <3>2. CASE Connect(c) \/ ConnectResolves(c) \/ ConnectTimesOut(c) \/ StartQuotes(c)
      BY <3>2 DEF Connect, ConnectResolves, ConnectTimesOut, StartQuotes, Allocating
    <3>3. CASE StreamFails(c)
      BY <3>3 DEF StreamFails, Doomed, Allocating
    <3>4. CASE Tick(c)
      BY <3>4 DEF Tick, Register, Allocating
    <3> QED BY <1>1, <3>1, <3>2, <3>3, <3>4
  <2> QED BY <1>0, <2>1, <2>2, CallStays DEF ChainMoves
<1>2. ASSUME NEW c \in Calls,
             \/ HandleOpen(c) \/ MarketsAnswer(c) \/ SubscriptionAnswers(c) \/ Lapse(c) \/ Evict(c)
             \/ ReconnectTimer(c) \/ ServerBroadcasts(c)
      PROVE  ChainMoves
  <2>1. UNCHANGED <<chain, running, quoting>>
    BY <1>2 DEF HandleOpen, MarketsAnswer, SubscriptionAnswers, Lapse, Evict, ReconnectTimer,
                ServerBroadcasts
  <2> QED BY <1>0, <2>1, CallStays DEF ChainMoves
<1>3. ASSUME NEW c \in Calls, AskAddress(c) \/ GetAddress(c) PROVE ChainMoves
  BY <1>0, <1>3, CallsOnTheChain
<1>4. ASSUME NEW e \in Execs, StartSwap(e) \/ \E c \in Calls : Execute(e, c) PROVE ChainMoves
  BY <1>0, <1>4, ExecutionStarts
<1>5. ASSUME NEW e \in Execs,
             \/ ExecuteUnknown(e) \/ EnforceSwap(e) \/ GetQuote(e) \/ QuoteArrives(e) \/ SignSwap(e)
             \/ RecordSwap(e) \/ TakerSign(e)
      PROVE  ChainMoves
  <2>1. UNCHANGED <<chain, quoting>>
    BY <1>5 DEF ExecuteUnknown, EnforceSwap, GetQuote, QuoteArrives, SignSwap, RecordSwap, TakerSign
  <2>2. \E s : /\ Step(e, s)
               /\ s \in Executing <=> running[e] \in Executing
               /\ s = "queued" <=> running[e] = "queued"
    BY <1>5 DEF ExecuteUnknown, EnforceSwap, GetQuote, QuoteArrives, SignSwap, RecordSwap, TakerSign, Executing
  <2> QED BY <1>0, <2>1, <2>2, ExecStays DEF ChainMoves
<1>6. ASSUME NEW e \in Execs, SwapFails(e) \/ SwapDone(e) PROVE ChainMoves
  <2>1. running[e] \in Executing \ {"queued"} /\ Finish(e)
    BY <1>6 DEF SwapFails, SwapDone, Executing
  <2> QED BY <1>0, <2>1, ExecutionEnds
<1>7. ASSUME NEW c \in Calls, HandleClose(c) PROVE ChainMoves
  <2>1. CASE \E e \in Interrupted(c) : Finish(e)
    <3>1. PICK e \in Interrupted(c) : Finish(e)
      BY <2>1
    <3>2. e \in Execs /\ running[e] \in Executing \ {"queued"}
      BY <3>1 DEF Interrupted, Executing
    <3> QED BY <1>0, <3>1, <3>2, ExecutionEnds
  <2>2. CASE ~\E e \in Interrupted(c) : Finish(e)
    <3>1. UNCHANGED <<chain, running>> /\ (UNCHANGED quoting \/ (quoting[c] = "waiting" /\ Move(c, "failed")))
      BY <1>7, <2>2 DEF HandleClose
    <3> QED BY <1>0, <3>1, CallStays DEF ChainMoves, Allocating
  <2> QED BY <2>1, <2>2
<1>8. CASE DisposeAll
  <2>1. UNCHANGED <<chain, running, quoting>>
    BY <1>8 DEF DisposeAll
  <2> QED BY <1>0, <2>1, OperationsStay DEF ChainStays, ChainMoves, OnChain, Inside
<1> QED BY <1>1, <1>2, <1>3, <1>4, <1>5, <1>6, <1>7, <1>8 DEF MarketNext

SectionsFit == \A o \in Operations : InSection(o) <=> Begun(o)

LEMMA PlacesAlways == OrdersInv => SectionsFit
BY SectionPlaces DEF SectionsFit

LEMMA PlacesNext == OrdersInv' => SectionsFit'
BY PlacesAlways, PTL

\* One operation moves: only its own place on the chain can change.
LEMMA OneOnTheChain ==
  ASSUME OrdersInv, OrdersInv', NEW o \in Operations, NEW n, at' = [at EXCEPT ![o] = n],
         \A x \in Operations \ {o} : kind'[x] = kind[x], UNCHANGED <<running, quoting>>
  PROVE  /\ OnChain' = IF Chained(o)' THEN OnChain \cup {o} ELSE OnChain \ {o}
         /\ Inside' = IF Begun(o)' THEN Inside \cup {o} ELSE Inside \ {o}
         /\ o \in OnChain <=> Chained(o)
         /\ o \in Inside <=> Begun(o)
<1>0. o \notin Calls /\ o \notin Execs
  BY DeskAssumption
<1>1. \A x \in Operations \ {o} : at'[x] = at[x]
  BY DEF OrdersInv, OrderTypes
<1>2. \A x \in Operations \ {o} : (Chained(x)' <=> Chained(x)) /\ (Begun(x)' <=> Begun(x))
  BY <1>1 DEF Chained, Begun
<1>3. \A x \in Operations : InSection(x) <=> Begun(x)
  BY SectionPlaces
<1>4. \A x \in Operations : InSection(x)' <=> Begun(x)'
  BY PlacesNext DEF SectionsFit
<1>5. OnChain' = IF Chained(o)' THEN OnChain \cup {o} ELSE OnChain \ {o}
  BY <1>0, <1>2 DEF OnChain
<1>6. Inside' = {e \in Execs : running[e] \in Executing \ {"queued"}} \cup {x \in Operations : Begun(x)'}
  BY <1>4 DEF Inside
<1>7. Inside = {e \in Execs : running[e] \in Executing \ {"queued"}} \cup {x \in Operations : Begun(x)}
  BY <1>3 DEF Inside
<1>8. Inside' = IF Begun(o)' THEN Inside \cup {o} ELSE Inside \ {o}
  BY <1>0, <1>2, <1>6, <1>7
<1> QED BY <1>0, <1>3, <1>5, <1>8 DEF OnChain, Inside

\* It goes on outside its section, or inside.
LEMMA OneStays ==
  ASSUME OrdersInv, OrdersInv', NEW o \in Operations, NEW n, at' = [at EXCEPT ![o] = n],
         \A x \in Operations \ {o} : kind'[x] = kind[x], UNCHANGED <<running, quoting, chain>>,
         Chained(o)' <=> Chained(o), Begun(o)' <=> Begun(o)
  PROVE  ChainStays
<1>1. /\ OnChain' = IF Chained(o)' THEN OnChain \cup {o} ELSE OnChain \ {o}
      /\ Inside' = IF Begun(o)' THEN Inside \cup {o} ELSE Inside \ {o}
      /\ o \in OnChain <=> Chained(o)
      /\ o \in Inside <=> Begun(o)
  BY OneOnTheChain
<1>2. OnChain' = OnChain
  BY <1>1
<1>3. Inside' = Inside
  BY <1>1
<1> QED BY <1>2, <1>3 DEF ChainStays

\* Where it is by what it does, and where it goes.
LEMMA Positions ==
  ASSUME OrdersInv, NEW o \in Operations, at[o] # 0
  PROVE  /\ Doing(o) \in {"gate", "queue", "patch"} => ~Chained(o) /\ ~Begun(o)
         /\ Doing(o) = "enter" => Chained(o) /\ ~Begun(o)
         /\ Doing(o) \in {"enforce", "address", "sign", "record", "broadcast", "leave"} => Chained(o) /\ Begun(o)
         /\ Doing(o) \in {"order", "save"} => (Chained(o) <=> Begun(o))
BY Stations DEF At, ShiftAt, ReceiveAt, PegOutAt, GiftAt, Chained, Begun

LEMMA NextPlaces ==
  ASSUME OrdersInv, NEW o \in Operations, at[o] # 0, Advance(o), UNCHANGED kind
  PROVE  \E n : /\ at' = [at EXCEPT ![o] = n]
                /\ Doing(o) = "queue" => Chained(o)' /\ ~Begun(o)'
                /\ Doing(o) = "enter" => Chained(o)' /\ Begun(o)'
                /\ Doing(o) = "leave" => ~Chained(o)' /\ ~Begun(o)'
                /\ Doing(o) \notin {"queue", "enter", "leave"} =>
                     (Chained(o)' <=> Chained(o)) /\ (Begun(o)' <=> Begun(o))
<1>0. at \in [Operations -> Nat]
  BY DEF OrdersInv, OrderTypes
<1>1. CASE kind[o] = "shift"
  BY <1>0, <1>1, Stations DEF At, ShiftAt, Chained, Begun
<1>2. CASE kind[o] = "receive"
  BY <1>0, <1>2, Stations DEF At, ReceiveAt, Chained, Begun
<1>3. CASE kind[o] = "pegOut"
  BY <1>0, <1>3, Stations DEF At, PegOutAt, Chained, Begun
<1>4. CASE kind[o] = "gift"
  BY <1>0, <1>4, Stations DEF At, GiftAt, Chained, Begun
<1> QED BY <1>1, <1>2, <1>3, <1>4, Stations

LEMMA SectionOfOrders ==
  ASSUME OrdersInv, OrdersInv', ChainFits, NEW o \in Operations, UNCHANGED <<running, quoting>>,
         Queue(o) \/ EnterSection(o) \/ Leave(o)
  PROVE  ChainMoves
<1>0. o \in Who /\ o \in Execs \cup Operations /\ at[o] # 0 /\ Advance(o) /\ UNCHANGED kind
  BY DEF Who, Queue, EnterSection, Leave, Doing
<1>1. PICK n : /\ at' = [at EXCEPT ![o] = n]
               /\ Doing(o) = "queue" => Chained(o)' /\ ~Begun(o)'
               /\ Doing(o) = "enter" => Chained(o)' /\ Begun(o)'
               /\ Doing(o) = "leave" => ~Chained(o)' /\ ~Begun(o)'
  BY <1>0, NextPlaces
<1>2. /\ OnChain' = IF Chained(o)' THEN OnChain \cup {o} ELSE OnChain \ {o}
      /\ Inside' = IF Begun(o)' THEN Inside \cup {o} ELSE Inside \ {o}
      /\ o \in OnChain <=> Chained(o)
      /\ o \in Inside <=> Begun(o)
  BY <1>0, <1>1, OneOnTheChain
<1>3. CASE Queue(o)
  <2>1. Joins(o)
    BY <1>0, <1>1, <1>2, <1>3, Positions DEF Queue, Joins
  <2> QED BY <1>0, <2>1 DEF ChainMoves
<1>4. CASE EnterSection(o)
  <2>1. Enters(o)
    BY <1>0, <1>1, <1>2, <1>4, Positions DEF EnterSection, Enters
  <2> QED BY <1>0, <2>1 DEF ChainMoves
<1>5. CASE Leave(o)
  <2>1. Turn(o)
    BY <1>0, <1>2, <1>5, Positions DEF Leave, ChainFits, Turn
  <2>2. Departs(o)
    BY <1>0, <1>1, <1>2, <1>5, <2>1 DEF Leave, Departs
  <2> QED BY <1>0, <2>2 DEF ChainMoves
<1> QED BY <1>3, <1>4, <1>5

\* A section settles however its operation ends.
LEMMA FailureOnTheChain ==
  ASSUME OrdersInv, OrdersInv', ChainFits, NEW o \in Operations, UNCHANGED <<running, quoting>>,
         OperationFails(o)
  PROVE  ChainMoves
<1>0. /\ o \in Who /\ at[o] # 0 /\ at' = [at EXCEPT ![o] = 0] /\ UNCHANGED kind
      /\ Doing(o) \in {"enforce", "address", "order", "sign", "record", "broadcast"}
  BY DEF Who, OperationFails, End, Doing
<1>1. ~Chained(o)' /\ ~Begun(o)'
  BY <1>0 DEF OrdersInv, OrderTypes, Chained, Begun
<1>2. /\ OnChain' = OnChain \ {o} /\ Inside' = Inside \ {o}
      /\ o \in OnChain <=> Chained(o)
      /\ o \in Inside <=> Begun(o)
  BY <1>0, <1>1, OneOnTheChain
<1>3. Chained(o) <=> Begun(o)
  BY <1>0, Positions
<1>4. CASE InSection(o)
  <2>1. o \in Inside
    BY <1>4 DEF Inside
  <2>2. Turn(o)
    BY <2>1 DEF ChainFits, Turn
  <2>3. Departs(o)
    BY <1>0, <1>2, <1>4, <2>2 DEF OperationFails, Departs
  <2> QED BY <1>0, <2>3 DEF ChainMoves
<1>5. CASE ~InSection(o)
  <2>1. ~Begun(o)
    BY <1>5, SectionPlaces
  <2> QED BY <1>2, <1>3, <1>5, <2>1 DEF OperationFails, ChainStays, ChainMoves
<1> QED BY <1>4, <1>5

LEMMA OrdersOnTheChain ==
  ASSUME OrdersInv, OrdersInv', ChainFits, OrdersNext, UNCHANGED marketVars
  PROVE  ChainMoves
<1>0. UNCHANGED <<running, quoting>>
  BY DEF marketVars
<1>1. ASSUME ConfigArrives \/ ConfigUnreachable PROVE ChainMoves
  <2>1. UNCHANGED <<kind, chain>>
    BY <1>1 DEF ConfigArrives, ConfigUnreachable
  <2>2. \A o \in Operations : at'[o] = at[o] \/ (kind[o] = "gift" /\ at[o] = 1 /\ at'[o] \in {0, 2})
    <3> SUFFICES ASSUME NEW o \in Operations, at'[o] # at[o]
                 PROVE  kind[o] = "gift" /\ at[o] = 1 /\ at'[o] \in {0, 2}
      OBVIOUS
    <3>1. o \in Asking /\ at'[o] \in {0, 2}
      BY <1>1 DEF ConfigArrives, ConfigUnreachable
    <3>2. Doing(o) = "gate" /\ at[o] # 0
      BY <3>1 DEF Asking, Doing
    <3> QED BY <3>1, <3>2, Stations DEF At, ShiftAt, ReceiveAt, PegOutAt, GiftAt
  <2>3. \A o \in Operations : (Chained(o)' <=> Chained(o)) /\ (Begun(o)' <=> Begun(o))
    BY <2>1, <2>2 DEF Chained, Begun
  <2>4. \A o \in Operations : InSection(o) <=> Begun(o)
    BY SectionPlaces
  <2>5. \A o \in Operations : InSection(o)' <=> Begun(o)'
    BY PlacesNext DEF SectionsFit
  <2> QED BY <1>0, <2>1, <2>3, <2>4, <2>5 DEF ChainStays, ChainMoves, OnChain, Inside
<1>2. ASSUME UNCHANGED <<kind, at, chain>> PROVE ChainMoves
  BY <1>0, <1>2, OperationsStay DEF ChainStays, ChainMoves, OnChain, Inside
<1>3. ASSUME NEW o \in Operations, NEW k \in OrderKinds, Request(o, k) PROVE ChainMoves
  <2>1. /\ kind[o] = "none" /\ at' = [at EXCEPT ![o] = 1] /\ UNCHANGED chain
        /\ \A x \in Operations \ {o} : kind'[x] = kind[x]
    BY <1>3 DEF Request, OrdersInv, OrderTypes
  <2>2. ~Chained(o) /\ ~Begun(o)
    BY <2>1 DEF Chained, Begun
  <2>3. ~Chained(o)' /\ ~Begun(o)'
    BY <2>1 DEF OrdersInv, OrderTypes, Chained, Begun
  <2> QED BY <1>0, <2>1, <2>2, <2>3, OneStays DEF ChainMoves
<1>4. ASSUME NEW o \in Operations, Gate(o) PROVE ChainMoves
  <2>1. UNCHANGED <<kind, chain>> /\ Doing(o) = "gate" /\ at[o] # 0
    BY <1>4 DEF Gate, Doing
  <2>2. CASE Advance(o)
    <3>1. PICK n : at' = [at EXCEPT ![o] = n] /\ (Chained(o)' <=> Chained(o)) /\ (Begun(o)' <=> Begun(o))
      BY <2>1, <2>2, NextPlaces
    <3> QED BY <1>0, <2>1, <3>1, OneStays DEF ChainMoves
  <2>3. CASE End(o)
    <3>1. ~Chained(o)' /\ ~Begun(o)' /\ at' = [at EXCEPT ![o] = 0]
      BY <2>3 DEF End, OrdersInv, OrderTypes, Chained, Begun
    <3>2. ~Chained(o) /\ ~Begun(o)
      BY <2>1, Positions
    <3> QED BY <1>0, <2>1, <3>1, <3>2, OneStays DEF ChainMoves
  <2>4. CASE UNCHANGED at
    BY <1>2, <2>1, <2>4
  <2> QED BY <1>4, <2>2, <2>3, <2>4 DEF Gate
<1>5. ASSUME NEW o \in Operations,
             \/ Allow(o) \/ CreateOrder(o) \/ Sign(o) \/ RecordOrderSpend(o) \/ Broadcast(o)
             \/ SaveOrder(o) \/ Patch(o)
      PROVE  ChainMoves
  <2>1. /\ UNCHANGED <<kind, chain>> /\ Advance(o) /\ at[o] # 0
        /\ Doing(o) \notin {"queue", "enter", "leave"}
    BY <1>5 DEF Allow, CreateOrder, Sign, RecordOrderSpend, Broadcast, SaveOrder, Patch, Doing
  <2>2. PICK n : at' = [at EXCEPT ![o] = n] /\ (Chained(o)' <=> Chained(o)) /\ (Begun(o)' <=> Begun(o))
    BY <2>1, NextPlaces
  <2> QED BY <1>0, <2>1, <2>2, OneStays DEF ChainMoves
<1>6. ASSUME NEW o \in Operations, Queue(o) \/ EnterSection(o) \/ Leave(o) PROVE ChainMoves
  BY <1>0, <1>6, SectionOfOrders
<1>7. ASSUME NEW o \in Operations, OperationFails(o) PROVE ChainMoves
  BY <1>0, <1>7, FailureOnTheChain
<1>8. ASSUME NEW o \in Operations, NEW p \in Polls,
             GetStatus(p, o) \/ GetOrderStatus(p, o) \/ RefreshShift(p, o)
      PROVE  ChainMoves
  BY <1>2, <1>8 DEF GetStatus, GetOrderStatus, RefreshShift, AskProvider
<1>9. ASSUME NEW p \in Polls, FoldStatus(p) \/ PollFails(p) PROVE ChainMoves
  BY <1>2, <1>9 DEF FoldStatus, PollFails
<1>10. ASSUME NEW o \in Operations, ProviderMoves(o) PROVE ChainMoves
  BY <1>2, <1>10 DEF ProviderMoves
<1>11. CASE ShopMoves
  BY <1>2, <1>11 DEF ShopMoves
<1> QED BY <1>1, <1>3, <1>4, <1>5, <1>6, <1>7, <1>8, <1>9, <1>10, <1>11 DEF OrdersNext

LEMMA StepChain ==
  ASSUME MarketInv, OrdersInv, ChainFits, [DeskNext]_deskVars
  PROVE  ChainFits' /\ (Section!Next \/ UNCHANGED Inside)
<1>0. OrdersInv'
  BY StepOrders
<1>1. CASE MarketNext /\ UNCHANGED <<orderVars, stops>>
  BY <1>1, MarketOnTheChain, ChainKeeps
<1>2. CASE OrdersNext /\ UNCHANGED <<marketVars, stops>>
  BY <1>0, <1>2, OrdersOnTheChain, ChainKeeps
<1>3. CASE Stop
  <2>1. chain' = <<>> /\ \A o \in Operations : at'[o] = 0
    BY <1>3 DEF Stop, OrdersStop
  <2>2. \A c \in Calls : quoting'[c] \notin Allocating
    BY <1>3 DEF Stop, Allocating
  <2>3. \A e \in Execs : running'[e] \notin Executing
    BY <1>3 DEF Stop, Executing
  <2>4. \A o \in Operations : ~Chained(o)' /\ ~InSection(o)'
    BY <2>1 DEF Chained, InSection
  <2>5. OnChain' = {} /\ Inside' = {}
    BY <2>2, <2>3, <2>4 DEF OnChain, Inside
  <2> QED BY <2>1, <2>5, ChainKeeps DEF Empties, ChainMoves
<1>4. CASE UNCHANGED deskVars
  <2>1. UNCHANGED <<kind, at, chain, running, quoting>>
    BY <1>4 DEF deskVars, orderVars, marketVars
  <2> QED BY <2>1, OperationsStay, ChainKeeps DEF ChainStays, ChainMoves, OnChain, Inside
<1> QED BY <1>1, <1>2, <1>3, <1>4 DEF DeskNext

LEMMA InitChain == DeskInit => ChainFits /\ Inside = {}
<1> SUFFICES ASSUME DeskInit PROVE ChainFits /\ Inside = {}
  OBVIOUS
<1>1. chain = <<>> /\ (\A o \in Operations : at[o] = 0)
  BY DEF DeskInit, OrdersInit
<1>2. (\A c \in Calls : quoting[c] = "idle") /\ (\A e \in Execs : running[e] = "idle")
  BY DEF DeskInit, MarketInit
<1>3. OnChain = {} /\ Inside = {}
  BY <1>1, <1>2 DEF OnChain, Inside, Chained, InSection, Allocating, Executing
<1> QED BY <1>1, <1>3 DEF ChainFits, ToSet

\* Market swaps and provider orders never overlap on the wallet: every step of the
\* desk is a step of the one mutex they share, or none.
THEOREM SectionsNeverOverlap == DeskSpec => SectionsExclude
<1>1. DeskInit => MarketInv /\ OrdersInv /\ ChainFits /\ Section!Init
  BY InitMarket, InitOrders, InitChain DEF DeskInit, Section!Init
<1>2. MarketInv /\ OrdersInv /\ ChainFits /\ [DeskNext]_deskVars =>
        MarketInv' /\ OrdersInv' /\ ChainFits' /\ [Section!Next]_Inside
  BY StepMarket, StepOrders, StepChain
<1> QED BY <1>1, <1>2, PTL DEF DeskSpec, SectionsExclude, Section!Spec

\* It waits for its section.
WaitsTurn(x) == \/ x \in Execs /\ running[x] = "queued"
                \/ x \in Operations /\ Doing(x) = "enter"

\* It is in its section (an address is allocated in one step).
HasTurn(x) == x \in Inside \/ (x \in Calls /\ quoting[x] \in Allocating)

\* Whoever waits for its section has a place on the chain, one, and the others on
\* it wait too or have begun: nobody waits behind one who left.
NoTurnIsLost ==
  /\ \A x \in Execs \cup Operations : WaitsTurn(x) => x \in ToSet(chain)
  /\ \A x \in ToSet(chain) : WaitsTurn(x) \/ HasTurn(x)
  /\ \A i, j \in DOMAIN chain : chain[i] = chain[j] => i = j

LEMMA WaitingPlaces ==
  ASSUME OrdersInv, NEW o \in Operations
  PROVE  Doing(o) = "enter" <=> Chained(o) /\ ~Begun(o)
<1>1. CASE at[o] = 0
  BY <1>1 DEF Doing, Chained
<1>2. CASE at[o] # 0
  <2>1. CASE kind[o] = "shift" /\ ShiftAt(o)
    BY <2>1 DEF ShiftAt, At, Chained, Begun
  <2>2. CASE kind[o] = "receive" /\ ReceiveAt(o)
    BY <2>2 DEF ReceiveAt, At, Chained, Begun
  <2>3. CASE kind[o] = "pegOut" /\ PegOutAt(o)
    BY <2>3 DEF PegOutAt, At, Chained, Begun
  <2>4. CASE kind[o] = "gift" /\ GiftAt(o)
    BY <2>4 DEF GiftAt, At, Chained, Begun
  <2> QED BY <1>2, <2>1, <2>2, <2>3, <2>4, Stations
<1> QED BY <1>1, <1>2

\* A tool call behind others on opMutex waits for calls that are all still to
\* settle, whichever section failed and whichever socket dropped before.
THEOREM NobodyWaitsForNobody == DeskSpec => []NoTurnIsLost
<1>1. DeskInit => MarketInv /\ OrdersInv /\ ChainFits
  BY InitMarket, InitOrders, InitChain DEF DeskInit
<1>2. MarketInv /\ OrdersInv /\ ChainFits /\ [DeskNext]_deskVars => MarketInv' /\ OrdersInv' /\ ChainFits'
  BY StepMarket, StepOrders, StepChain
<1>3. OrdersInv /\ ChainFits => NoTurnIsLost
  <2> SUFFICES ASSUME OrdersInv, ChainFits PROVE NoTurnIsLost
    OBVIOUS
  <2>1. \A o \in Operations : /\ Doing(o) = "enter" <=> Chained(o) /\ ~Begun(o)
                              /\ InSection(o) <=> Begun(o)
    BY WaitingPlaces, SectionPlaces
  <2>2. ASSUME NEW x \in Execs \cup Operations, WaitsTurn(x) PROVE x \in ToSet(chain)
    BY <2>1, <2>2 DEF WaitsTurn, ChainFits, OnChain, Executing
  <2>3. ASSUME NEW x \in ToSet(chain) PROVE WaitsTurn(x) \/ HasTurn(x)
    <3>1. x \in OnChain
      BY DEF ChainFits
    <3>2. ASSUME NEW c \in Calls, quoting[c] \in Allocating PROVE HasTurn(c)
      BY <3>2 DEF HasTurn
    <3>3. ASSUME NEW e \in Execs, running[e] \in Executing PROVE WaitsTurn(e) \/ HasTurn(e)
      BY <3>3 DEF HasTurn, WaitsTurn, Inside
    <3>4. ASSUME NEW o \in Operations, Chained(o) PROVE WaitsTurn(o) \/ HasTurn(o)
      BY <2>1, <3>4 DEF HasTurn, WaitsTurn, Inside
    <3> QED BY <3>1, <3>2, <3>3, <3>4 DEF OnChain
  <2>4. \A i, j \in DOMAIN chain : chain[i] = chain[j] => i = j
    BY DEF ChainFits
  <2> QED BY <2>2, <2>3, <2>4 DEF NoTurnIsLost
<1> QED BY <1>1, <1>2, <1>3, PTL DEF DeskSpec

-----------------------------------------------------------------------------
(* The types of the desk                                                   *)

ClientTypes ==
  /\ tries \in [Calls -> 0 .. MaxReconnects]
  /\ markets \in [Calls -> {"unknown", "asked", "list", "empty"}]
  /\ sub \in [Calls -> {"none", "asked", "bound", "askedAgain", "dead"}]
  /\ quote \in [Calls -> {"none", "fresh", "lapsed"}]
  /\ disposed \in BOOLEAN
  /\ swapped \subseteq Calls
  /\ drops \in 0 .. MaxDrops

\* A call that is past connect() has a client, a subscription needs one, and what
\* the registry holds has both and a quote.
ClientFits(c) ==
  /\ quoting[c] \in {"connecting", "markets", "waiting"} => sock[c] # "none"
  /\ sock[c] = "none" => sub[c] = "none"
  /\ c \in held => quote[c] # "none" /\ sub[c] # "none"

ClientsFit == ClientTypes /\ \A c \in Calls : ClientFits(c)

LEMMA InitClients == MarketInit => ClientsFit
<1> SUFFICES ASSUME MarketInit PROVE ClientsFit
  OBVIOUS
<1>1. ClientTypes
  <2>1. 0 \in 0 .. MaxReconnects /\ 0 \in 0 .. MaxDrops
    BY MarketAssumption
  <2> QED BY <2>1 DEF MarketInit, ClientTypes
<1>2. \A c \in Calls : ClientFits(c)
  BY DEF MarketInit, ClientFits
<1> QED BY <1>1, <1>2 DEF ClientsFit

\* The step of one call, whose client may move with it.
OneClient(c) ==
  /\ \A x \in Calls \ {c} : /\ quoting'[x] = quoting[x] /\ sock'[x] = sock[x] /\ sub'[x] = sub[x]
                            /\ quote'[x] = quote[x] /\ (x \in held' => x \in held)
  /\ ClientFits(c)'

LEMMA OneClientMoves ==
  ASSUME ClientsFit, NEW c \in Calls, OneClient(c), ClientTypes' PROVE ClientsFit'
BY DEF ClientsFit, ClientFits, OneClient

\* A stream is closed: by its quote call, the registry, or its execution.
LEMMA ClosedStream ==
  ASSUME MarketInv, ClientsFit, NEW c \in Calls, Disconnect(c),
         UNCHANGED <<quoting, quote>>, held' \subseteq held
  PROVE  OneClient(c) /\ UNCHANGED tries /\ markets' \in [Calls -> {"unknown", "asked", "list", "empty"}]
         /\ sub' \in [Calls -> {"none", "asked", "bound", "askedAgain", "dead"}]
<1>1. MarketTypes /\ ClientTypes /\ ClientFits(c)
  BY DEF MarketInv, ClientsFit
<1> QED BY <1>1 DEF Disconnect, OneClient, ClientFits, MarketTypes, ClientTypes

LEMMA ClientsOfQuotes ==
  ASSUME MarketInv, ClientsFit, NEW c \in Calls,
         \/ Ask(c) \/ SelectCoins(c) \/ AskAddress(c) \/ GetAddress(c) \/ Connect(c)
         \/ ConnectResolves(c) \/ ConnectTimesOut(c) \/ StartQuotes(c)
  PROVE  ClientsFit'
<1>1. MarketTypes /\ ClientTypes /\ ClientFits(c)
  BY DEF MarketInv, ClientsFit
<1> SUFFICES ClientTypes' /\ OneClient(c)
  BY OneClientMoves
<1> USE DEF MarketTypes, ClientTypes, ClientFits, OneClient, Move, clients, money
<1>2. CASE Ask(c)
  BY <1>1, <1>2 DEF Ask
<1>3. CASE SelectCoins(c)
  BY <1>1, <1>3 DEF SelectCoins
<1>4. CASE AskAddress(c)
  BY <1>1, <1>4 DEF AskAddress
<1>5. CASE GetAddress(c)
  BY <1>1, <1>5 DEF GetAddress
<1>6. CASE Connect(c)
  BY <1>1, <1>6 DEF Connect
<1>7. CASE ConnectResolves(c)
  BY <1>1, <1>7 DEF ConnectResolves
<1>8. CASE ConnectTimesOut(c)
  BY <1>1, <1>8 DEF ConnectTimesOut
<1>9. CASE StartQuotes(c)
  BY <1>1, <1>9 DEF StartQuotes
<1> QED BY <1>2, <1>3, <1>4, <1>5, <1>6, <1>7, <1>8, <1>9

LEMMA ClientsOfStreams ==
  ASSUME MarketInv, ClientsFit, NEW c \in Calls,
         \/ HandleOpen(c) \/ MarketsAnswer(c) \/ SubscriptionAnswers(c) \/ StreamFails(c)
         \/ Tick(c) \/ Lapse(c) \/ Evict(c) \/ ReconnectTimer(c) \/ ServerBroadcasts(c)
  PROVE  ClientsFit'
<1>1. MarketTypes /\ ClientTypes /\ ClientFits(c)
  BY DEF MarketInv, ClientsFit
<1> SUFFICES ClientTypes' /\ OneClient(c)
  BY OneClientMoves
<1> USE MarketAssumption DEF MarketTypes, ClientTypes, ClientFits, OneClient, Move, clients, money, Disconnect, Connected
<1>2. CASE HandleOpen(c)
  BY <1>1, <1>2 DEF HandleOpen
<1>3. CASE MarketsAnswer(c)
  BY <1>1, <1>3 DEF MarketsAnswer, Resubscribed
<1>4. CASE SubscriptionAnswers(c)
  BY <1>1, <1>4 DEF SubscriptionAnswers
<1>5. CASE StreamFails(c)
  BY <1>1, <1>5 DEF StreamFails, Doomed
<1>6. CASE Tick(c)
  BY <1>1, <1>6 DEF Tick, Register
<1>7. CASE Lapse(c)
  BY <1>1, <1>7 DEF Lapse
<1>8. CASE Evict(c)
  BY <1>1, <1>8 DEF Evict
<1>9. CASE ReconnectTimer(c)
  BY <1>1, <1>9 DEF ReconnectTimer
<1>10. CASE ServerBroadcasts(c)
  BY <1>1, <1>10 DEF ServerBroadcasts
<1> QED BY <1>2, <1>3, <1>4, <1>5, <1>6, <1>7, <1>8, <1>9, <1>10

LEMMA ClientsOfExecutions ==
  ASSUME MarketInv, ClientsFit, NEW e \in Execs,
         \/ \E c \in Calls : Execute(e, c)
         \/ ExecuteUnknown(e) \/ StartSwap(e) \/ EnforceSwap(e) \/ GetQuote(e) \/ QuoteArrives(e)
         \/ SignSwap(e) \/ RecordSwap(e) \/ TakerSign(e) \/ SwapFails(e) \/ SwapDone(e)
  PROVE  ClientsFit'
<1>1. CASE \E c \in Calls : Execute(e, c)
  <2>1. PICK c \in Calls : Execute(e, c)
    BY <1>1
  <2>2. UNCHANGED <<quoting, quote, disposed, swapped, drops>> /\ held' = held \ {c}
    BY <2>1 DEF Execute, Take, money
  <2>3. CASE UNCHANGED clients
    BY <2>2, <2>3 DEF clients, ClientsFit, ClientTypes, ClientFits
  <2>4. CASE Disconnect(c)
    <3>1. ClientTypes' /\ OneClient(c)
      BY <2>2, <2>4, ClosedStream DEF ClientsFit, ClientTypes
    <3> QED BY <3>1, OneClientMoves
  <2> QED BY <2>1, <2>3, <2>4 DEF Execute
<1>2. CASE SwapFails(e) \/ SwapDone(e)
  <2>1. /\ Disconnect(target[e]) /\ UNCHANGED <<quoting, quote, held, disposed, swapped, drops>>
        /\ running[e] \in Executing
    BY <1>2 DEF SwapFails, SwapDone, Finish, money, Executing
  <2>2. target[e] \in Calls
    BY <2>1 DEF MarketInv, ExecFits
  <2>3. ClientTypes' /\ OneClient(target[e])
    BY <2>1, <2>2, ClosedStream DEF ClientsFit, ClientTypes
  <2> QED BY <2>2, <2>3, OneClientMoves
<1>3. CASE \/ ExecuteUnknown(e) \/ StartSwap(e) \/ EnforceSwap(e) \/ GetQuote(e) \/ QuoteArrives(e)
           \/ SignSwap(e) \/ RecordSwap(e) \/ TakerSign(e)
  <2>1. UNCHANGED <<quoting, clients, quote, held, disposed, swapped, drops>>
    BY <1>3 DEF ExecuteUnknown, StartSwap, EnforceSwap, GetQuote, QuoteArrives, SignSwap, RecordSwap,
                TakerSign, money
  <2> QED BY <2>1 DEF clients, ClientsFit, ClientTypes, ClientFits
<1> QED BY <1>1, <1>2, <1>3

LEMMA ClientsOfDrops == ASSUME MarketInv, ClientsFit, NEW c \in Calls, HandleClose(c) PROVE ClientsFit'
<1>1. MarketTypes /\ ClientTypes /\ ClientFits(c)
  BY DEF MarketInv, ClientsFit
<1>2. drops' \in 0 .. MaxDrops /\ UNCHANGED <<quote, held, disposed, swapped>>
  BY <1>1, MarketAssumption DEF HandleClose, ClientTypes, Finish, money
<1>3. ASSUME NEW e \in Interrupted(c), Finish(e) PROVE ClientsFit'
  <2>1. target[e] = c /\ Disconnect(c) /\ UNCHANGED quoting
    BY <1>3 DEF Finish, Interrupted
  <2>2. ClientTypes' /\ OneClient(c)
    BY <1>1, <1>2, <2>1, ClosedStream DEF ClientTypes
  <2> QED BY <2>2, OneClientMoves
<1>4. CASE Move(c, "failed") /\ Disconnect(c)
  <2>1. ClientTypes' /\ OneClient(c)
    BY <1>1, <1>2, <1>4 DEF MarketTypes, ClientTypes, ClientFits, OneClient, Move, Disconnect
  <2> QED BY <2>1, OneClientMoves
<1>5. CASE /\ Backoff(c) /\ UNCHANGED quoting
           /\ markets' = [markets EXCEPT ![c] = IF @ = "asked" THEN "empty" ELSE "unknown"]
           /\ \/ sub' = [sub EXCEPT ![c] = "dead"]
              \/ sub' = sub
  <2>1. ClientTypes'
    BY <1>1, <1>2, <1>5, MarketAssumption DEF ClientTypes, Backoff
  <2>2. OneClient(c)
    BY <1>1, <1>2, <1>5 DEF MarketTypes, ClientTypes, ClientFits, OneClient, Backoff
  <2> QED BY <2>1, <2>2, OneClientMoves
<1>6. [sub EXCEPT ![c] = sub[c]] = sub
  BY <1>1 DEF ClientTypes
<1> QED BY <1>3, <1>4, <1>5, <1>6 DEF HandleClose

LEMMA StepClients == MarketInv /\ ClientsFit /\ [DeskNext]_deskVars => ClientsFit'
<1> SUFFICES ASSUME MarketInv, ClientsFit, [DeskNext]_deskVars PROVE ClientsFit'
  OBVIOUS
<1>1. CASE MarketNext
  <2>1. CASE DisposeAll
    <3>1. ClientTypes'
      BY <2>1 DEF DisposeAll, ClientsFit, ClientTypes, money
    <3>2. ASSUME NEW c \in Calls PROVE ClientFits(c)'
      BY <2>1 DEF DisposeAll, ClientsFit, ClientFits
    <3> QED BY <3>1, <3>2 DEF ClientsFit
  <2> QED BY <1>1, <2>1, ClientsOfQuotes, ClientsOfStreams, ClientsOfExecutions, ClientsOfDrops DEF MarketNext
<1>2. CASE UNCHANGED marketVars
  BY <1>2 DEF marketVars, clients, money, ClientsFit, ClientTypes, ClientFits
<1>3. CASE Stop
  <2>1. ClientTypes'
    BY <1>3 DEF Stop, ClientsFit, ClientTypes, money
  <2>2. ASSUME NEW c \in Calls PROVE ClientFits(c)'
    BY <1>3 DEF Stop, ClientsFit, ClientFits
  <2> QED BY <2>1, <2>2 DEF ClientsFit
<1> QED BY <1>1, <1>2, <1>3 DEF DeskNext, deskVars

OrderBounds ==
  /\ kind \in [Operations -> OrderKinds \cup {"none"}]
  /\ status \in [Operations -> 0 .. FinalStatus]
  /\ poll \in [Polls -> [order : Operations \cup {"none"}, answer : 0 .. FinalStatus]]
  /\ failures \in 0 .. MaxFaults

LEMMA InitBounds == OrdersInit => OrderBounds
BY OrdersAssumption DEF OrdersInit, OrderBounds, NoPoll

LEMMA StepBounds == OrderBounds /\ [DeskNext]_deskVars => OrderBounds'
<1> SUFFICES ASSUME OrderBounds, [DeskNext]_deskVars PROVE OrderBounds'
  OBVIOUS
<1>0. 1 \in 0 .. FinalStatus /\ 0 \in 0 .. FinalStatus
  BY OrdersAssumption
<1>1. CASE OrdersNext
  <2>1. ASSUME NEW o \in Operations, NEW k \in OrderKinds, Request(o, k) PROVE OrderBounds'
    BY <2>1 DEF Request, OrderBounds
  <2>2. ASSUME NEW o \in Operations, CreateOrder(o) \/ OperationFails(o) PROVE OrderBounds'
    <3>1. UNCHANGED <<kind, poll, failures>>
      BY <2>2 DEF CreateOrder, OperationFails
    <3>2. status' = status \/ status' = [status EXCEPT ![o] = 1]
      BY <2>2 DEF CreateOrder, OperationFails
    <3> QED BY <1>0, <3>1, <3>2 DEF OrderBounds
  <2>3. ASSUME NEW o \in Operations, SaveOrder(o) PROVE OrderBounds'
    <3>1. UNCHANGED <<kind, poll, status>>
      BY <2>3 DEF SaveOrder
    <3>2. failures' = failures \/ (failures < MaxFaults /\ failures' = failures + 1)
      BY <2>3 DEF SaveOrder
    <3> QED BY <3>1, <3>2, OrdersAssumption DEF OrderBounds
  <2>4. ASSUME NEW o \in Operations, ProviderMoves(o) PROVE OrderBounds'
    BY <2>4, OrdersAssumption DEF ProviderMoves, OrderBounds
  <2>5. ASSUME NEW p \in Polls, NEW o \in Operations, AskProvider(p, o) PROVE OrderBounds'
    BY <2>5 DEF AskProvider, OrderBounds
  <2>6. ASSUME NEW p \in Polls, FoldStatus(p) \/ PollFails(p) PROVE OrderBounds'
    <3>1. UNCHANGED <<kind, status>> /\ poll' = [poll EXCEPT ![p] = NoPoll]
      BY <2>6 DEF FoldStatus, PollFails
    <3>2. failures' = failures \/ (failures < MaxFaults /\ failures' = failures + 1)
      BY <2>6 DEF FoldStatus, PollFails
    <3> QED BY <1>0, <3>1, <3>2, OrdersAssumption DEF OrderBounds, NoPoll
  <2>7. ASSUME NEW o \in Operations,
               \/ Gate(o) \/ Queue(o) \/ EnterSection(o) \/ Allow(o) \/ Sign(o)
               \/ RecordOrderSpend(o) \/ Broadcast(o) \/ Patch(o) \/ Leave(o)
        PROVE  UNCHANGED <<kind, status, poll, failures>>
    BY <2>7 DEF Gate, Queue, EnterSection, Allow, Sign, RecordOrderSpend, Broadcast, Patch, Leave
  <2>8. ConfigArrives \/ ConfigUnreachable \/ ShopMoves => UNCHANGED <<kind, status, poll, failures>>
    BY DEF ConfigArrives, ConfigUnreachable, ShopMoves
  <2>9. UNCHANGED <<kind, status, poll, failures>> => OrderBounds'
    BY DEF OrderBounds
  <2>10. \A p \in Polls, o \in Operations :
           GetStatus(p, o) \/ GetOrderStatus(p, o) \/ RefreshShift(p, o) => AskProvider(p, o)
    BY DEF GetStatus, GetOrderStatus, RefreshShift
  <2> QED BY <1>1, <2>1, <2>2, <2>3, <2>4, <2>5, <2>6, <2>7, <2>8, <2>9, <2>10 DEF OrdersNext
<1>2. CASE Stop
  BY <1>0, <1>2 DEF Stop, OrdersStop, OrderBounds, NoPoll
<1>3. CASE UNCHANGED orderVars
  BY <1>3 DEF orderVars, OrderBounds
<1> QED BY <1>1, <1>2, <1>3 DEF DeskNext, deskVars

LEMMA ShopStaysTyped == ShopTypeOK /\ [DeskNext]_deskVars => ShopTypeOK'
<1> SUFFICES ASSUME ShopTypeOK, ShopMoved PROVE ShopTypeOK'
  BY ShopSteps
<1> USE ShopAssumption DEF ShopTypeOK
<1>1. CASE UNCHANGED shopVars \/ SwitchOff
  BY <1>1 DEF shopVars, SwitchOff
<1>2. CASE Tick1
  BY <1>2 DEF Tick1
<1>3. CASE Serve
  BY <1>3 DEF Serve, Answers
<1>4. CASE Fetched
  BY <1>4 DEF Fetched, NoFetch, Answers
<1>5. CASE JoinFetch
  BY <1>5 DEF JoinFetch, Answers
<1>6. CASE /\ config' = config \/ config' = [value |-> "none", at |-> 0]
           /\ fetch' = NoFetch
           /\ UNCHANGED <<now, shopOn>>
  BY <1>6 DEF NoFetch, Answers
<1> QED BY <1>1, <1>2, <1>3, <1>4, <1>5, <1>6 DEF ShopMoved

\* The types of the orders and their logs: no log holds an order twice or more
\* records than it may, and no record is ahead of its provider.
LEMMA OrdersAreTyped == OrdersInv /\ OrderBounds /\ ShopTypeOK => OrdersTypeOK
<1> SUFFICES ASSUME OrdersInv, OrderBounds, ShopTypeOK PROVE OrdersTypeOK
  OBVIOUS
<1>1. ASSUME NEW o \in Operations, at[o] # 0 PROVE kind[o] # "none" /\ at[o] \in DOMAIN Flow[kind[o]]
  <2>1. kind[o] \in DOMAIN Flow /\ at[o] \in 1 .. Len(Flow[kind[o]])
    BY <1>1 DEF OrdersInv, OrderTypes, OrderFits
  <2>2. \A k \in DOMAIN Flow : DOMAIN Flow[k] = 1 .. Len(Flow[k]) /\ k # "none"
    BY DEF Flow, SendFlow, ReceiveFlow, PegOutFlow, BuyFlow
  <2> QED BY <2>1, <2>2
<1>2. ASSUME NEW k \in {"shift", "gift"}
      PROVE  /\ Len(logs[k]) <= MaxStored
             /\ Cardinality(Logged(logs[k])) = Len(logs[k])
             /\ \A o \in Logged(logs[k]) : RecordOf(logs[k], o).status <= status[o]
  <2>1. IsLog(logs[k]) /\ LogFits(k)
    BY <1>2 DEF OrdersInv, OrderTypes
  <2>2. ASSUME NEW o \in Logged(logs[k]) PROVE RecordOf(logs[k], o).status <= status[o]
    <3>1. PICK i \in DOMAIN logs[k] : logs[k][i].id = o
      BY DEF Logged
    <3> QED BY <2>1, <3>1, TheRecord DEF LogFits
  <2> QED BY <2>1, <2>2, LogSize DEF IsLog
<1> QED BY <1>1, <1>2 DEF OrdersInv, OrderTypes, OrderBounds, OrdersTypeOK

\* Type correctness of the desk: every socket, subscription, execution, order,
\* record and poll is in a state the code knows, logs keep to their size, and nobody
\* is on the chain twice.
THEOREM DeskTypeCorrect == DeskSpec => []DeskTypeOK
<1> DEFINE TypesInv == /\ MarketInv /\ ClientsFit /\ OrdersInv /\ OrderBounds /\ ShopTypeOK
                       /\ ChainFits /\ stops \in 0 .. MaxStops
<1>1. DeskInit => TypesInv
  <2> SUFFICES ASSUME DeskInit PROVE TypesInv
    OBVIOUS
  <2>1. MarketInit /\ OrdersInit /\ stops = 0
    BY DEF DeskInit
  <2>2. ShopTypeOK
    BY <2>1, ShopAssumption DEF OrdersInit, ShopInit, ShopTypeOK, NoFetch, Answers
  <2> QED BY <2>1, <2>2, InitMarket, InitClients, InitOrders, InitBounds, InitChain, DeskAssumption
<1>2. TypesInv /\ [DeskNext]_deskVars => TypesInv'
  <2> SUFFICES ASSUME TypesInv, [DeskNext]_deskVars PROVE TypesInv'
    OBVIOUS
  <2>1. stops' \in 0 .. MaxStops
    BY DeskAssumption DEF DeskNext, MarketNext, Stop, deskVars
  <2> QED BY <2>1, StepMarket, StepClients, StepOrders, StepBounds, ShopStaysTyped, StepChain
<1>3. TypesInv => DeskTypeOK
  <2> SUFFICES ASSUME TypesInv PROVE DeskTypeOK
    OBVIOUS
  <2>1. OrdersTypeOK
    BY OrdersAreTyped
  <2>2. signings \in [Calls -> 0 .. 2]
    BY DEF MarketInv, MarketTypes, CallFits
  <2>3. MarketTypeOK
    BY <2>2 DEF MarketInv, MarketTypes, ClientsFit, ClientTypes, ClientFits, MarketTypeOK
  <2>4. \A i \in DOMAIN chain : \A j \in DOMAIN chain : chain[i] = chain[j] => i = j
    BY DEF ChainFits
  <2> QED BY <2>1, <2>3, <2>4 DEF DeskTypeOK
<1> QED BY <1>1, <1>2, <1>3, PTL DEF DeskSpec

-----------------------------------------------------------------------------
(* The intents                                                             *)

\* Where each call stands, where its value is and what it was told, and which
\* legs may be under way at each place.
Places == {"asked", "checkLightning", "checkStablecoin", "leg", "openStream", "selectProvider",
           "assertLive", "offering", "fund", "polling", "completing", "refunding", "quoting", "multihop",
           "done"}
Wheres == {"home", "flying", "delivered", "returned", "stuck"}

CallShapes ==
  /\ pc \in [Callers -> Places]
  /\ result \in [Callers -> Statuses \cup {"none"}]
  /\ funds \in [Callers -> Wheres]
  /\ route = [c \in Callers |-> route[c]]
  /\ awaits = [c \in Callers |-> awaits[c]]
  /\ quotes = [c \in Callers |-> quotes[c]]
  /\ rails = [c \in Callers |-> rails[c]]

Funded == {"payLightningInvoice", "toStablecoin"}
Invoiced == {"payLightningInvoice", "receiveLightning"}

\* The provider will not deliver any more.
GivenUp(c) == funds[c] \in {"stuck", "returned"}

LegFits(c) ==
  /\ pc[c] # "done" => result[c] = "none"
  /\ pc[c] \notin {"polling", "completing", "refunding", "done"} => funds[c] = "home"
  /\ pc[c] \in {"polling", "completing", "refunding"} => funds[c] # "home"
  /\ pc[c] = "refunding" => Method(c) = "payLightningInvoice" /\ GivenUp(c)
  /\ pc[c] = "polling" => Method(c) \in Polled
  /\ pc[c] \in {"completing", "fund"} => Method(c) \in Funded
  /\ pc[c] = "selectProvider" => Method(c) \in Invoiced
  /\ pc[c] = "assertLive" => Method(c) = "toStablecoin"
  /\ pc[c] = "offering" => Method(c) \in Invoiced \cup {"toStablecoin"}

ResultIsTrue(c) ==
  /\ result[c] = "settled" => funds[c] = "delivered"
  /\ result[c] = "refunded" => funds[c] = "returned"
  /\ result[c] = "refund_pending" => GivenUp(c)
  /\ result[c] = "failed" => funds[c] # "home" /\ (Method(c) \in Polled => GivenUp(c))
  /\ result[c] \in {"pending", "awaiting_funding"} =>
       (funds[c] = "home") = (Method(c) \in Inflows)

CallsInv == CallShapes /\ \A c \in Callers : LegFits(c) /\ ResultIsTrue(c)

LEMMA InitCalls == Init => CallsInv
BY DEF Init, CallsInv, CallShapes, LegFits, ResultIsTrue, GivenUp, Places, Wheres, Statuses

\* Only Convert chooses a route, and a step of one call leaves the others alone.
LEMMA StepCalls == CallsInv /\ [Next]_vars => CallsInv'
<1> SUFFICES ASSUME CallsInv, [Next]_vars PROVE CallsInv'
  OBVIOUS
<1> USE DEF CallsInv, CallShapes, Goto, Ends, Fails, Places, Wheres, Statuses
<1>1. CASE UNCHANGED <<pc, route, funds, result, quotes, awaits, rails>>
  BY <1>1 DEF LegFits, ResultIsTrue, GivenUp, Method
<1>2. ASSUME NEW c \in Callers, Steps(c) \/ Meanwhile(c) PROVE CallsInv'
  <2> USE DEF LegFits, ResultIsTrue, GivenUp, Method, Funded, Invoiced, Polled, Inflows
  <2>1. CASE Convert(c)
    <3> DEFINE found == ResolveSingleRoute(intent[c].sel, intent[c].route)
    <3>1. /\ pc[c] = "asked"
          /\ UNCHANGED <<rails, funds, quotes>>
          /\ found = {} => Fails(c) /\ UNCHANGED <<route, awaits>>
          /\ \A r \in found :
               /\ route' = [route EXCEPT ![c] = r]
               /\ \/ Begin(c, r) /\ UNCHANGED awaits
                  \/ awaits' = [awaits EXCEPT ![c] = selection'] /\ Goto(c, "checkLightning")
      BY <2>1 DEF Convert
    <3> HIDE DEF found
    <3>2. CASE found = {}
      <4>1. Fails(c) /\ UNCHANGED <<rails, funds, quotes, route, awaits>>
        BY <3>1, <3>2
      <4> QED BY <4>1
    <3>3. ASSUME NEW r \in found PROVE CallsInv'
      <4>1. CASE Begin(c, r) /\ UNCHANGED awaits
        <5>1. \/ Goto(c, "multihop")
              \/ Goto(c, "leg")
          BY <4>1 DEF Begin
        <5>2. pc[c] = "asked" /\ route' = [route EXCEPT ![c] = r] /\ UNCHANGED <<rails, funds, quotes, awaits>>
          BY <3>1, <3>3, <4>1
        <5> QED BY <5>1, <5>2
      <4>2. CASE awaits' = [awaits EXCEPT ![c] = selection'] /\ Goto(c, "checkLightning")
        BY <3>1, <3>3, <4>2
      <4> QED BY <3>1, <3>3, <4>1, <4>2
    <3> QED BY <3>2, <3>3
  <2>2. CASE CheckedLightning(c)
    <3>1. /\ pc[c] = "checkLightning" /\ Goto(c, "checkStablecoin")
          /\ rails' = [x \in Callers |-> rails'[x]] /\ awaits' = [x \in Callers |-> awaits'[x]]
          /\ UNCHANGED <<route, funds, quotes>>
      BY <2>2 DEF CheckedLightning, AwaitStablecoin
    <3>2. ASSUME NEW d \in Callers PROVE LegFits(d)' /\ ResultIsTrue(d)'
      BY <3>1
    <3>3. CallShapes'
      BY <3>1
    <3> QED BY <3>2, <3>3
  <2>3. CASE CheckedStablecoin(c)
    <3>1. /\ pc[c] = "checkStablecoin"
          /\ UNCHANGED <<funds, quotes, route, awaits>>
          /\ \E r : rails' = [rails EXCEPT ![c] = r]
          /\ Goto(c, "quoting") \/ Begin(c, route[c]) \/ Fails(c)
      BY <2>3 DEF CheckedStablecoin
    <3>2. rails' = [x \in Callers |-> rails'[x]]
      BY <3>1
    <3>3. pc[c] = "checkStablecoin" /\ UNCHANGED <<funds, quotes, route, awaits>>
      BY <3>1
    <3>4. CASE Goto(c, "quoting")
      BY <3>2, <3>3, <3>4
    <3>5. CASE Begin(c, route[c])
      <4>1. Goto(c, "multihop") \/ Goto(c, "leg")
        BY <3>5 DEF Begin
      <4>2. CASE Goto(c, "multihop")
        BY <3>2, <3>3, <4>2
      <4>3. CASE Goto(c, "leg")
        BY <3>2, <3>3, <4>3
      <4> QED BY <4>1, <4>2, <4>3
    <3>6. CASE Fails(c)
      BY <3>2, <3>3, <3>6
    <3> QED BY <3>1, <3>4, <3>5, <3>6
  <2>4. CASE ExecuteInflow(c)
    BY <2>4 DEF ExecuteInflow, ExecutePegIn, ExecuteShiftReceive
  <2>5. CASE ExecuteMarketSwap(c)
    BY <2>5 DEF ExecuteMarketSwap
  <2>6. CASE ExecuteLightning(c)
    <3>1. /\ pc[c] = "leg" /\ Method(c) \in Invoiced /\ Goto(c, "selectProvider")
          /\ awaits' = [x \in Callers |-> awaits'[x]] /\ UNCHANGED <<route, rails, funds, quotes>>
      BY <2>6 DEF ExecuteLightning
    <3>2. ASSUME NEW d \in Callers PROVE LegFits(d)' /\ ResultIsTrue(d)'
      BY <3>1
    <3>3. CallShapes'
      BY <3>1
    <3> QED BY <3>2, <3>3
  <2>7. CASE LightningProvider(c)
    BY <2>7 DEF LightningProvider
  <2>8. CASE ExecuteToStablecoin(c)
    <3>1. /\ pc[c] = "leg" /\ Method(c) = "toStablecoin" /\ Goto(c, "assertLive")
          /\ awaits' = [x \in Callers |-> awaits'[x]] /\ UNCHANGED <<route, rails, funds, quotes>>
      BY <2>8 DEF ExecuteToStablecoin, AwaitStablecoin
    <3>2. ASSUME NEW d \in Callers PROVE LegFits(d)' /\ ResultIsTrue(d)'
      BY <3>1
    <3>3. CallShapes'
      BY <3>1
    <3> QED BY <3>2, <3>3
  <2>9. CASE StablecoinProviderLive(c)
    BY <2>9 DEF StablecoinProviderLive
  <2>10. CASE OfferSwap(c)
    BY <2>10 DEF OfferSwap, Created
  <2>11. CASE FundOut(c)
    BY <2>11 DEF FundOut
  <2>12. CASE PollUntil(c)
    BY <2>12 DEF PollUntil, PollTells, ShiftTells, PegOutTells, TimesOut
  <2>13. CASE SubmarineStatus(c)
    BY <2>13 DEF SubmarineStatus
  <2>14. CASE AskForQuotes(c)
    BY <2>14 DEF AskForQuotes
  <2>15. CASE QuoteRoutes(c)
    <3>1. /\ quotes' = [x \in Callers |-> quotes'[x]] /\ Ends(c, "quoted") /\ pc[c] = "quoting"
          /\ UNCHANGED <<awaits, route, rails, funds>>
      BY <2>15 DEF QuoteRoutes
    <3> QED BY <3>1
  <2>16. CASE Pin(c)
    BY <2>16 DEF Pin
  <2>17. CASE PollThrows(c)
    BY <2>17 DEF PollThrows
  <2>18. CASE Fate(c)
    BY <2>18 DEF Fate
  <2>19. CASE RefundOne(c)
    BY <2>19 DEF RefundOne
  <2>20. CASE ExecuteStablecoin(c)
    BY <2>20 DEF ExecuteStablecoin
  <2>21. CASE SubscribeThrows(c)
    BY <2>21 DEF SubscribeThrows
  <2>22. CASE CompletionTimesOut(c)
    BY <2>22 DEF CompletionTimesOut, TimesOut
  <2> QED BY <1>2, <2>1, <2>2, <2>3, <2>4, <2>5, <2>6, <2>7, <2>8, <2>9, <2>10, <2>11, <2>12, <2>13,
             <2>14, <2>15, <2>16, <2>17, <2>18, <2>19, <2>20, <2>21, <2>22 DEF Steps, Meanwhile
<1> QED BY <1>1, <1>2 DEF Next, vars, intentVars
-----------------------------------------------------------------------------
(* Quotes                                                                  *)

IsRoute(r) == \E S : r \in Seq(S)

LEMMA ShortRoutes ==
  /\ IsRoute(<<>>)
  /\ \A a : IsRoute(<<a>>)
  /\ \A a, b : IsRoute(<<a, b>>)
<1>1. <<>> \in Seq({})
  OBVIOUS
<1>2. ASSUME NEW a PROVE <<a>> \in Seq({a})
  OBVIOUS
<1>3. ASSUME NEW a, NEW b PROVE <<a, b>> \in Seq({a, b})
  OBVIOUS
<1> QED BY <1>1, <1>2, <1>3, Zenon DEF IsRoute

LEMMA LongerRoute == ASSUME NEW r, IsRoute(r), NEW x PROVE IsRoute(Append(r, x))
<1>1. PICK S : r \in Seq(S)
  BY DEF IsRoute
<1>2. r \in Seq(S \cup {x})
  <2>1. Len(r) \in Nat /\ r \in [1 .. Len(r) -> S]
    BY <1>1
  <2>2. r \in [1 .. Len(r) -> S \cup {x}]
    BY <2>1
  <2> QED BY <2>1, <2>2, SeqDef
<1>3. Append(r, x) \in Seq(S \cup {x})
  BY <1>2
<1> QED BY <1>3, Zenon DEF IsRoute

\* Every candidate the table offers is a sequence of legs.
LEMMA RoutesAreSequences ==
  ASSUME NEW sel, NEW r \in EnumerateRoutes(sel)
  PROVE  IsRoute(r)
<1>1. ASSUME NEW e, NEW a PROVE IsRoute(LandOn(e, a))
  BY ShortRoutes, Zenon DEF LandOn
<1>2. ASSUME NEW a, NEW n, NEW b, NEW p \in ReachPivot(a, n, b) PROVE IsRoute(p)
  BY <1>1, ShortRoutes, Zenon DEF ReachPivot
<1>3. ASSUME NEW e PROVE IsRoute(<<e>>)
  BY ShortRoutes, Zenon
<1>4. CASE sel.network = "liquid" /\ sel.to \in LiquidAssets
  <2>1. CASE OnLiquid(sel.from, sel.fromNetwork)
    <3>1. \/ r = <<MarketLeg(sel.from, sel.to)>>
          \/ \E e \in EntryLegs("USDT", UNSET) : r = <<e>>
      BY <1>4, <2>1, Zenon DEF EnumerateRoutes
    <3> QED BY <3>1, <1>3, Zenon
  <2>2. CASE ~OnLiquid(sel.from, sel.fromNetwork)
    BY <1>1, <1>4, <2>2, Zenon DEF EnumerateRoutes
  <2> QED BY <2>1, <2>2
<1>5. CASE ~(sel.network = "liquid" /\ sel.to \in LiquidAssets)
  <2>1. PICK x \in ExitLegs(sel.to, sel.network) :
          \E p \in ReachPivot(sel.from, sel.fromNetwork, x.from) : r = Append(p, x)
    BY <1>5, Zenon DEF EnumerateRoutes
  <2> QED BY <2>1, <1>2, LongerRoute, Zenon
<1> QED BY <1>4, <1>5

Deliverable(q) == /\ q.received => q.available
                  /\ q.feeTotal # "none" => q.received

\* The legs that were estimated are an initial segment, so a receipt at the end
\* means that all of them could be: that every rail of the route is open.
LEMMA QuotesOfARoute ==
  ASSUME NEW r, IsRoute(r), NEW open, NEW q \in RouteQuotes(r, open)
  PROVE  Deliverable(q)
<1> DEFINE legs == DOMAIN r
           assets == UNION {FeeAssets(r[i]) : i \in legs}
           reachable == {n \in 0 .. Len(r) : 1 .. n \subseteq Estimable(r, open)}
           fees(n) == {f \in [1 .. n -> assets] : \A i \in 1 .. n : f[i] \in FeeAssets(r[i])}
           single(f) == /\ DOMAIN f = legs /\ "unknown" \notin {f[i] : i \in DOMAIN f}
                        /\ Cardinality({f[i] : i \in DOMAIN f}) = 1
           total(f) == IF single(f) THEN f[1] ELSE "none"
           offered(n, f) == [route |-> r, received |-> n = Len(r), available |-> RailsOf(r) \subseteq open,
                           feeTotal |-> total(f)]
<1>0. PICK n \in reachable : \E f \in fees(n) : q = offered(n, f)
  <2>1. q \in UNION {{offered(n, f) : f \in fees(n)} : n \in reachable}
    BY DEF RouteQuotes
  <2> HIDE DEF offered, fees, reachable
  <2> QED BY <2>1, Zenon
<1>1. PICK f \in fees(n) : q = offered(n, f)
  BY <1>0
<1>2. Len(r) \in Nat /\ legs = 1 .. Len(r)
  BY DEF IsRoute
<1>3. n \in 0 .. Len(r) /\ DOMAIN f = 1 .. n
  BY <1>0, <1>1
<1>4. n = Len(r) => RailsOf(r) \subseteq open
  <2> SUFFICES ASSUME n = Len(r) PROVE \A i \in legs : RailOf(r[i]) \subseteq open
    BY Zenon DEF RailsOf
  <2>1. legs \subseteq Estimable(r, open)
    BY <1>2
  <2> QED BY <2>1 DEF Estimable
<1>5. single(f) => n = Len(r)
  BY <1>2, <1>3
<1>6. (q.received <=> n = Len(r)) /\ (q.available <=> RailsOf(r) \subseteq open) /\ q.feeTotal = total(f)
  BY <1>1, Zenon
<1>7. q.feeTotal # "none" => single(f)
  BY <1>6, Zenon
<1> QED BY <1>4, <1>5, <1>6, <1>7, Zenon DEF Deliverable

QuotesInv == \A c \in Callers : \A q \in quotes[c] : Deliverable(q)

LEMMA StepQuotes == CallsInv /\ QuotesInv /\ [Next]_vars => QuotesInv'
<1> SUFFICES ASSUME CallsInv, QuotesInv, [Next]_vars PROVE QuotesInv'
  OBVIOUS
<1>1. CASE UNCHANGED quotes
  BY <1>1 DEF QuotesInv
<1>2. ASSUME NEW c \in Callers, QuoteRoutes(c) PROVE QuotesInv'
  <2>1. quotes' = [quotes EXCEPT ![c] =
                     UNION {RouteQuotes(r, rails[c]) : r \in EnumerateRoutes(intent[c].sel)}]
    BY <1>2 DEF QuoteRoutes
  <2>2. \A d \in Callers \ {c} : quotes'[d] = quotes[d]
    BY <2>1 DEF CallsInv, CallShapes
  <2>3. \A q \in quotes'[c] : \E r \in EnumerateRoutes(intent[c].sel) : q \in RouteQuotes(r, rails[c])
    BY <2>1 DEF CallsInv, CallShapes
  <2>4. \A q \in quotes'[c] : Deliverable(q)
    BY <2>3, RoutesAreSequences, QuotesOfARoute, Zenon
  <2> QED BY <2>2, <2>4 DEF QuotesInv
<1>3. ASSUME NEW c \in Callers, Steps(c) \/ Meanwhile(c), ~QuoteRoutes(c)
      PROVE  UNCHANGED quotes
  BY <1>3 DEF Steps, Meanwhile, PollThrows, SubscribeThrows, CompletionTimesOut, Fate, Convert, CheckedLightning, CheckedStablecoin, ExecuteInflow,
     ExecuteMarketSwap, ExecuteLightning, LightningProvider, ExecuteToStablecoin,
     StablecoinProviderLive, OfferSwap, FundOut, PollUntil, SubmarineStatus, RefundOne,
     ExecuteStablecoin, AskForQuotes, Pin
<1> QED BY <1>1, <1>2, <1>3 DEF Next, vars, intentVars

THEOREM CallsAreSound == Spec => [](CallsInv /\ QuotesInv)
<1>1. Init => QuotesInv
  BY DEF Init, QuotesInv
<1> QED BY <1>1, InitCalls, StepCalls, StepQuotes, PTL DEF Spec

\* A quote that names a receipt, or adds up its fees, is of a route whose
\* backends were all creating swaps when quote() asked (quoteRoute).
THEOREM QuotesAreOfOpenRoutes == Spec => []QuotesAreDeliverable
<1>1. QuotesInv => QuotesAreDeliverable
  BY DEF QuotesInv, QuotesAreDeliverable, Deliverable
<1> QED BY <1>1, CallsAreSound, PTL

\* What a conversion tells its caller of the money is true and stays true, whichever
\* leg it was, and however the provider's word, the wallet's own refund, a recovery
\* beside it and the timeout crossed. The step to see is the refund: it begins only
\* after the provider gave up (LegFits), and what gave up can only come back.
THEOREM ResultsSayWhatHappened == Spec => []ResultsAreTrue
<1>1. CallsInv => ResultsAreTrue
  BY DEF CallsInv, ResultIsTrue, GivenUp, ResultsAreTrue
<1> QED BY <1>1, CallsAreSound, PTL
-----------------------------------------------------------------------------
(* The age of what a call goes on with                                     *)

LEMMA TheProviders ==
  /\ SwapProviders[1] = "boltz" /\ SwapProviders[2] = "coinos"
  /\ DOMAIN SwapProviders = 1 .. 2 /\ Len(SwapProviders) = 2
  /\ ProviderIds = {"boltz", "coinos"}
  /\ StablecoinProvider = "boltz"
BY DEF SwapProviders, ProviderIds, StablecoinProvider

LEMMA NoPromiseIsNone == NoPromise \notin Promises
BY DEF NoPromise, Promises

\* What walk w has found out so far was so at most a ticks ago.  The word of the
\* operator is no walk.
Judged(w, a) ==
  walk[w].at > 0 =>
    /\ walk[w].at = 2 => Untrue("boltz", FALSE) <= a
    /\ walk[w].outcome = "rejected" => walk[w].at = 2 /\ Untrue("coinos", FALSE) <= a
    /\ walk[w].outcome = "boltz" => walk[w].at = 1 /\ Untrue("boltz", TRUE) <= a
    /\ walk[w].outcome = "coinos" => walk[w].at = 2 /\ Untrue("coinos", TRUE) <= a

\* The same of a probe for the stablecoin route that found it closed.
Probed(w, a) == /\ probe[w] \in {"sent", "live", "dead"}
                /\ probe[w] = "dead" => Untrue("boltz", FALSE) <= a

\* The answers that are kept are no older than their ages say; a pinned
\* selection is the operator's.
AnswersKept ==
  /\ selection # NoPromise => Judged(selection, selectionAge)
  /\ selection # NoPromise /\ pinned # "none" => walk[selection].at = 0
  /\ liveness # NoPromise => Probed(liveness, livenessAge)

Hearing == {"checkLightning", "selectProvider"}
HearingStablecoin == {"checkStablecoin", "assertLive"}

\* An answer a call waits for will be fresh enough when it goes on.
Awaited(c) ==
  /\ pc[c] \in Hearing => awaits[c] \in Promises /\ Judged(awaits[c], TTL)
  /\ pc[c] \in HearingStablecoin /\ awaits[c] # NoPromise =>
       awaits[c] \in Promises /\ Probed(awaits[c], TTL)

AgesInv == ProvidersTypeOK /\ AnswersKept /\ (\A c \in Callers : Awaited(c)) /\ TrustedForTheTTL

LEMMA UntrueIsAnAge ==
  ASSUME ProvidersTypeOK, NEW p \in ProviderIds, NEW b \in BOOLEAN
  PROVE  Untrue(p, b) \in 0 .. TTL + 1
BY TTLAssumption DEF ProvidersTypeOK, Untrue

\* What was so at most a ticks ago was so at most b ticks ago, if a < b.
LEMMA JudgedLonger ==
  ASSUME ProvidersTypeOK, NEW a \in Nat, NEW b \in Nat, a < b
  PROVE  /\ \A w \in Promises : Judged(w, a) => Judged(w, b)
         /\ \A w \in Promises : Probed(w, a) => Probed(w, b)
<1>1. /\ Untrue("boltz", FALSE) \in Nat /\ Untrue("boltz", TRUE) \in Nat
      /\ Untrue("coinos", FALSE) \in Nat /\ Untrue("coinos", TRUE) \in Nat
  <2>1. \A p \in ProviderIds, u \in BOOLEAN : Untrue(p, u) \in 0 .. TTL + 1
    BY UntrueIsAnAge
  <2>2. \A p \in ProviderIds, u \in BOOLEAN : Untrue(p, u) \in Nat
    BY <2>1, TTLAssumption
  <2> QED BY <2>2, TheProviders
<1>2. \A x \in Nat : x <= a => x <= b
  OBVIOUS
<1>3. /\ Untrue("boltz", FALSE) <= a => Untrue("boltz", FALSE) <= b
      /\ Untrue("boltz", TRUE) <= a => Untrue("boltz", TRUE) <= b
      /\ Untrue("coinos", FALSE) <= a => Untrue("coinos", FALSE) <= b
      /\ Untrue("coinos", TRUE) <= a => Untrue("coinos", TRUE) <= b
  BY <1>1, <1>2
<1> QED BY <1>3, Zenon DEF Judged, Probed

\* Steps that touch no answer: at most they drop the kept selection.
Quiet ==
  /\ UNCHANGED <<creating, flipped, walk, selectionAge, pinned, selected, probe, liveness, livenessAge>>
  /\ selection' \in {selection, NoPromise}
  /\ overdue' \subseteq overdue \cup {"stablecoinOn"}

Passes(c) ==
  /\ awaits' = awaits
  /\ \E l \in Places \ (Hearing \cup HearingStablecoin) : pc' = [pc EXCEPT ![c] = l]

LEMMA QuietAges ==
  ASSUME AgesInv, CallShapes, NEW c \in Callers, Quiet, Passes(c)
  PROVE  AgesInv'
<1>1. ProvidersTypeOK'
  BY NoPromiseIsNone DEF AgesInv, ProvidersTypeOK, Quiet, Says, NoPromise
<1>2. AnswersKept'
  BY DEF AgesInv, AnswersKept, Quiet, Judged, Probed, Untrue
<1>3. \A d \in Callers : Awaited(d)'
  BY DEF AgesInv, Awaited, Quiet, Passes, CallShapes, Judged, Probed, Untrue
<1>4. TrustedForTheTTL'
  BY DEF AgesInv, TrustedForTheTTL, Quiet
<1> QED BY <1>1, <1>2, <1>3, <1>4 DEF AgesInv

\* A call that needs a Lightning backend waits for the kept walk or for its own.
Selects(c, w) ==
  /\ SelectSwapProvider(w)
  /\ UNCHANGED <<creating, flipped, probe, liveness, livenessAge, overdue>>
  /\ awaits' = [awaits EXCEPT ![c] = selection']
  /\ \E l \in Hearing : pc' = [pc EXCEPT ![c] = l]

LEMMA SelectAges ==
  ASSUME AgesInv, CallShapes, NEW c \in Callers, NEW w \in Promises, Selects(c, w)
  PROVE  AgesInv'
<1> USE TTLAssumption DEF AgesInv
<1>1. CASE UsableSelection # {}
  <2>1. /\ UNCHANGED <<walk, selection, selectionAge, pinned, selected>>
        /\ selection # NoPromise /\ (pinned # "none" \/ selectionAge < TTL)
    BY <1>1 DEF Selects, SelectSwapProvider, UsableSelection, SelectionIsFresh, lightningVars
  <2>2. selection \in Promises /\ Judged(selection, TTL)
    <3>1. selection \in Promises /\ selectionAge \in 0 .. TTL + 1
      BY <2>1 DEF ProvidersTypeOK
    <3>2. CASE pinned # "none"
      <4>1. walk[selection].at = 0
        BY <2>1, <3>2 DEF AnswersKept
      <4> QED BY <3>1, <4>1 DEF Judged
    <3>3. CASE selectionAge < TTL
      <4>1. Judged(selection, selectionAge)
        BY <2>1 DEF AnswersKept
      <4>2. selectionAge \in Nat /\ TTL \in Nat
        BY <3>1
      <4> QED BY <3>1, <3>3, <4>1, <4>2, JudgedLonger
    <3> QED BY <2>1, <3>2, <3>3
  <2>3. ProvidersTypeOK' /\ AnswersKept' /\ TrustedForTheTTL'
    BY <2>1 DEF ProvidersTypeOK, AnswersKept, TrustedForTheTTL, Selects, Judged, Probed, Untrue
  <2>4. \A d \in Callers : Awaited(d)'
    BY <2>1, <2>2 DEF Selects, Awaited, CallShapes, Hearing, HearingStablecoin, Places, Judged, Probed, Untrue
  <2> QED BY <2>3, <2>4
<1>2. CASE UsableSelection = {}
  <2>1. /\ walk' = [walk EXCEPT ![w] = [at |-> 1, outcome |-> "none"]]
        /\ selection' = w /\ selectionAge' = 0 /\ pinned' = "none"
        /\ UNCHANGED selected
    BY <1>2 DEF Selects, SelectSwapProvider
  <2>2. /\ walk'[w] = [at |-> 1, outcome |-> "none"]
        /\ \A x \in Promises \ {w} : walk'[x] = walk[x]
    BY <2>1 DEF ProvidersTypeOK
  <2>3. ProvidersTypeOK' /\ TrustedForTheTTL'
    BY <2>1, TheProviders DEF ProvidersTypeOK, TrustedForTheTTL, Selects
  <2>4. \A a : Judged(w, a)'
    BY <2>2 DEF Judged
  <2>5. \A x \in Promises : Judged(x, TTL) => Judged(x, TTL)'
    BY <2>2, <2>4 DEF Judged, Untrue, Selects
  <2>6. AnswersKept'
    BY <2>1, <2>4 DEF AnswersKept, Selects, Judged, Probed, Untrue
  <2>7. \A d \in Callers : Awaited(d)'
    <3> SUFFICES ASSUME NEW d \in Callers PROVE Awaited(d)'
      OBVIOUS
    <3>1. CASE d = c
      BY <2>1, <2>4, <3>1 DEF Selects, Awaited, CallShapes, Hearing, HearingStablecoin
    <3>2. CASE d # c
      BY <2>5, <3>2 DEF Selects, Awaited, CallShapes, Probed, Untrue
    <3> QED BY <3>1, <3>2
  <2> QED BY <2>3, <2>6, <2>7
<1> QED BY <1>1, <1>2

\* So does one that needs the stablecoin route, unless it is told at once.
Asks(c, w) ==
  /\ AskStablecoin(w)
  /\ UNCHANGED <<creating, flipped, walk, selection, selectionAge, pinned, selected>>
  /\ overdue' \subseteq overdue \cup {"stablecoinOn"}
  /\ awaits' = [awaits EXCEPT ![c] = IF StablecoinAnswered THEN NoPromise ELSE liveness']
  /\ \E l \in HearingStablecoin : pc' = [pc EXCEPT ![c] = l]

LEMMA AskAges ==
  ASSUME AgesInv, CallShapes, NEW c \in Callers, NEW w \in Promises, Asks(c, w)
  PROVE  AgesInv'
<1> USE TTLAssumption DEF AgesInv
<1>0. TrustedForTheTTL' /\ overdue' \subseteq Says
  BY DEF TrustedForTheTTL, Asks, ProvidersTypeOK, Says
<1>1. CASE StablecoinAnswered \/ UsableLiveness # {}
  <2>1. UNCHANGED <<probe, liveness, livenessAge>>
    BY <1>1 DEF Asks, AskStablecoin, stablecoinVars
  <2>2. \/ awaits'[c] = NoPromise
        \/ awaits'[c] = liveness /\ liveness # NoPromise /\ livenessAge < TTL
    BY <1>1, <2>1 DEF Asks, UsableLiveness, CallShapes
  <2>3. awaits'[c] # NoPromise => awaits'[c] \in Promises /\ Probed(awaits'[c], TTL)
    <3> SUFFICES ASSUME awaits'[c] = liveness, liveness # NoPromise, livenessAge < TTL
                 PROVE  liveness \in Promises /\ Probed(liveness, TTL)
      BY <2>2
    <3>1. liveness \in Promises /\ livenessAge \in Nat /\ TTL \in Nat
      BY DEF ProvidersTypeOK
    <3>2. Probed(liveness, livenessAge)
      BY DEF AnswersKept
    <3> QED BY <3>1, <3>2, JudgedLonger
  <2>4. ProvidersTypeOK' /\ AnswersKept'
    BY <1>0, <2>1 DEF ProvidersTypeOK, AnswersKept, Asks, Judged, Probed, Untrue
  <2>5. \A d \in Callers : Awaited(d)'
    <3> SUFFICES ASSUME NEW d \in Callers PROVE Awaited(d)'
      OBVIOUS
    <3>1. CASE d = c
      BY <2>1, <2>3, <3>1 DEF Asks, Awaited, CallShapes, Hearing, HearingStablecoin, Probed, Untrue
    <3>2. CASE d # c
      BY <2>1, <3>2 DEF Asks, Awaited, CallShapes, Judged, Probed, Untrue
    <3> QED BY <3>1, <3>2
  <2> QED BY <1>0, <2>4, <2>5
<1>2. CASE ~(StablecoinAnswered \/ UsableLiveness # {})
  <2>1. probe' = [probe EXCEPT ![w] = "sent"] /\ liveness' = w /\ livenessAge' = 0
    BY <1>2 DEF Asks, AskStablecoin
  <2>2. probe'[w] = "sent" /\ \A x \in Promises \ {w} : probe'[x] = probe[x]
    BY <2>1 DEF ProvidersTypeOK
  <2>3. ProvidersTypeOK'
    BY <1>0, <2>1 DEF ProvidersTypeOK, Asks
  <2>4. \A a : Probed(w, a)'
    BY <2>2 DEF Probed
  <2>5. \A x \in Promises : Probed(x, TTL) => Probed(x, TTL)'
    BY <2>2, <2>4 DEF Probed, Untrue, Asks
  <2>6. AnswersKept'
    BY <2>1, <2>4 DEF AnswersKept, Asks, Judged, Probed, Untrue
  <2>7. \A d \in Callers : Awaited(d)'
    <3> SUFFICES ASSUME NEW d \in Callers PROVE Awaited(d)'
      OBVIOUS
    <3>1. CASE d = c
      BY <1>2, <2>1, <2>4, <3>1 DEF Asks, Awaited, CallShapes, Hearing, HearingStablecoin
    <3>2. CASE d # c
      BY <2>5, <3>2 DEF Asks, Awaited, CallShapes, Judged, Untrue
    <3> QED BY <3>1, <3>2
  <2> QED BY <1>0, <2>3, <2>6, <2>7
<1> QED BY <1>1, <1>2
\* A call that goes on with an answer hears nothing that is overdue.
LEMMA HearsInTime ==
  ASSUME AgesInv, NEW c \in Callers, pc[c] \in Hearing, PromiseSettled(c), Heard(c)
  PROVE  overdue' \subseteq overdue \cup {"stablecoinOn"}
<1>1. CASE walk[awaits[c]].at = 0
  BY <1>1 DEF Heard
<1>2. CASE walk[awaits[c]].at # 0
  <2> DEFINE out == Outcome(c)
             heard == {Untrue(SwapProviders[i], SwapProviders[i] = out) :
                         i \in {j \in DOMAIN SwapProviders : \A k \in 1 .. j - 1 : SwapProviders[k] # out}}
  <2>1. awaits[c] \in Promises /\ Judged(awaits[c], TTL)
    BY DEF AgesInv, Awaited
  <2>2. walk[awaits[c]].at \in {1, 2} /\ out \in {"boltz", "coinos", "none", "rejected"}
    BY <1>2, <2>1, TheProviders DEF AgesInv, ProvidersTypeOK, Outcome
  <2>3. HearWalk(out)
    BY <1>2 DEF Heard
  <2>4. \A p \in ProviderIds, b \in BOOLEAN : Untrue(p, b) \in 0 .. TTL + 1
    BY UntrueIsAnAge DEF AgesInv
  <2>5. out # "none" => \A a \in heard : ~(a > TTL)
    <3> SUFFICES ASSUME out # "none", NEW i \in {1, 2},
                        \A k \in 1 .. i - 1 : SwapProviders[k] # out
                 PROVE  ~(Untrue(SwapProviders[i], SwapProviders[i] = out) > TTL)
      BY TheProviders
    <3>1. SwapProviders[i] \in ProviderIds
      BY TheProviders
    <3>2. i = 2 => out # "boltz"
      BY TheProviders
    <3> DEFINE b == SwapProviders[i] = out
               u == Untrue(SwapProviders[i], b)
    <3>3. u <= TTL
      <4>1. CASE i = 1 /\ out = "boltz"
        <5>1. (SwapProviders[i] = out) = TRUE /\ SwapProviders[i] = "boltz"
          BY <4>1, TheProviders
        <5> QED BY <4>1, <5>1, <2>1, <2>2, <1>2, TheProviders DEF Judged, Outcome, Untrue
      <4>2. CASE i = 1 /\ out # "boltz"
        <5>1. (SwapProviders[i] = out) = FALSE /\ SwapProviders[i] = "boltz"
          BY <4>2, TheProviders
        <5> QED BY <4>2, <5>1, <2>1, <2>2, <1>2, TheProviders DEF Judged, Outcome, Untrue
      <4>3. CASE i = 2 /\ out = "coinos"
        <5>1. (SwapProviders[i] = out) = TRUE /\ SwapProviders[i] = "coinos"
          BY <4>3, TheProviders
        <5> QED BY <4>3, <5>1, <2>1, <2>2, <1>2, TheProviders DEF Judged, Outcome, Untrue
      <4>4. CASE i = 2 /\ out # "coinos"
        <5>1. (SwapProviders[i] = out) = FALSE /\ SwapProviders[i] = "coinos"
          BY <4>4, TheProviders
        <5> QED BY <3>2, <4>4, <5>1, <2>1, <2>2, <1>2, TheProviders DEF Judged, Outcome, Untrue
      <4> QED BY <4>1, <4>2, <4>3, <4>4
    <3>4. u \in 0 .. TTL + 1
      BY <2>4, <3>1
    <3>5. \A x \in 0 .. TTL + 1 : x <= TTL => ~(x > TTL)
      BY TTLAssumption
    <3> QED BY <3>3, <3>4, <3>5, Zenon
  <2>6. out # "none"
    BY <1>2, <2>2 DEF PromiseSettled, Walking, Outcome
  <2>7. overdue' = overdue
    <3> HIDE DEF out
    <3> QED BY <2>3, <2>5, <2>6 DEF HearWalk, Hear
  <2> QED BY <2>7
<1> QED BY <1>1, <1>2

\* The backends and their answers: a probe, a switch, a tick of the clock.
LEMMA ProbeAges ==
  ASSUME AgesInv, NEW w \in Promises, WalkProbed(w), UNCHANGED intentVars
  PROVE  AgesInv'
<1> USE DEF AgesInv
<1> DEFINE turn == walk[w].at
           p == SwapProviders[turn]
<1>0. UNCHANGED <<creating, flipped, selectionAge, pinned, probe, liveness, livenessAge, overdue, pc, awaits>>
  BY DEF WalkProbed, stablecoinVars, intentVars
<1>1. turn \in {1, 2} /\ walk[w].outcome = "none" /\ p \in ProviderIds
  BY TheProviders DEF WalkProbed, Walking, ProvidersTypeOK
<1>2. /\ walk \in [Promises -> [at : 0 .. 2, outcome : ProviderIds \cup {"none", "rejected"}]]
      /\ walk'[w] \in [at : 0 .. 2, outcome : ProviderIds \cup {"none", "rejected"}]
      /\ \A x \in Promises \ {w} : walk'[x] = walk[x]
      /\ walk' \in [Promises -> [at : 0 .. 2, outcome : ProviderIds \cup {"none", "rejected"}]]
      /\ \/ p \in creating /\ walk'[w] = [at |-> turn, outcome |-> p]
            /\ selected' = p /\ selection' = selection
         \/ p \notin creating /\ turn = 2 /\ walk'[w] = [at |-> 2, outcome |-> "rejected"]
            /\ selected' = selected /\ selection' \in {selection, NoPromise}
         \/ p \notin creating /\ turn = 1 /\ walk'[w] = [at |-> 2, outcome |-> "none"]
            /\ selected' = selected /\ selection' = selection
  BY <1>1, TheProviders DEF WalkProbed, ProvidersTypeOK
<1>3. ProvidersTypeOK' /\ TrustedForTheTTL'
  BY <1>0, <1>1, <1>2, TheProviders DEF ProvidersTypeOK, TrustedForTheTTL
<1>4. \A a \in Nat : Judged(w, a) => Judged(w, a)'
  <2> SUFFICES ASSUME NEW a \in Nat, Judged(w, a) PROVE Judged(w, a)'
    OBVIOUS
  <2>1. turn = 1 => p = "boltz"
    BY TheProviders
  <2>2. turn = 2 => p = "coinos"
    BY TheProviders
  <2> HIDE DEF p
  <2> QED BY <1>0, <1>1, <1>2, <2>1, <2>2, TheProviders DEF Judged, Untrue
<1>5. \A x \in Promises : \A a \in Nat : Judged(x, a) => Judged(x, a)'
  BY <1>0, <1>2, <1>4 DEF Judged, Untrue
<1>6. AnswersKept'
  <2>1. selectionAge \in Nat /\ (selection # NoPromise => selection \in Promises)
    BY DEF ProvidersTypeOK
  <2>2. selection' # NoPromise => selection' = selection
    BY <1>2
  <2>3. selection' # NoPromise => Judged(selection, selectionAge)'
    BY <1>0, <1>5, <2>1, <2>2 DEF AnswersKept
  <2>4. selection' # NoPromise /\ pinned' # "none" => walk'[selection'].at = 0
    <3>1. \A x \in Promises : walk[x].at = 0 => walk'[x].at = 0
      BY <1>1, <1>2
    <3> QED BY <1>0, <2>1, <2>2, <3>1 DEF AnswersKept
  <2> QED BY <1>0, <2>2, <2>3, <2>4 DEF AnswersKept, Probed, Untrue, Judged
<1>7. \A d \in Callers : Awaited(d)'
  BY <1>0, <1>5, TTLAssumption DEF Awaited, Probed, Untrue, Judged
<1> QED BY <1>3, <1>6, <1>7

LEMMA StablecoinAges ==
  ASSUME AgesInv, NEW w \in Promises, StablecoinProbed(w), UNCHANGED intentVars
  PROVE  AgesInv'
<1> USE DEF AgesInv
<1>1. UNCHANGED <<creating, flipped, walk, selection, selectionAge, pinned, selected, liveness, livenessAge,
                  overdue, pc, awaits>>
  BY DEF StablecoinProbed, lightningVars, intentVars
<1>2. /\ \A x \in Promises \ {w} : probe'[x] = probe[x]
      /\ "boltz" \in creating => probe'[w] = "live"
      /\ "boltz" \notin creating => probe'[w] = "dead"
      /\ probe' \in [Promises -> {"none", "sent", "live", "dead"}]
  BY TheProviders DEF StablecoinProbed, ProvidersTypeOK
<1>3. ProvidersTypeOK' /\ TrustedForTheTTL'
  BY <1>1, <1>2 DEF ProvidersTypeOK, TrustedForTheTTL
<1>4. \A x \in Promises : \A a \in Nat : Probed(x, a) => Probed(x, a)'
  BY <1>1, <1>2 DEF Probed, Untrue
<1>5. AnswersKept'
  BY <1>1, <1>4 DEF AnswersKept, Judged, Untrue, Probed, ProvidersTypeOK
<1>6. \A d \in Callers : Awaited(d)'
  BY <1>1, <1>4, TTLAssumption DEF Awaited, Judged, Untrue, Probed
<1> QED BY <1>3, <1>5, <1>6

LEMMA FlipAges ==
  ASSUME AgesInv, NEW p \in ProviderIds, Flip(p), UNCHANGED <<pc, awaits>>
  PROVE  AgesInv'
<1> USE DEF AgesInv
<1>1. UNCHANGED <<walk, selection, selectionAge, pinned, selected, probe, liveness, livenessAge, overdue>>
  BY DEF Flip, lightningVars, stablecoinVars
<1>2. ProvidersTypeOK' /\ TrustedForTheTTL'
  BY <1>1, TTLAssumption DEF ProvidersTypeOK, TrustedForTheTTL, Flip
<1>3. \A q \in ProviderIds, b \in BOOLEAN, a \in Nat : Untrue(q, b) <= a => Untrue(q, b)' <= a
  BY DEF Flip, Untrue, ProvidersTypeOK
<1>4. \A x \in Promises : \A a \in Nat : /\ Judged(x, a) => Judged(x, a)'
                                         /\ Probed(x, a) => Probed(x, a)'
  <2> SUFFICES ASSUME NEW x \in Promises, NEW a \in Nat
               PROVE  /\ Judged(x, a) => Judged(x, a)'
                      /\ Probed(x, a) => Probed(x, a)'
    OBVIOUS
  <2>1. /\ Untrue("boltz", FALSE) <= a => Untrue("boltz", FALSE)' <= a
        /\ Untrue("boltz", TRUE) <= a => Untrue("boltz", TRUE)' <= a
        /\ Untrue("coinos", FALSE) <= a => Untrue("coinos", FALSE)' <= a
        /\ Untrue("coinos", TRUE) <= a => Untrue("coinos", TRUE)' <= a
    BY <1>3, TheProviders
  <2>2. walk' = walk /\ probe' = probe
    BY <1>1
  <2> QED BY <2>1, <2>2, Zenon DEF Judged, Probed
<1>5. AnswersKept'
  <2>1. /\ selectionAge \in Nat /\ (selection # NoPromise => selection \in Promises)
        /\ livenessAge \in Nat /\ (liveness # NoPromise => liveness \in Promises)
    BY DEF ProvidersTypeOK
  <2>2. /\ selection # NoPromise => Judged(selection, selectionAge)'
        /\ liveness # NoPromise => Probed(liveness, livenessAge)'
    BY <1>1, <1>4, <2>1 DEF AnswersKept
  <2> QED BY <1>1, <2>2 DEF AnswersKept, Judged, Probed
<1>6. \A d \in Callers : Awaited(d)'
  BY <1>4, TTLAssumption DEF Awaited, Judged, Probed
<1> QED BY <1>2, <1>5, <1>6

\* No tick comes between an answer and the call that waits for it (Prompt).
LEMMA TickAges ==
  ASSUME AgesInv, Prompt, Clock, UNCHANGED <<pc, awaits>>
  PROVE  AgesInv'
<1> USE DEF AgesInv
<1>1. /\ UNCHANGED <<creating, walk, selection, pinned, selected, probe, liveness, overdue>>
      /\ flipped' = [p \in ProviderIds |-> Older(flipped[p])]
      /\ selection # NoPromise => selectionAge' = Older(selectionAge)
      /\ selection = NoPromise => selectionAge' = selectionAge
      /\ liveness # NoPromise => livenessAge' = Older(livenessAge)
      /\ liveness = NoPromise => livenessAge' = livenessAge
      /\ \A w \in Promises : ~Walking(w) /\ probe[w] # "sent"
  BY DEF Clock
<1>2. \A n \in 0 .. TTL + 1 : Older(n) \in 0 .. TTL + 1
  BY TTLAssumption DEF Older
<1>3. ProvidersTypeOK' /\ TrustedForTheTTL'
  <2>1. flipped' \in [ProviderIds -> 0 .. TTL + 1]
    BY <1>1, <1>2 DEF ProvidersTypeOK
  <2>2. selectionAge' \in 0 .. TTL + 1 /\ livenessAge' \in 0 .. TTL + 1
    BY <1>1, <1>2 DEF ProvidersTypeOK
  <2> QED BY <1>1, <2>1, <2>2 DEF ProvidersTypeOK, TrustedForTheTTL
<1>4. \A q \in ProviderIds, b \in BOOLEAN, a \in 0 .. TTL + 1 :
        Untrue(q, b) <= a => Untrue(q, b)' <= Older(a)
  <2> SUFFICES ASSUME NEW q \in ProviderIds, NEW b \in BOOLEAN, NEW a \in 0 .. TTL + 1,
                      Untrue(q, b) <= a
               PROVE  Untrue(q, b)' <= Older(a)
    OBVIOUS
  <2>1. flipped'[q] = Older(flipped[q]) /\ flipped[q] \in 0 .. TTL + 1
    BY <1>1 DEF ProvidersTypeOK
  <2> QED BY <1>1, <2>1, TTLAssumption DEF Untrue, Older
<1>5. \A x \in Promises : \A a \in 0 .. TTL + 1 :
        /\ Judged(x, a) => (Judged(x, Older(a)))'
        /\ Probed(x, a) => (Probed(x, Older(a)))'
  <2> SUFFICES ASSUME NEW x \in Promises, NEW a \in 0 .. TTL + 1
               PROVE  /\ Judged(x, a) => (Judged(x, Older(a)))'
                      /\ Probed(x, a) => (Probed(x, Older(a)))'
    OBVIOUS
  <2>1. /\ Untrue("boltz", FALSE) <= a => Untrue("boltz", FALSE)' <= Older(a)
        /\ Untrue("boltz", TRUE) <= a => Untrue("boltz", TRUE)' <= Older(a)
        /\ Untrue("coinos", FALSE) <= a => Untrue("coinos", FALSE)' <= Older(a)
        /\ Untrue("coinos", TRUE) <= a => Untrue("coinos", TRUE)' <= Older(a)
    BY <1>4, TheProviders
  <2>2. walk' = walk /\ probe' = probe
    BY <1>1
  <2> QED BY <2>1, <2>2, Zenon DEF Judged, Probed
<1>6. AnswersKept'
  <2>1. /\ selectionAge \in 0 .. TTL + 1 /\ (selection # NoPromise => selection \in Promises)
        /\ livenessAge \in 0 .. TTL + 1 /\ (liveness # NoPromise => liveness \in Promises)
    BY DEF ProvidersTypeOK
  <2> QED BY <1>1, <1>5, <2>1 DEF AnswersKept, Judged, Probed
<1>7. \A d \in Callers : Awaited(d)'
  <2> SUFFICES ASSUME NEW d \in Callers PROVE Awaited(d)'
    OBVIOUS
  <2>1. pc[d] \notin Hearing
    <3> SUFFICES ASSUME pc[d] \in Hearing PROVE FALSE
      OBVIOUS
    <3>1. awaits[d] \in Promises /\ awaits[d] # NoPromise
      BY NoPromiseIsNone DEF Awaited
    <3>2. PromiseSettled(d)
      BY <1>1, <3>1 DEF PromiseSettled
    <3> QED BY <3>2 DEF Prompt, Hearing
  <2>2. pc[d] \notin HearingStablecoin
    <3> SUFFICES ASSUME pc[d] \in HearingStablecoin PROVE FALSE
      OBVIOUS
    <3>1. awaits[d] # NoPromise => probe[awaits[d]] \in {"live", "dead"}
      BY <1>1 DEF Awaited, Probed
    <3>2. StablecoinSettled(d)
      BY <3>1 DEF StablecoinSettled
    <3> QED BY <3>2 DEF Prompt, HearingStablecoin
  <2> QED BY <2>1, <2>2 DEF Awaited
<1> QED BY <1>3, <1>6, <1>7

\* A step of a call does nothing to the answers, waits for one, or pins one.
LEMMA CallAges ==
  ASSUME AgesInv, CallsInv, NEW c \in Callers, Steps(c) \/ Meanwhile(c)
  PROVE  AgesInv'
<1> USE DEF CallsInv, CallShapes
<1>0. <<c, "check">> \in Promises /\ <<c, "create">> \in Promises
  BY DEF Promises
<1>1. CASE Quiet /\ Passes(c)
  BY <1>1, QuietAges
<1>2. ASSUME NEW w \in Promises, Selects(c, w) PROVE AgesInv'
  BY <1>2, SelectAges
<1>3. ASSUME NEW w \in Promises, Asks(c, w) PROVE AgesInv'
  BY <1>3, AskAges
<1> USE DEF Goto, Ends, Fails
<1>4. CASE Convert(c) \/ AskForQuotes(c)
  <2>1. \/ Selects(c, <<c, "check">>)
        \/ Quiet /\ Passes(c)
    <3> DEFINE Waits == /\ SelectSwapProvider(<<c, "check">>)
                        /\ awaits' = [awaits EXCEPT ![c] = selection']
                        /\ Goto(c, "checkLightning")
               Settles == /\ UNCHANGED <<lightningVars, awaits>>
                          /\ Goto(c, "multihop") \/ Goto(c, "leg") \/ Fails(c) \/ Goto(c, "quoting")
    <3>1. /\ UNCHANGED <<creating, flipped, probe, liveness, livenessAge, overdue>>
          /\ Waits \/ Settles
      <4>1. CASE Convert(c)
        <5> DEFINE found == ResolveSingleRoute(intent[c].sel, intent[c].route)
        <5>1. /\ UNCHANGED <<creating, flipped, probe, liveness, livenessAge, overdue>>
              /\ found = {} => Fails(c) /\ UNCHANGED <<lightningVars, awaits>>
              /\ \A r \in found :
                   \/ Begin(c, r) /\ UNCHANGED <<lightningVars, awaits>>
                   \/ /\ SelectSwapProvider(<<c, "check">>)
                      /\ awaits' = [awaits EXCEPT ![c] = selection']
                      /\ Goto(c, "checkLightning")
          BY <4>1, Zenon DEF Convert, stablecoinVars
        <5> HIDE DEF found
        <5>2. CASE found = {}
          BY <5>1, <5>2
        <5>3. ASSUME NEW r \in found PROVE Waits \/ Settles
          <6>1. Begin(c, r) => Goto(c, "multihop") \/ Goto(c, "leg")
            BY DEF Begin
          <6> QED BY <5>1, <5>3, <6>1
        <5> QED BY <5>1, <5>2, <5>3
      <4>2. CASE AskForQuotes(c)
        BY <4>2 DEF AskForQuotes, stablecoinVars
      <4> QED BY <1>4, <4>1, <4>2
    <3>2. CASE UNCHANGED <<lightningVars, awaits>>
      BY <3>1, <3>2 DEF Quiet, Passes, lightningVars, Places, Hearing, HearingStablecoin, Selects
    <3> QED BY <3>1, <3>2 DEF Selects, Hearing
  <2> QED BY <1>0, <1>1, <1>2, <2>1
<1>5. CASE ExecuteLightning(c)
  <2>1. Selects(c, <<c, "create">>)
    BY <1>5 DEF ExecuteLightning, Selects, Hearing, stablecoinVars
  <2> QED BY <1>0, <1>2, <2>1
<1>6. CASE CheckedLightning(c)
  <2>1. overdue' \subseteq overdue \cup {"stablecoinOn"}
    BY <1>6, HearsInTime DEF CheckedLightning, Hearing
  <2>2. Asks(c, <<c, "check">>)
    BY <1>6, <2>1 DEF CheckedLightning, AwaitStablecoin, Asks, HearingStablecoin, lightningVars
  <2> QED BY <1>0, <1>3, <2>2
<1>7. CASE ExecuteToStablecoin(c)
  <2>1. Asks(c, <<c, "create">>)
    BY <1>7 DEF ExecuteToStablecoin, AwaitStablecoin, Asks, HearingStablecoin, lightningVars
  <2> QED BY <1>0, <1>3, <2>1
<1>8. CASE LightningProvider(c)
  <2>1. overdue' \subseteq overdue \cup {"stablecoinOn"}
    BY <1>8, HearsInTime DEF LightningProvider, Hearing
  <2>2. Quiet /\ Passes(c)
    BY <1>8, <2>1 DEF LightningProvider, Quiet, Passes, lightningVars, stablecoinVars, Places, Hearing,
       HearingStablecoin
  <2> QED BY <1>1, <2>2
<1>9. CASE CheckedStablecoin(c) \/ StablecoinProviderLive(c)
  <2>1. /\ pc[c] \in HearingStablecoin /\ StablecoinSettled(c) /\ HeardStablecoin(c)
        /\ UNCHANGED <<creating, flipped, walk, selection, selectionAge, pinned, selected, probe, liveness,
                       livenessAge, awaits>>
    BY <1>9 DEF CheckedStablecoin, StablecoinProviderLive, lightningVars, stablecoinVars, HearingStablecoin
  <2>2. overdue' \subseteq overdue \cup {"stablecoinOn"}
    <3>1. CASE StablecoinLive(c)
      BY <2>1, <3>1 DEF HeardStablecoin, HearStablecoin, Hear
    <3>2. CASE ~StablecoinLive(c)
      <4>1. Probed(awaits[c], TTL) /\ probe[awaits[c]] = "dead"
        BY <2>1, <3>2 DEF AgesInv, Awaited, StablecoinLive, StablecoinSettled
      <4>2. Untrue("boltz", FALSE) <= TTL /\ Untrue("boltz", FALSE) \in 0 .. TTL + 1
        BY <4>1, UntrueIsAnAge, TheProviders DEF Probed, AgesInv
      <4>3. ~(Untrue("boltz", FALSE) > TTL)
        <5>1. \A x \in 0 .. TTL + 1 : x <= TTL => ~(x > TTL)
          BY TTLAssumption
        <5> QED BY <4>2, <5>1, Zenon
      <4>4. Hear("stablecoinOff", {Untrue("boltz", FALSE)})
        <5>1. HearStablecoin(StablecoinLive(c))
          BY <2>1, <3>2, Zenon DEF HeardStablecoin
        <5>2. StablecoinLive(c) = FALSE
          BY <3>2
        <5>3. HearStablecoin(FALSE)
          BY <5>1, <5>2, Zenon
        <5> QED BY <5>3, TheProviders DEF HearStablecoin
      <4> QED BY <4>3, <4>4 DEF Hear
    <3> QED BY <3>1, <3>2
  <2>3. Passes(c)
    <3>1. \/ Goto(c, "quoting") \/ Goto(c, "multihop") \/ Goto(c, "leg") \/ Goto(c, "offering") \/ Fails(c)
      BY <1>9 DEF CheckedStablecoin, StablecoinProviderLive, Begin
    <3> QED BY <2>1, <3>1 DEF Passes, Places, Hearing, HearingStablecoin
  <2> QED BY <1>1, <2>1, <2>2, <2>3 DEF Quiet
<1>10. CASE OfferSwap(c)
  <2>1. Quiet
    BY <1>10 DEF OfferSwap, InvalidateSelection, Quiet, stablecoinVars
  <2>2. Passes(c)
    BY <1>10 DEF OfferSwap, Created, Passes, Places, Hearing, HearingStablecoin
  <2> QED BY <1>1, <2>1, <2>2
<1>11. CASE Pin(c)
  <2>1. PICK p \in ProviderIds : ForceSwapProvider(<<c, "create">>, p)
    BY <1>11 DEF Pin
  <2> DEFINE w == <<c, "create">>
  <2>2. /\ walk'[w] = [at |-> 0, outcome |-> p]
        /\ \A x \in Promises \ {w} : walk'[x] = walk[x]
        /\ walk' \in [Promises -> [at : 0 .. 2, outcome : ProviderIds \cup {"none", "rejected"}]]
        /\ selection' = w /\ selected' = p /\ pinned' = p
        /\ UNCHANGED <<selectionAge, creating, flipped, probe, liveness, livenessAge, overdue, awaits>>
        /\ pc' = [pc EXCEPT ![c] = "done"]
    BY <1>0, <1>11, <2>1, TheProviders DEF Pin, ForceSwapProvider, stablecoinVars, AgesInv, ProvidersTypeOK
  <2>3. ProvidersTypeOK' /\ TrustedForTheTTL'
    BY <1>0, <2>2, TheProviders DEF AgesInv, ProvidersTypeOK, TrustedForTheTTL
  <2>4. \A a : Judged(w, a)'
    BY <2>2 DEF Judged
  <2>5. \A x \in Promises : \A a : Judged(x, a) => Judged(x, a)'
    BY <2>2, <2>4 DEF Judged, Untrue
  <2>6. AnswersKept'
    BY <2>2, <2>4 DEF AgesInv, AnswersKept, Judged, Probed, Untrue
  <2>7. \A d \in Callers : Awaited(d)'
    BY <2>2, <2>5 DEF AgesInv, Awaited, Probed, Untrue, Hearing, HearingStablecoin, Places
  <2> QED BY <2>3, <2>6, <2>7 DEF AgesInv
<1>12. ASSUME \/ ExecuteInflow(c) \/ ExecuteMarketSwap(c) \/ FundOut(c) \/ PollUntil(c)
              \/ SubmarineStatus(c) \/ RefundOne(c) \/ ExecuteStablecoin(c) \/ QuoteRoutes(c)
              \/ Meanwhile(c)
       PROVE  Quiet /\ Passes(c)
  <2>1. UNCHANGED providerVars /\ UNCHANGED awaits
    BY <1>12 DEF ExecuteInflow, ExecuteMarketSwap, FundOut, PollUntil, SubmarineStatus, RefundOne,
       ExecuteStablecoin, QuoteRoutes, Meanwhile, PollThrows, SubscribeThrows, CompletionTimesOut, Fate
  <2>2. Quiet
    BY <2>1 DEF Quiet, providerVars, lightningVars, stablecoinVars
  <2>3. \E l \in Places \ (Hearing \cup HearingStablecoin) : pc' = [pc EXCEPT ![c] = l]
    <3>1. CASE Fate(c)
      <4>1. pc' = [pc EXCEPT ![c] = pc[c]] /\ pc[c] \in {"polling", "completing", "refunding", "done"}
        BY <3>1 DEF Fate, CallsInv, CallShapes, LegFits
      <4> QED BY <4>1 DEF Places, Hearing, HearingStablecoin
    <3>2. CASE ~Fate(c)
      <4>1. \/ pc' = [pc EXCEPT ![c] = "done"]
            \/ pc' = [pc EXCEPT ![c] = "polling"]
            \/ pc' = [pc EXCEPT ![c] = "completing"]
            \/ pc' = [pc EXCEPT ![c] = "refunding"]
        BY <1>12, <3>2 DEF ExecuteInflow, ExecutePegIn, ExecuteShiftReceive, ExecuteMarketSwap, FundOut,
           PollUntil, TimesOut, SubmarineStatus, RefundOne, ExecuteStablecoin, QuoteRoutes, Meanwhile,
           PollThrows, SubscribeThrows, CompletionTimesOut
      <4> QED BY <4>1 DEF Places, Hearing, HearingStablecoin
    <3> QED BY <3>1, <3>2
  <2> QED BY <2>1, <2>2, <2>3 DEF Passes
<1> QED BY <1>1, <1>4, <1>5, <1>6, <1>7, <1>8, <1>9, <1>10, <1>11, <1>12 DEF Steps

THEOREM AnswersAreOfAnAge == Spec => []AgesInv
<1>1. Init => AgesInv
  <2> SUFFICES ASSUME Init PROVE AgesInv
    OBVIOUS
  <2>1. PICK on \in SUBSET ProviderIds : ProvidersInit(on)
    BY DEF Init
  <2>2. ProvidersTypeOK
    BY <2>1, TheProviders, TTLAssumption DEF ProvidersInit, ProvidersTypeOK, NoWalk
  <2>3. AnswersKept /\ TrustedForTheTTL
    BY <2>1 DEF ProvidersInit, AnswersKept, TrustedForTheTTL
  <2>4. \A c \in Callers : Awaited(c)
    BY DEF Init, Awaited, Hearing, HearingStablecoin
  <2> QED BY <2>2, <2>3, <2>4 DEF AgesInv
<1>2. CallsInv /\ AgesInv /\ [Next]_vars => AgesInv'
  <2> SUFFICES ASSUME CallsInv, AgesInv, [Next]_vars PROVE AgesInv'
    OBVIOUS
  <2>1. ASSUME NEW c \in Callers, Steps(c) \/ Meanwhile(c) PROVE AgesInv'
    BY <2>1, CallAges
  <2>2. ASSUME NEW w \in Promises, WalkProbed(w) \/ StablecoinProbed(w), UNCHANGED intentVars
        PROVE  AgesInv'
    BY <2>2, ProbeAges, StablecoinAges
  <2>3. CASE Backends /\ UNCHANGED <<pc, awaits>>
    BY <2>3, FlipAges, TickAges DEF Backends
  <2>4. CASE UNCHANGED vars
    BY <2>4 DEF vars, intentVars, providerVars, lightningVars, stablecoinVars, AgesInv, ProvidersTypeOK, AnswersKept,
       Awaited, TrustedForTheTTL, Judged, Probed, Untrue
  <2> QED BY <2>1, <2>2, <2>3, <2>4 DEF Next
<1> QED BY <1>1, <1>2, CallsAreSound, PTL DEF Spec

\* Whoever pins a backend, switches one off and on again, refuses a swap or
\* restarts a walk meanwhile: no call goes on with the word of a probe that the
\* world has contradicted for longer than the time to live (providers.ts).
THEOREM AnswersAreFresh == Spec => []TrustedForTheTTL
<1>1. AgesInv => TrustedForTheTTL
  BY DEF AgesInv
<1> QED BY <1>1, AnswersAreOfAnAge, PTL

-----------------------------------------------------------------------------
(* The types of the intents                                                *)

LEMMA LegsOfTwo == \A a, b : Len(<<a>>) = 1 /\ Len(<<a, b>>) = 2
OBVIOUS

LEMMA RoutesHaveLegs == ASSUME NEW sel, NEW r \in EnumerateRoutes(sel) PROVE Len(r) \in Nat \ {0}
<1>1. ASSUME NEW e, NEW a PROVE Len(LandOn(e, a)) \in {1, 2}
  BY LegsOfTwo, Zenon DEF LandOn
<1>2. \A n \in {1, 2} : n \in Nat \ {0}
  OBVIOUS
<1>3. ASSUME NEW e PROVE Len(<<e>>) \in {1, 2}
  BY LegsOfTwo, Zenon
<1>4. CASE sel.network = "liquid" /\ sel.to \in LiquidAssets
  <2>1. CASE OnLiquid(sel.from, sel.fromNetwork)
    <3>1. \/ r = <<MarketLeg(sel.from, sel.to)>>
          \/ \E e \in EntryLegs("USDT", UNSET) : r = <<e>>
      BY <1>4, <2>1, Zenon DEF EnumerateRoutes
    <3> QED BY <3>1, <1>2, <1>3, Zenon
  <2>2. CASE ~OnLiquid(sel.from, sel.fromNetwork)
    BY <1>1, <1>2, <1>4, <2>2, Zenon DEF EnumerateRoutes
  <2> QED BY <2>1, <2>2
<1>5. CASE ~(sel.network = "liquid" /\ sel.to \in LiquidAssets)
  <2>1. PICK x \in ExitLegs(sel.to, sel.network) :
          \E p \in ReachPivot(sel.from, sel.fromNetwork, x.from) : r = Append(p, x)
    BY <1>5, Zenon DEF EnumerateRoutes
  <2>2. PICK p \in ReachPivot(sel.from, sel.fromNetwork, x.from) : r = Append(p, x)
    BY <2>1
  <2>3. IsRoute(p)
    <3>1. ASSUME NEW e, NEW a PROVE IsRoute(LandOn(e, a))
      BY ShortRoutes, Zenon DEF LandOn
    <3> QED BY <3>1, ShortRoutes, Zenon DEF ReachPivot
  <2>4. PICK S : p \in Seq(S)
    BY <2>3 DEF IsRoute
  <2>5. Len(r) = Len(p) + 1 /\ Len(p) \in Nat
    BY <2>2, <2>4
  <2> QED BY <2>5
<1> QED BY <1>4, <1>5

LEMMA ResolvedIsARoute ==
  ASSUME NEW sel, NEW wanted, NEW r \in ResolveSingleRoute(sel, wanted)
  PROVE  Len(r) \in Nat \ {0}
<1>1. r \in EnumerateRoutes(sel)
  BY Zenon DEF ResolveSingleRoute
<1> QED BY <1>1, RoutesHaveLegs

LEMMA BeginsByLength ==
  ASSUME NEW c, NEW r, Len(r) \in Nat \ {0}, Begin(c, r)
  PROVE  Goto(c, "multihop") \/ (Len(r) = 1 /\ Goto(c, "leg"))
<1>1. CASE Len(r) > 1
  BY <1>1 DEF Begin
<1>2. CASE ~(Len(r) > 1)
  <2>1. Goto(c, "leg")
    BY <1>2 DEF Begin
  <2>2. Len(r) = 1
    <3>1. \A n \in Nat \ {0} : ~(n > 1) => n = 1
      OBVIOUS
    <3> QED BY <1>2, <3>1, Zenon
  <2> QED BY <2>1, <2>2
<1> QED BY <1>1, <1>2

\* A conversion has its route when it asks for the rails; what it executes itself is
\* one leg long, and nothing else moves its value. It has an answer when it is done.
RouteFits(c) ==
  /\ pc[c] \in {"checkLightning", "checkStablecoin"} /\ intent[c].op # "quote" =>
       Len(route[c]) \in Nat \ {0}
  /\ pc[c] \in {"leg", "selectProvider", "assertLive", "offering", "fund", "polling", "completing"} =>
       Len(route[c]) = 1
  /\ funds[c] # "home" => Len(route[c]) = 1
  /\ pc[c] = "done" <=> (result[c] # "none" \/ intent[c].op = "none")
  /\ rails[c] \subseteq {"lightning", "stablecoin"}

\* A step of one call, and where it leaves it.
OneConverses(c) ==
  /\ UNCHANGED <<intent, flips>>
  /\ \A x \in Callers \ {c} : /\ pc'[x] = pc[x] /\ route'[x] = route[x] /\ funds'[x] = funds[x]
                              /\ result'[x] = result[x] /\ rails'[x] = rails[x]
  /\ RouteFits(c)'

RoutesFit ==
  /\ intent \in Workloads
  /\ \A c \in Callers : RouteFits(c)
  /\ flips \in 0 .. MaxFlips

LEMMA OneConversation == ASSUME RoutesFit, NEW c \in Callers, OneConverses(c) PROVE RoutesFit'
BY DEF RoutesFit, RouteFits, OneConverses

LEMMA InitRoutes == Init => RoutesFit
BY IntentAssumption DEF Init, RoutesFit, RouteFits

LEMMA StepRoutes == CallsInv /\ RoutesFit /\ [Next]_vars => RoutesFit'
<1> SUFFICES ASSUME CallsInv, RoutesFit, [Next]_vars PROVE RoutesFit'
  OBVIOUS
<1>1. ASSUME NEW c \in Callers, Steps(c) \/ Meanwhile(c) PROVE OneConverses(c)
  <2>1. CallShapes /\ LegFits(c) /\ RouteFits(c)
    BY DEF CallsInv, RoutesFit
  <2> USE <2>1 DEF CallShapes, LegFits, RouteFits, OneConverses, Goto, Ends, Fails, Places, Statuses, Wheres
  <2>2. CASE Convert(c)
    <3> DEFINE found == ResolveSingleRoute(intent[c].sel, intent[c].route)
    <3>1. /\ pc[c] = "asked" /\ intent[c].op = "convert"
          /\ UNCHANGED <<intent, rails, funds, flips>>
          /\ found = {} => Fails(c) /\ UNCHANGED route
          /\ \A r \in found : /\ route' = [route EXCEPT ![c] = r]
                              /\ Begin(c, r) \/ Goto(c, "checkLightning")
      BY <2>2 DEF Convert
    <3>2. \A r \in found : Len(r) \in Nat \ {0}
      BY ResolvedIsARoute
    <3> HIDE DEF found
    <3>3. CASE found = {}
      <4>1. Fails(c) /\ UNCHANGED <<intent, rails, funds, flips, route>>
        BY <3>1, <3>3
      <4> QED BY <3>1, <4>1
    <3>4. ASSUME NEW r \in found PROVE OneConverses(c)
      <4>1. /\ pc[c] = "asked" /\ intent[c].op = "convert" /\ UNCHANGED <<intent, rails, funds, flips>>
            /\ route' = [route EXCEPT ![c] = r] /\ Len(r) \in Nat \ {0}
            /\ \/ Goto(c, "multihop")
               \/ Len(r) = 1 /\ Goto(c, "leg")
               \/ Goto(c, "checkLightning")
        BY <3>1, <3>2, <3>4, BeginsByLength
      <4> QED BY <4>1
    <3> QED BY <3>3, <3>4
  <2>3. CASE CheckedLightning(c)
    <3>1. /\ pc[c] = "checkLightning" /\ Goto(c, "checkStablecoin")
          /\ \E s \in {{"lightning"}, {}} : rails' = [rails EXCEPT ![c] = s]
          /\ UNCHANGED <<intent, route, funds, flips>>
      BY <2>3 DEF CheckedLightning
    <3> QED BY <3>1
  <2>4. CASE CheckedStablecoin(c)
    <3>1. /\ pc[c] = "checkStablecoin" /\ UNCHANGED <<intent, route, funds, flips>>
          /\ \E s \in {rails[c] \cup {"stablecoin"}, rails[c]} : rails' = [rails EXCEPT ![c] = s]
          /\ \/ Goto(c, "quoting")
             \/ intent[c].op # "quote" /\ Begin(c, route[c])
             \/ Fails(c)
      BY <2>4 DEF CheckedStablecoin
    <3>2. \/ Goto(c, "quoting")
          \/ Goto(c, "multihop")
          \/ Len(route[c]) = 1 /\ Goto(c, "leg")
          \/ Fails(c)
      BY <3>1, BeginsByLength
    <3>3. PICK s \in {rails[c] \cup {"stablecoin"}, rails[c]} : rails' = [rails EXCEPT ![c] = s]
      BY <3>1
    <3> QED BY <3>1, <3>2, <3>3
  <2>5. CASE ExecuteInflow(c)
    BY <2>5 DEF ExecuteInflow, ExecutePegIn, ExecuteShiftReceive
  <2>6. CASE ExecuteMarketSwap(c)
    BY <2>6 DEF ExecuteMarketSwap
  <2>7. CASE ExecuteLightning(c)
    BY <2>7 DEF ExecuteLightning
  <2>8. CASE LightningProvider(c)
    BY <2>8 DEF LightningProvider
  <2>9. CASE ExecuteToStablecoin(c)
    BY <2>9 DEF ExecuteToStablecoin
  <2>10. CASE StablecoinProviderLive(c)
    BY <2>10 DEF StablecoinProviderLive
  <2>11. CASE OfferSwap(c)
    BY <2>11 DEF OfferSwap, Created
  <2>12. CASE FundOut(c)
    BY <2>12 DEF FundOut
  <2>13. CASE PollUntil(c)
    BY <2>13 DEF PollUntil, PollTells, ShiftTells, PegOutTells, TimesOut
  <2>14. CASE SubmarineStatus(c)
    BY <2>14 DEF SubmarineStatus
  <2>15. CASE AskForQuotes(c)
    BY <2>15 DEF AskForQuotes
  <2>16. CASE QuoteRoutes(c)
    BY <2>16 DEF QuoteRoutes
  <2>17. CASE Pin(c)
    BY <2>17 DEF Pin
  <2>18. CASE PollThrows(c)
    BY <2>18 DEF PollThrows
  <2>19. CASE Fate(c)
    BY <2>19 DEF Fate
  <2>20. CASE RefundOne(c)
    BY <2>20 DEF RefundOne
  <2>21. CASE ExecuteStablecoin(c)
    BY <2>21 DEF ExecuteStablecoin
  <2>22. CASE SubscribeThrows(c)
    BY <2>22 DEF SubscribeThrows
  <2>23. CASE CompletionTimesOut(c)
    BY <2>23 DEF CompletionTimesOut, TimesOut
  <2> QED BY <1>1, <2>2, <2>3, <2>4, <2>5, <2>6, <2>7, <2>8, <2>9, <2>10, <2>11, <2>12, <2>13, <2>14,
             <2>15, <2>16, <2>17, <2>18, <2>19, <2>20, <2>21, <2>22, <2>23 DEF Steps, Meanwhile
<1>2. CASE UNCHANGED intentVars
  BY <1>2 DEF intentVars, RoutesFit, RouteFits
<1>3. CASE Backends /\ UNCHANGED <<intent, pc, awaits, route, rails, offers, funds, result, quotes>>
  BY <1>3, IntentAssumption DEF Backends, RoutesFit, RouteFits
<1> QED BY <1>1, <1>2, <1>3, OneConversation DEF Next, vars

\* Type correctness of the intents: each call stands where its code can stand, has
\* an answer when it is done and not before, and only a route of one leg moves
\* money here; what is kept of the providers' answers is an answer, of an age.
THEOREM IntentTypeCorrect == Spec => []TypeOK
<1>1. Init => RoutesFit
  BY InitRoutes
<1>2. CallsInv /\ RoutesFit /\ [Next]_vars => RoutesFit'
  BY StepRoutes
<1>3. CallsInv /\ RoutesFit /\ AgesInv => TypeOK
  BY IntentAssumption DEF CallsInv, CallShapes, LegFits, RoutesFit, RouteFits, AgesInv, TypeOK, Places, Wheres
<1> QED BY <1>1, <1>2, <1>3, CallsAreSound, AnswersAreOfAnAge, PTL DEF Spec
=============================================================================
