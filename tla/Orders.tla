------------------------------- MODULE Orders -------------------------------
(***************************************************************************)
(* Orders with the custodial providers: SideShift shifts (send, receive),  *)
(* SideSwap peg-outs and CryptoRefills gift cards.                         *)
(*                                                                         *)
(* Each operation is a fixed sequence of awaits (Flow).  What it is worth  *)
(* is counted and paid in one section of opMutex; the order itself lives   *)
(* at the provider and, for shifts and gift cards, in a local log that the *)
(* operation, status polls and recovery rewrite.  Logging never makes an   *)
(* operation fail.  The process may stop at any await.                     *)
(*                                                                         *)
(* A status is a number that only grows at the provider: 1 is a new order, *)
(* FinalStatus a settled shift or a delivered card (with its code).        *)
(***************************************************************************)
EXTENDS OpChain, OrderLog, ShopConfig, FiniteSets

CONSTANTS
  Operations,   \* tool calls that create an order
  OrderKinds,   \* the kinds asked for
  Polls,        \* concurrent status polls, recover()'s included
  FinalStatus,  \* the last status
  MaxFaults     \* bound on the writes of a log that fail

\* What each operation awaits, in order.  "enter" to "leave" is its section.
SendFlow == <<"queue", "enter", "enforce", "order", "sign", "record", "broadcast", "save", "leave">>
ReceiveFlow == <<"queue", "enter", "address", "leave", "order", "save">>
PegOutFlow == <<"queue", "enter", "enforce", "order", "sign", "record", "broadcast", "leave">>
BuyFlow == <<"gate", "order", "save", "queue", "enter", "enforce", "sign", "record", "broadcast",
             "leave", "patch">>
Flow == [shift |-> SendFlow, receive |-> ReceiveFlow, pegOut |-> PegOutFlow, gift |-> BuyFlow]

ASSUME OrdersAssumption == OrderKinds \subseteq DOMAIN Flow /\ FinalStatus \in Nat \ {0} /\ MaxFaults \in Nat

VARIABLES
  kind,      \* what each operation asks for
  at,        \* its place in its flow; 0 before it and after it
  status,    \* the provider's status of its order; 0 is none
  booked,    \* operations whose spend was recorded
  paid,      \* operations whose payment was broadcast
  logs,      \* the two logs on disk
  poll,      \* per poll, the order it asked about and the answer on its way
  raced,     \* history: orders two polls were on at once
  unsaved,   \* history: orders whose record could not be written
  lost,      \* history: operations that stopped, or whose broadcast got no answer
  failures   \* log writes that failed so far

orderVars == <<kind, at, status, booked, paid, logs, poll, raced, unsaved, lost, failures, shopVars>>

NoPoll == [order |-> "none", answer |-> 0]
Doing(o) == IF at[o] = 0 THEN "nothing" ELSE Flow[kind[o]][at[o]]
LogOf(k) == IF k = "gift" THEN "gift" ELSE "shift"
Here(o) == logs[LogOf(kind[o])]

OrdersTypeOK ==
  /\ kind \in [Operations -> OrderKinds \cup {"none"}]
  /\ \A o \in Operations : at[o] # 0 => kind[o] # "none" /\ at[o] \in DOMAIN Flow[kind[o]]
  /\ status \in [Operations -> 0 .. FinalStatus]
  /\ booked \subseteq Operations /\ paid \subseteq Operations
  /\ raced \subseteq Operations /\ unsaved \subseteq Operations /\ lost \subseteq Operations
  /\ \A k \in {"shift", "gift"} :
       /\ Len(logs[k]) <= MaxStored
       /\ Cardinality(Logged(logs[k])) = Len(logs[k])
       /\ \A o \in Logged(logs[k]) : RecordOf(logs[k], o).status <= status[o]
  /\ poll \in [Polls -> [order : Operations \cup {"none"}, answer : 0 .. FinalStatus]]
  /\ failures \in 0 .. MaxFaults
  /\ ShopTypeOK

OrdersInit ==
  /\ kind = [o \in Operations |-> "none"]
  /\ at = [o \in Operations |-> 0]
  /\ status = [o \in Operations |-> 0]
  /\ booked = {} /\ paid = {} /\ raced = {} /\ unsaved = {} /\ lost = {}
  /\ logs = [shift |-> <<>>, gift |-> <<>>]
  /\ poll = [p \in Polls |-> NoPoll]
  /\ failures = 0
  /\ ShopInit

Advance(o) == at' = [at EXCEPT ![o] = IF @ = Len(Flow[kind[o]]) THEN 0 ELSE @ + 1]
End(o) == at' = [at EXCEPT ![o] = 0]

-----------------------------------------------------------------------------
(* The operations                                                          *)

Request(o, k) ==
  /\ kind[o] = "none"
  /\ kind' = [kind EXCEPT ![o] = k]
  /\ at' = [at EXCEPT ![o] = 1]
  /\ UNCHANGED <<status, booked, paid, logs, poll, raced, unsaved, lost, failures, shopVars, chain>>

\* requireEnabled(): the fresh cache answers, or the fetch everyone shares.
Gate(o) ==
  /\ Doing(o) = "gate"
  /\ IF CacheIsFresh
     THEN /\ IF config.value = "on" THEN Advance(o) ELSE End(o)
          /\ UNCHANGED shopVars
     ELSE /\ fetch.answer = "none"
          /\ JoinFetch
          /\ UNCHANGED at
  /\ UNCHANGED <<kind, status, booked, paid, logs, poll, raced, unsaved, lost, failures, chain>>

Asking == {o \in Operations : Doing(o) = "gate"}

\* The shared fetch settles for everyone who waits on it.
ConfigArrives ==
  /\ Fetched
  /\ at' = [o \in Operations |->
              IF o \notin Asking THEN at[o] ELSE IF fetch.answer = "on" THEN 2 ELSE 0]
  /\ UNCHANGED <<kind, status, booked, paid, logs, poll, raced, unsaved, lost, failures, chain>>

ConfigUnreachable ==
  /\ FetchFails
  /\ at' = [o \in Operations |-> IF o \in Asking THEN 0 ELSE at[o]]
  /\ UNCHANGED <<kind, status, booked, paid, logs, poll, raced, unsaved, lost, failures, chain>>

Queue(o) ==
  /\ Doing(o) = "queue"
  /\ Join(o)
  /\ Advance(o)
  /\ UNCHANGED <<kind, status, booked, paid, logs, poll, raced, unsaved, lost, failures, shopVars>>

EnterSection(o) ==
  /\ Doing(o) = "enter" /\ Turn(o)
  /\ Advance(o)
  /\ UNCHANGED <<kind, status, booked, paid, logs, poll, raced, unsaved, lost, failures, shopVars,
                 chain>>

\* Valued, and allowed by the limits and the allowlist; or an own address is
\* allocated for what comes in.
Allow(o) ==
  /\ Doing(o) \in {"enforce", "address"}
  /\ Advance(o)
  /\ UNCHANGED <<kind, status, booked, paid, logs, poll, raced, unsaved, lost, failures, shopVars,
                 chain>>

\* What the provider answers to a request for an order, by what is checked:
\* its fields are there, and it asks for no more than the caller agreed to
\* (shift) or for at least its minimum (peg-out); a card's invoice names its
\* amount.
Answer == [complete : BOOLEAN, amountOk : BOOLEAN]
Acceptable(a) == a.complete /\ a.amountOk

\* The answer of the payment matrix about the Lightning rail: only an explicit
\* suspension blocks a purchase.
Rail == {"available", "suspended", "unknown"}
RailSuspended(v) == v = "suspended"

FixedShift(o, a) == kind[o] = "shift" /\ Acceptable(a)
VariableShift(o, a) == kind[o] = "receive" /\ a.complete
PegOutOrder(o, a) == kind[o] = "pegOut" /\ Acceptable(a)
GiftOrder(o, a) == kind[o] = "gift" /\ Acceptable(a) /\ \E v \in Rail : ~RailSuspended(v)

CreateOrder(o) ==
  /\ Doing(o) = "order"
  /\ \E a \in Answer : FixedShift(o, a) \/ VariableShift(o, a) \/ PegOutOrder(o, a) \/ GiftOrder(o, a)
  /\ status' = [status EXCEPT ![o] = 1]
  /\ Advance(o)
  /\ UNCHANGED <<kind, booked, paid, logs, poll, raced, unsaved, lost, failures, shopVars, chain>>

\* The outputs of the transaction the engine built: who it pays outside the
\* wallet, how much, in what.
Recipients == [one : BOOLEAN, asset : BOOLEAN, amount : BOOLEAN, script : BOOLEAN]
Repinned(r) == r.one /\ r.asset /\ r.amount /\ r.script

\* A peg-out re-pins its only recipient before it signs; a shift and a lockup
\* sign what they built.
SignPegOut(o) == kind[o] = "pegOut" /\ \E r \in Recipients : Repinned(r)
SendUsdt(o) == kind[o] = "shift"
LockupSigned(o) == kind[o] = "gift"

Sign(o) ==
  /\ Doing(o) = "sign"
  /\ SignPegOut(o) \/ SendUsdt(o) \/ LockupSigned(o)
  /\ Advance(o)
  /\ UNCHANGED <<kind, status, booked, paid, logs, poll, raced, unsaved, lost, failures, shopVars,
                 chain>>

RecordOrderSpend(o) ==
  /\ Doing(o) = "record"
  /\ booked' = booked \cup {o}
  /\ Advance(o)
  /\ UNCHANGED <<kind, status, paid, logs, poll, raced, unsaved, lost, failures, shopVars, chain>>

\* The transaction may reach the network even when the call fails.
Broadcast(o) ==
  /\ Doing(o) = "broadcast"
  /\ paid' = paid \cup {o}
  /\ Advance(o)
  /\ UNCHANGED <<kind, status, booked, logs, poll, raced, unsaved, lost, failures, shopVars, chain>>

\* Faulty variant: nothing is written before the payment.
SkipSave(o) ==
  /\ Doing(o) = "save"
  /\ Advance(o)
  /\ UNCHANGED <<kind, status, booked, paid, logs, poll, raced, unsaved, lost, failures, shopVars, chain>>

\* store.save(record).catch(...): a failure is logged and swallowed.
SaveOrder(o) ==
  /\ Doing(o) = "save"
  /\ Advance(o)
  /\ \/ /\ logs' = [logs EXCEPT ![LogOf(kind[o])] = Save(@, [id |-> o, status |-> 1])]
        /\ UNCHANGED <<unsaved, failures>>
     \/ /\ failures < MaxFaults
        /\ failures' = failures + 1
        /\ unsaved' = unsaved \cup {o}
        /\ UNCHANGED logs
  /\ UNCHANGED <<kind, status, booked, paid, poll, raced, lost, shopVars, chain>>

\* Faulty variant: buy() writes the record it made before the payment again.
PatchWithOldRecord(o) ==
  /\ Doing(o) = "patch"
  /\ Advance(o)
  /\ logs' = [logs EXCEPT !.gift = Merge(@, o, 1)]
  /\ UNCHANGED <<kind, status, booked, paid, poll, raced, unsaved, lost, failures, shopVars, chain>>

\* The lockup is merged into the record; its phase and delivery are not.
Patch(o) ==
  /\ Doing(o) = "patch"
  /\ Advance(o)
  /\ UNCHANGED <<kind, status, booked, paid, logs, poll, raced, unsaved, lost, failures, shopVars,
                 chain>>

Leave(o) ==
  /\ Doing(o) = "leave"
  /\ Settled
  /\ Advance(o)
  /\ UNCHANGED <<kind, status, booked, paid, logs, poll, raced, unsaved, lost, failures, shopVars>>

\* It is inside its section: after "enter" and not past "leave".
InSection(o) ==
  /\ at[o] # 0
  /\ \E i \in DOMAIN Flow[kind[o]] : i < at[o] /\ Flow[kind[o]][i] = "enter"
  /\ \E i \in DOMAIN Flow[kind[o]] : i >= at[o] /\ Flow[kind[o]][i] = "leave"

\* Refused, rejected by the provider, or failed: the operation throws, and its
\* section settles.  An order or a broadcast whose answer was lost exists all
\* the same.
OperationFails(o) ==
  /\ Doing(o) \in {"enforce", "address", "order", "sign", "record", "broadcast"}
  /\ End(o)
  /\ \/ Doing(o) = "order" /\ status' = [status EXCEPT ![o] = 1] /\ UNCHANGED <<paid, lost>>
     \/ Doing(o) = "broadcast" /\ paid' = paid \cup {o} /\ lost' = lost \cup {o} /\ UNCHANGED status
     \/ UNCHANGED <<status, paid, lost>>
  /\ IF InSection(o) THEN Settled ELSE UNCHANGED chain
  /\ UNCHANGED <<kind, booked, logs, poll, raced, unsaved, failures, shopVars>>

-----------------------------------------------------------------------------
(* Status polls and recovery                                               *)

\* The provider moves on once it was paid (a receive is paid from outside).
ProviderMoves(o) ==
  /\ status[o] \in 1 .. FinalStatus - 1
  /\ o \in paid \/ kind[o] = "receive"
  /\ status' = [status EXCEPT ![o] = @ + 1]
  /\ UNCHANGED <<kind, at, booked, paid, logs, poll, raced, unsaved, lost, failures, shopVars, chain>>

\* The provider answers a poll with its status of that moment.
AskProvider(p, o) ==
  /\ poll[p] = NoPoll
  /\ poll' = [poll EXCEPT ![p] = [order |-> o, answer |-> status[o]]]
  /\ raced' = IF \E q \in Polls : poll[q].order = o THEN raced \cup {o} ELSE raced
  /\ UNCHANGED <<kind, at, status, booked, paid, logs, unsaved, lost, failures, shopVars, chain>>

\* The caller has the id of an order from its result or from the log.
Known(o) == kind[o] # "none" /\ (o \in Logged(Here(o)) \/ (at[o] = 0 /\ o \in paid))

\* SideShiftNamespace.getStatus(id).
GetStatus(p, o) == kind[o] \in {"shift", "receive"} /\ Known(o) /\ AskProvider(p, o)

\* GiftcardsNamespace.getOrderStatus(id).
GetOrderStatus(p, o) == kind[o] = "gift" /\ Known(o) /\ AskProvider(p, o)

\* The logged shifts that are not settled: what getPending() lists, and what
\* recover() and the opening of the wallet ask about.
Pending == {o \in Logged(logs.shift) : RecordOf(logs.shift, o).status < FinalStatus}
RefreshShift(p, o) == o \in Pending /\ AskProvider(p, o)

\* store.update(): the answer is merged into the record, if there is one and
\* the write succeeds; its phase and delivery replace what was there.
FoldStatus(p) ==
  /\ poll[p] # NoPoll
  /\ LET o == poll[p].order
     IN  \/ logs' = [logs EXCEPT ![LogOf(kind[o])] = Merge(@, o, poll[p].answer)] /\ UNCHANGED failures
         \/ failures < MaxFaults /\ failures' = failures + 1 /\ UNCHANGED logs
  /\ poll' = [poll EXCEPT ![p] = NoPoll]
  /\ UNCHANGED <<kind, at, status, booked, paid, raced, unsaved, lost, shopVars, chain>>

PollFails(p) ==
  /\ poll[p] # NoPoll
  /\ poll' = [poll EXCEPT ![p] = NoPoll]
  /\ UNCHANGED <<kind, at, status, booked, paid, logs, raced, unsaved, lost, failures, shopVars, chain>>

\* The process stops: what is on disk and at the providers stays.
OrdersStop ==
  /\ lost' = lost \cup {o \in Operations : at[o] # 0}
  /\ at' = [o \in Operations |-> 0]
  /\ poll' = [p \in Polls |-> NoPoll]
  /\ config' = [value |-> "none", at |-> 0]
  /\ fetch' = NoFetch
  /\ UNCHANGED <<kind, status, booked, paid, logs, raced, unsaved, failures, now, shopOn>>

ShopMoves ==
  /\ Tick1 \/ SwitchOff \/ Serve
  /\ UNCHANGED <<kind, at, status, booked, paid, logs, poll, raced, unsaved, lost, failures, chain>>

OrdersNext ==
  \/ ConfigArrives \/ ConfigUnreachable \/ ShopMoves
  \/ \E o \in Operations :
       \/ \E k \in OrderKinds : Request(o, k)
       \/ Gate(o) \/ Queue(o) \/ EnterSection(o) \/ Allow(o) \/ CreateOrder(o) \/ Sign(o)
       \/ RecordOrderSpend(o)
       \/ Broadcast(o) \/ SaveOrder(o) \/ Patch(o) \/ Leave(o) \/ OperationFails(o)
       \/ ProviderMoves(o)
       \/ \E p \in Polls : GetStatus(p, o) \/ GetOrderStatus(p, o) \/ RefreshShift(p, o)
  \/ \E p \in Polls : FoldStatus(p) \/ PollFails(p)

\* Every await settles: requests have timeouts (the runtime's own, where the
\* code sets none), the disk answers.
OrdersFairness ==
  /\ WF_orderVars(ConfigUnreachable)
  /\ \A o \in Operations :
       /\ WF_orderVars(Gate(o)) /\ WF_orderVars(Queue(o)) /\ WF_orderVars(EnterSection(o))
       /\ WF_orderVars(Allow(o) \/ CreateOrder(o) \/ Sign(o) \/ RecordOrderSpend(o) \/ Broadcast(o) \/ OperationFails(o))
       /\ WF_orderVars(SaveOrder(o) \/ Patch(o)) /\ WF_orderVars(Leave(o))

-----------------------------------------------------------------------------
(* Properties                                                              *)

\* Money that left for an order is counted, and the order can be found again:
\* a gift card is in the log before it is paid, whatever happens after; a send
\* is logged by the operation that paid it, so that only a process that stops
\* in between, an answer lost with the broadcast, or a failed write loses it.
\* (Peg-outs are not logged at all.)
PaidOrdersAreTracked ==
  \A o \in paid :
    /\ o \in booked
    /\ \/ o \in Logged(Here(o))
       \/ o \in unsaved
       \/ kind[o] = "pegOut"
       \/ kind[o] = "shift" /\ (Doing(o) = "save" \/ o \in lost)

\* The log of an order (and with it the code of a delivered card) never goes
\* back to an earlier status, except to the late answer of a poll another one
\* overtook.
StatusNeverGoesBack ==
  [][\A k \in {"shift", "gift"} : \A o \in Logged(logs[k]) \ raced :
       /\ o \in Logged(logs'[k])
       /\ RecordOf(logs'[k], o).status >= RecordOf(logs[k], o).status]_<<logs, raced>>

=============================================================================
