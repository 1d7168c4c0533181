------------------------------ MODULE Withdraw ------------------------------
(***************************************************************************)
(* The off-ramp: withdraw(), resumePendingWithdrawals() and the encrypted  *)
(* records in pending-withdrawals.json (wallet.ts, pending.ts).            *)
(*                                                                         *)
(* A withdrawal is recorded as "requested" before its POST, its signed     *)
(* bytes are recorded before the first broadcast, and the record is        *)
(* removed once the transaction is public.  What a crash leaves is driven  *)
(* on by recovery: signed bytes are broadcast again, a request is posted   *)
(* again under its Idempotency-Key.                                        *)
(*                                                                         *)
(* A thread is one call of withdraw(), named by its withdrawal, or one     *)
(* pass of recovery; each step is what runs between two awaits.  A         *)
(* transaction is the withdrawal it pays and the coin it spends.           *)
(***************************************************************************)
EXTENDS Naturals, FiniteSets

CONSTANTS
  Withdrawals,   \* the calls of withdraw(), each with its Idempotency-Key
  Recoveries,    \* passes of recovery that may be under way at once
  Coins,         \* the wallet's DePix coins; a transaction spends one
  LiveKeys,      \* API keys of live accounts
  TestKeys,      \* sandbox API keys
  Overlap        \* TRUE: recovery may run beside calls and other recoveries

ASSUME ThreadsAssumption == Withdrawals \intersect Recoveries = {}
ASSUME KeysAssumption == LiveKeys \intersect TestKeys = {}
ASSUME OverlapAssumption == Overlap \in BOOLEAN

ApiKeys == LiveKeys \union TestKeys
Threads == Withdrawals \union Recoveries
None == "none"

ASSUME NoneAssumption == None \notin Threads \union ApiKeys \union Coins

\* A record of the file.
NoRecord == [state |-> "none", coin |-> None]
Requested == [state |-> "requested", coin |-> None]
Signed(c) == [state |-> "signed", coin |-> c]
Tampered == [state |-> "tampered", coin |-> None]
Records == {NoRecord, Requested, Tampered} \union {Signed(c) : c \in Coins}

VARIABLES
  file,      \* the pending record of each withdrawal
  keyOf,     \* the key a withdrawal was requested under, kept in its record
  active,    \* the key the credential source answers now, or None
  booked,    \* the keys under which the server has created each withdrawal
  published, \* the transactions that reached the network
  seen,      \* the coins the wallet's last scan knows to be spent
  holder,    \* the thread inside opMutex, or None
  pc,        \* where each thread stands
  job,       \* the withdrawal it is driving
  under,     \* the API key pinned to its POST
  coin,      \* the coin of the transaction it has signed
  todo,      \* the records a recovery has read and not driven yet
  refused    \* withdrawals that ended in a refusal or a definitive rejection

vars == <<file, keyOf, active, booked, published, seen, holder, pc, job, under, coin, todo, refused>>
server == <<keyOf, active, booked>>
chain == <<published, seen>>

Busy == {"post", "process", "wait", "sign", "mark", "broadcast", "remove",
         "check", "discard", "drop", "rebroadcast", "clear"}
Places == {"idle", "next", "done"} \union Busy

TypeOK ==
  /\ file \in [Withdrawals -> Records]
  /\ keyOf \in [Withdrawals -> ApiKeys \union {None}]
  /\ active \in ApiKeys \union {None}
  /\ booked \in [Withdrawals -> SUBSET ApiKeys]
  /\ published \subseteq (Withdrawals \X Coins)
  /\ seen \subseteq Coins
  /\ holder \in Threads \union {None}
  /\ pc \in [Threads -> Places]
  /\ job \in [Threads -> Withdrawals \union {None}]
  /\ under \in [Threads -> ApiKeys \union {None}]
  /\ coin \in [Threads -> Coins \union {None}]
  /\ todo \in [Recoveries -> SUBSET (Withdrawals \X Records)]
  /\ refused \subseteq Withdrawals
  \* A call drives its own withdrawal.
  /\ \A w \in Withdrawals : job[w] = w
  \* A thread at work has a withdrawal, a key for its POST, and past signing a coin.
  /\ \A t \in Threads :
       /\ pc[t] \in Busy => job[t] \in Withdrawals
       /\ pc[t] \in {"post", "process"} => under[t] \in ApiKeys
       /\ pc[t] \in {"mark", "broadcast", "rebroadcast"} => coin[t] \in Coins
  \* opMutex is held exactly by the thread between its first and last step inside.
  /\ \A t \in Threads : pc[t] \in {"sign", "mark", "broadcast", "remove"} <=> holder = t

Init ==
  /\ file = [w \in Withdrawals |-> NoRecord]
  /\ keyOf = [w \in Withdrawals |-> None]
  /\ active \in ApiKeys
  /\ booked = [w \in Withdrawals |-> {}]
  /\ published = {}
  /\ seen = {}
  /\ holder = None
  /\ pc = [t \in Threads |-> "idle"]
  /\ job = [t \in Threads |-> IF t \in Withdrawals THEN t ELSE None]
  /\ under = [t \in Threads |-> None]
  /\ coin = [t \in Threads |-> None]
  /\ todo = [r \in Recoveries |-> {}]
  /\ refused = {}

Goto(t, place) == pc' = [pc EXCEPT ![t] = place]
\* The thread is done with its withdrawal: the call returns or throws, recovery
\* goes on to its next record.
Finish(t) == Goto(t, IF t \in Recoveries THEN "next" ELSE "done")
PutRecord(w, r) == file' = [file EXCEPT ![w] = r]

\* Writing the file fails and the caller swallows the error, or it succeeds.
RemoveRecord(w) == file' \in {[file EXCEPT ![w] = NoRecord], file}

Working(t) == pc[t] \in Busy \union {"next"}

-----------------------------------------------------------------------------
(* withdraw()                                                              *)

\* putRequested: the record is durable, with the key it will be posted under.
Request(w) ==
  /\ pc[w] = "idle"
  /\ active # None
  /\ ~Overlap => \A r \in Recoveries : ~Working(r)
  /\ PutRecord(w, Requested)
  /\ keyOf' = [keyOf EXCEPT ![w] = active]
  /\ under' = [under EXCEPT ![w] = active]
  /\ Goto(w, "post")
  /\ UNCHANGED <<active, booked, chain, holder, job, coin, todo, refused>>

\* The server books the request under the key pinned to it; a replay of the
\* same Idempotency-Key under the same key books nothing new.
Book(t) == booked' = [booked EXCEPT ![job[t]] = @ \union {under[t]}]

\* createWithdraw is answered.
PostAnswered(t) ==
  /\ pc[t] = "post"
  /\ Book(t)
  /\ Goto(t, "process")
  /\ UNCHANGED <<file, keyOf, active, chain, holder, job, under, coin, todo, refused>>

\* The last attempt gets no answer, a 5xx or a 409: the request may have been
\* booked, the record stays.
PostLost(t) ==
  /\ pc[t] = "post"
  /\ Book(t) \/ UNCHANGED booked
  /\ Finish(t)
  /\ UNCHANGED <<file, keyOf, active, chain, holder, job, under, coin, todo, refused>>

\* An attempt without an answer, a 5xx, a 409 or a 429, is made again under the
\* same Idempotency-Key and the same API key.
PostRetried(t) ==
  /\ pc[t] = "post"
  /\ Book(t) \/ UNCHANGED booked
  /\ UNCHANGED <<file, keyOf, active, chain, holder, pc, job, under, coin, todo, refused>>

\* A 4xx other than 409: withdraw() discards the record if it is unsigned,
\* recovery removes it.
GiveUp(t) ==
  /\ pc[t] = "post"
  /\ Goto(t, IF t \in Recoveries THEN "drop" ELSE "check")
  /\ UNCHANGED <<file, server, chain, holder, job, under, coin, todo, refused>>

\* The server has judged the request, and had not booked it before.
PostRejected(t) == GiveUp(t) /\ under[t] \notin booked[job[t]]

\* The server turns the call away unread: 429 for the last time, 401, 403.
PostTurnedAway(t) == GiveUp(t)

-----------------------------------------------------------------------------
(* processWithdrawResponse(), for a call and for recovery                  *)

\* A sandbox answer runs no on-chain leg: the record is removed.
Sandbox(t) ==
  /\ pc[t] = "process"
  /\ under[t] \in TestKeys
  /\ RemoveRecord(job[t])
  /\ Finish(t)
  /\ UNCHANGED <<server, chain, holder, job, under, coin, todo, refused>>

\* The answer passes the fee and address checks, or does not.
Validate(t) ==
  /\ pc[t] = "process"
  /\ under[t] \notin TestKeys
  /\ Goto(t, "wait") \/ Goto(t, "check")
  /\ UNCHANGED <<file, server, chain, holder, job, under, coin, todo, refused>>

\* opMutex is granted, and the guardrail lets the GROSS through.
Enter(t) ==
  /\ pc[t] = "wait"
  /\ holder = None
  /\ holder' = t
  /\ Goto(t, "sign")
  /\ UNCHANGED <<file, server, chain, job, under, coin, todo, refused>>

\* Anything before markSigned throws: guardrail, funds, PSET checks, recordSpend.
RefuseInside(t) ==
  /\ pc[t] \in {"sign", "mark"}
  /\ holder' = None
  /\ Goto(t, "check")
  /\ UNCHANGED <<file, server, chain, job, under, coin, todo, refused>>

\* The transaction is built from coins the wallet believes unspent, and signed.
Sign(t) ==
  /\ pc[t] = "sign"
  /\ \E c \in Coins \ seen : coin' = [coin EXCEPT ![t] = c]
  /\ Goto(t, "mark")
  /\ UNCHANGED <<file, server, chain, holder, job, under, todo, refused>>

\* Faulty variant: the signed bytes are not persisted before the broadcast.
MarkNothing(t) ==
  /\ pc[t] = "mark"
  /\ Goto(t, "broadcast")
  /\ UNCHANGED <<file, server, chain, holder, job, under, coin, todo, refused>>

\* markSigned: a record that is gone is left gone, one that does not decrypt throws.
MarkSigned(t) ==
  /\ pc[t] = "mark"
  /\ file[job[t]] # Tampered
  /\ IF file[job[t]] = NoRecord THEN UNCHANGED file ELSE PutRecord(job[t], Signed(coin[t]))
  /\ Goto(t, "broadcast")
  /\ UNCHANGED <<server, chain, holder, job, under, coin, todo, refused>>

\* The network takes a transaction whose coin no other transaction has spent.
Acceptable(w, c) == \A other \in Withdrawals \ {w} : <<other, c>> \notin published
Publish(w, c) == Acceptable(w, c) /\ published' = published \union {<<w, c>>}

\* broadcastRawTx succeeds, from a call or from recovery.
Broadcast(t) ==
  /\ \/ pc[t] = "broadcast" /\ Goto(t, "remove")
     \/ pc[t] = "rebroadcast" /\ Goto(t, "clear")
  /\ Publish(job[t], coin[t])
  /\ UNCHANGED <<file, server, seen, holder, job, under, coin, todo, refused>>

\* broadcastRawTx throws, although the transaction may have got through.
BroadcastFails(t) ==
  /\ \/ pc[t] = "broadcast" /\ Goto(t, "check") /\ holder' = None
     \/ pc[t] = "rebroadcast" /\ Goto(t, "next") /\ UNCHANGED holder
  /\ Publish(job[t], coin[t]) \/ UNCHANGED published
  /\ UNCHANGED <<file, server, seen, job, under, coin, todo, refused>>

\* The transaction is public: the record goes.
Remove(t) ==
  /\ pc[t] = "remove"
  /\ RemoveRecord(job[t])
  /\ holder' = None
  /\ Finish(t)
  /\ UNCHANGED <<server, chain, job, under, coin, todo, refused>>

\* discardIfUnsigned reads the record.
Check(t) ==
  /\ pc[t] = "check"
  /\ IF file[job[t]] = Requested THEN Goto(t, "discard") ELSE Finish(t)
  /\ UNCHANGED <<file, server, chain, holder, job, under, coin, todo, refused>>

\* Faulty variant: the refusal is reported, the record stays.
DiscardNothing(t) ==
  /\ pc[t] = "discard"
  /\ refused' = refused \union {job[t]}
  /\ Finish(t)
  /\ UNCHANGED <<file, server, chain, holder, job, under, coin, todo>>

\* ... and removes it.  A refusal that could not be written down is not one.
Discard(t) ==
  /\ pc[t] = "discard"
  /\ RemoveRecord(job[t])
  /\ refused' = IF file'[job[t]] = NoRecord THEN refused \union {job[t]} ELSE refused
  /\ Finish(t)
  /\ UNCHANGED <<server, chain, holder, job, under, coin, todo>>

-----------------------------------------------------------------------------
(* resumePendingWithdrawals()                                              *)

\* readAll, and the records that fail authentication are removed.
Recover(r) ==
  /\ pc[r] = "idle"
  /\ ~Overlap => \A t \in Threads : ~Working(t)
  /\ todo' = [todo EXCEPT ![r] =
       {<<w, file[w]>> : w \in {v \in Withdrawals : file[v].state \in {"requested", "signed"}}}]
  /\ file' = [w \in Withdrawals |-> IF file[w] = Tampered THEN NoRecord ELSE file[w]]
  /\ Goto(r, "next")
  /\ UNCHANGED <<server, chain, holder, job, under, coin, refused>>

\* A signed record: the same bytes again.
TakeSigned(r) ==
  /\ pc[r] = "next"
  /\ \E item \in todo[r] :
       /\ item[2].state = "signed"
       /\ todo' = [todo EXCEPT ![r] = @ \ {item}]
       /\ job' = [job EXCEPT ![r] = item[1]]
       /\ coin' = [coin EXCEPT ![r] = item[2].coin]
       /\ Goto(r, "rebroadcast")
  /\ UNCHANGED <<file, server, chain, holder, under, refused>>

\* Faulty variant: any key replays the request.
ReplaysUnderAnyKey(w) == active # None

\* There is a credential, and it is the one that made the request.
Replays(w) == active # None /\ active = keyOf[w]

\* A request: posted again under its own key, skipped under another one.
TakeRequested(r) ==
  /\ pc[r] = "next"
  /\ \E item \in todo[r] :
       /\ item[2].state = "requested"
       /\ todo' = [todo EXCEPT ![r] = @ \ {item}]
       /\ job' = [job EXCEPT ![r] = item[1]]
       /\ under' = [under EXCEPT ![r] = active]
       /\ Goto(r, IF Replays(item[1]) THEN "post" ELSE "next")
  /\ UNCHANGED <<file, server, chain, holder, coin, refused>>

\* The rejected request is removed, without another look.
Drop(r) ==
  /\ pc[r] = "drop"
  /\ RemoveRecord(job[r])
  /\ refused' = IF file'[job[r]] = NoRecord THEN refused \union {job[r]} ELSE refused
  /\ Goto(r, "next")
  /\ UNCHANGED <<server, chain, holder, job, under, coin, todo>>

\* The signed record that was broadcast again is removed.
Clear(r) ==
  /\ pc[r] = "clear"
  /\ RemoveRecord(job[r])
  /\ Goto(r, "next")
  /\ UNCHANGED <<server, chain, holder, job, under, coin, todo, refused>>

RecoverEnds(r) ==
  /\ pc[r] = "next"
  /\ todo[r] = {}
  /\ pc' = [pc EXCEPT ![r] = "idle"]
  /\ UNCHANGED <<file, server, chain, holder, job, under, coin, todo, refused>>

-----------------------------------------------------------------------------
(* What happens around them                                                *)

\* The wallet scans the chain.
Sync ==
  /\ seen' = {c \in Coins : \E w \in Withdrawals : <<w, c>> \in published}
  /\ UNCHANGED <<file, server, published, holder, pc, job, under, coin, todo, refused>>

\* The process dies and is started again; the scan starts from an old state.
Crash ==
  /\ pc' = [t \in Threads |-> IF t \in Withdrawals /\ pc[t] # "idle" THEN "done" ELSE "idle"]
  /\ holder' = None
  /\ seen' = {}
  /\ todo' = [r \in Recoveries |-> {}]
  /\ UNCHANGED <<file, server, published, job, under, coin, refused>>

\* The user switches accounts, or signs out.
SwitchKey ==
  /\ active' \in (ApiKeys \union {None}) \ {active}
  /\ UNCHANGED <<file, keyOf, booked, chain, holder, pc, job, under, coin, todo, refused>>

\* A record is edited from outside and fails authentication, or the file is lost.
FileChanges ==
  /\ \/ \E w \in Withdrawals : file[w] # NoRecord /\ PutRecord(w, Tampered)
     \/ file' = [w \in Withdrawals |-> NoRecord]
  /\ UNCHANGED <<server, chain, holder, pc, job, under, coin, todo, refused>>

Next ==
  \/ \E w \in Withdrawals : Request(w)
  \/ \E t \in Threads :
       \/ PostAnswered(t) \/ PostLost(t) \/ PostRetried(t)
       \/ PostRejected(t) \/ PostTurnedAway(t)
       \/ Sandbox(t) \/ Validate(t) \/ Enter(t) \/ RefuseInside(t)
       \/ Sign(t) \/ MarkSigned(t) \/ Broadcast(t) \/ BroadcastFails(t) \/ Remove(t)
       \/ Check(t) \/ Discard(t)
  \/ \E r \in Recoveries :
       \/ Recover(r) \/ TakeSigned(r) \/ TakeRequested(r)
       \/ Drop(r) \/ Clear(r) \/ RecoverEnds(r)
  \/ Sync \/ Crash \/ SwitchKey \/ FileChanges

Spec == Init /\ [][Next]_vars

-----------------------------------------------------------------------------
(* Properties                                                              *)

Paid(w) == \E c \in Coins : <<w, c>> \in published

\* "Resume of signed never re-signs": however often a withdrawal is cut short
\* and recovered, one transaction at most pays it.
NoDoublePay == \A w \in Withdrawals, c, d \in Coins : <<w, c>> \in published /\ <<w, d>> \in published => c = d

\* Only the key that made a request replays it: the server never books one
\* withdrawal under two accounts, nor a sandbox exercise under a live one.
BookedUnderItsKey == \A w \in Withdrawals : booked[w] \subseteq {keyOf[w]}

Ledger == INSTANCE PayoutLedger WITH
  status <- [w \in Withdrawals |->
    IF Paid(w) THEN "paid" ELSE IF w \in refused THEN "refused"
    ELSE IF keyOf[w] = None THEN "new" ELSE "open"]

\* A withdrawal is paid at most once, and one that was refused or definitively
\* rejected is never paid, by its own call or by a later recovery.
KeepsLedger == Ledger!Spec
=============================================================================
