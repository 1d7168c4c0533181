----------------------------- MODULE BoltzSwaps -----------------------------
(***************************************************************************)
(* The Boltz swaps of the wallet (convert/boltz/convert.ts, refund.ts,     *)
(* reverse.ts, stablecoin.ts, store.ts).                                   *)
(*                                                                         *)
(* A "submarine" swap pays an invoice and a "chain" swap buys a stablecoin *)
(* with L-BTC the wallet locks; a "reverse" swap receives L-BTC the        *)
(* provider locks once a payer has paid.  The keys that refund or claim a  *)
(* lockup are in the swap's record and nowhere else.  A swap is driven by  *)
(* the call that creates it, by the status feed of the provider, by the    *)
(* background work these start, and by recover(); they share the record,   *)
(* the table of status watches and the chain.  Each step is what runs      *)
(* between two awaits.                                                     *)
(***************************************************************************)
EXTENDS Naturals, FiniteSets

CONSTANTS
  Swaps,
  Recoveries,  \* callers of recover(), each again and again
  Tasks,       \* bound: background work under way at a time
  Overlapped,  \* the kinds recover() may meet while their lockup is being funded
  MaxFaults    \* bound: crashes, failed writes, unanswered or misreported calls

Kinds == {"submarine", "chain", "reverse"}

ASSUME WorkersAssumption == Recoveries \intersect Tasks = {}
ASSUME BoundsAssumption == Overlapped \subseteq Kinds /\ MaxFaults \in Nat

Workers == Recoveries \union Tasks

VARIABLES
  kind,     \* the kind of each swap
  terms,    \* what the provider's answer to its creation is worth
  record,   \* its record in boltz-swaps.json
  pc,       \* where the call that creates it stands
  status,   \* what the provider reports of it
  lockup,   \* its L-BTC on the chain, or who has spent it
  expired,  \* the swaps whose refund timeout the chain has passed
  revealed, \* reverse: the preimages that have left the wallet
  unsaved,  \* reverse: history, swaps whose first write failed
  watch,    \* the status watch of each swap (watchesBySwap)
  work,     \* what each worker does
  todo,     \* the records a recovery has read and not come to yet
  faults

vars == <<kind, terms, record, pc, status, lockup, expired, revealed, unsaved, watch, work, todo, faults>>
given == <<kind, terms>>
provider == <<status, expired>>
outside == <<status, lockup, expired, revealed>>

\* state and outcome as stored; a reverse record stays "awaiting_payment".
RecordStates == {"prepared", "locked_up", "refund_pending", "awaiting_payment"}
NoRecord == [made |-> FALSE, state |-> "prepared", refund |-> FALSE]
NewRecord(s) ==
  [made |-> TRUE, state |-> IF kind[s] = "reverse" THEN "awaiting_payment" ELSE "prepared",
   refund |-> FALSE]

\* The terms a swap is offered.  "foreign": its lockup, or the invoice of a receive,
\* is not bound to the wallet's keys; "dear": it asks for more than agreed; "late":
\* its refund timeout is beyond reach; "dust": it cannot cover the fees of its route;
\* "burn": it delivers to an address nobody can spend from.
Offers(k) ==
  CASE k = "reverse" -> {"sound", "foreign"}
    [] k = "submarine" -> {"sound", "foreign", "dear", "late"}
    [] k = "chain" -> {"sound", "foreign", "dear", "late", "dust", "burn"}

\* "busy": the watch has started a refund or a claim (refunding, claiming).
WatchStates == {"none", "live", "busy"}

RefundPlaces == {"read", "probe", "coop", "height", "defer", "remove"}
ExecutePlaces == {"load", "wait", "inert", "run", "mark", "drop"}
ClaimPlaces == {"fetch", "cosign", "send"}
Places == {"free", "next"} \union RefundPlaces \union ExecutePlaces \union ClaimPlaces

NoSwap == "none"
Free == [at |-> "free", swap |-> NoSwap]
Job(place, s) == [at |-> place, swap |-> s]

TypeOK ==
  /\ kind \in [Swaps -> Kinds]
  /\ \A s \in Swaps : terms[s] \in Offers(kind[s])
  /\ record \in [Swaps -> [made : BOOLEAN, state : RecordStates, refund : BOOLEAN]]
  /\ pc \in [Swaps -> {"idle", "fund", "note", "done"}]
  /\ status \in [Swaps -> {"open", "server", "paid", "failed", "returned"}]
  /\ lockup \in [Swaps -> {"none", "published", "provider", "wallet"}]
  /\ expired \subseteq Swaps /\ revealed \subseteq Swaps /\ unsaved \subseteq Swaps
  /\ watch \in [Swaps -> WatchStates]
  /\ work \in [Workers -> [at : Places, swap : Swaps \union {NoSwap}]]
  /\ \A w \in Workers : work[w].at \in ExecutePlaces \union ClaimPlaces => w \in Tasks
  /\ \A w \in Workers : work[w].at \in Places \ {"free", "next"} => work[w].swap \in Swaps
  /\ faults \in 0..MaxFaults

Init ==
  /\ kind \in [Swaps -> Kinds]
  /\ terms \in {t \in [Swaps -> UNION {Offers(k) : k \in Kinds}] : \A s \in Swaps : t[s] \in Offers(kind[s])}
  /\ record = [s \in Swaps |-> NoRecord]
  /\ pc = [s \in Swaps |-> "idle"]
  /\ status = [s \in Swaps |-> "open"]
  /\ lockup = [s \in Swaps |-> "none"]
  /\ expired = {} /\ revealed = {} /\ unsaved = {}
  /\ watch = [s \in Swaps |-> "none"]
  /\ work = [w \in Workers |-> Free]
  /\ todo = [r \in Recoveries |-> {}]
  /\ faults = 0

Fault == faults < MaxFaults /\ faults' = faults + 1
NoFault == UNCHANGED faults

Goto(s, place) == pc' = [pc EXCEPT ![s] = place]
Watch(s, state) == watch' = [watch EXCEPT ![s] = state]
At(w, place) == work[w].at = place
Move(w, place) == work' = [work EXCEPT ![w].at = place]

\* A worker is done with its swap: a recovery goes on with the next record.
Done(w) == work' = [work EXCEPT ![w] = IF w \in Recoveries THEN [Free EXCEPT !.at = "next"] ELSE Free]

\* Background work starts in a free slot.
Spawn(place, s) ==
  \E t \in Tasks : At(t, "free") /\ work' = [work EXCEPT ![t] = Job(place, s)]

-----------------------------------------------------------------------------
(* store.ts: read-modify-write of one record under the store mutex         *)

Put(s) == record' = [record EXCEPT ![s] = NewRecord(s)]
RemoveRecord(s) == record' = [record EXCEPT ![s] = NoRecord]
\* patch: a record that is gone stays gone.
Patch(s, rec) == record' = IF record[s].made THEN [record EXCEPT ![s] = rec] ELSE record

\* A removal whose failure is swallowed.
TryRemove(s) == \/ RemoveRecord(s) /\ NoFault
                \/ UNCHANGED record /\ Fault

TryPatch(s, rec) == \/ Patch(s, rec) /\ NoFault
                    \/ UNCHANGED record /\ Fault

-----------------------------------------------------------------------------
(* payLightningInvoice() and toStablecoin()                                *)

\* assertLockupAddressBindsToUser: the lockup is derived once more from the wallet's
\* own key and hash.
BindsToUser(s) == terms[s] # "foreign"

\* assertLockupNotInflated
NotInflated(s) == terms[s] # "dear"

\* assertTimeoutInBounds, skipped when the height of the chain could not be read.
InBounds(s, known) == known => terms[s] # "late"

\* checkStablecoinAmount, and the guards on the destination.
Settles(s) == terms[s] # "dust"
Deliverable(s) == terms[s] # "burn"

PreparesSubmarine(s, known) == NotInflated(s) /\ InBounds(s, known) /\ BindsToUser(s)
PreparesStablecoin(s, known) ==
  Deliverable(s) /\ Settles(s) /\ NotInflated(s) /\ InBounds(s, known) /\ BindsToUser(s)

Prepares(s, known) ==
  IF kind[s] = "submarine" THEN PreparesSubmarine(s, known) ELSE PreparesStablecoin(s, known)

\* The provider has created the swap and its answer passes every guard: the refund
\* material is stored before anything is funded.
Create(s) ==
  /\ pc[s] = "idle" /\ kind[s] # "reverse"
  /\ \/ \E known \in BOOLEAN :
          /\ Prepares(s, known)
          /\ Put(s) /\ Goto(s, "fund")
          /\ IF known THEN NoFault ELSE Fault
     \/ UNCHANGED record /\ Goto(s, "done") /\ Fault
  /\ UNCHANGED <<given, outside, unsaved, watch, work, todo>>

\* Its answer is refused, and nothing is stored.
Refuse(s) ==
  /\ pc[s] = "idle"
  /\ IF kind[s] = "reverse" THEN ~BindsToUser(s) ELSE ~Prepares(s, TRUE)
  /\ Goto(s, "done")
  /\ UNCHANGED <<given, record, outside, unsaved, watch, work, todo, faults>>

\* lockupLbtc() passes the guardrails, signs and broadcasts.
Fund(s) ==
  /\ pc[s] = "fund"
  /\ lockup' = [lockup EXCEPT ![s] = "published"]
  /\ Goto(s, "note")
  /\ UNCHANGED <<given, record, provider, revealed, unsaved, watch, work, todo, faults>>

\* It fails before the broadcast (nothingLocked): the record is rolled back.
FundRefused(s) ==
  /\ pc[s] = "fund"
  /\ TryRemove(s)
  /\ Goto(s, "done")
  /\ UNCHANGED <<given, outside, unsaved, watch, work, todo>>

\* Faulty variant: any failed lockup rolls the record back.
FundUnknownDrops(s) ==
  /\ pc[s] = "fund"
  /\ Fault
  /\ \E result \in {"none", "published"} : lockup' = [lockup EXCEPT ![s] = result]
  /\ RemoveRecord(s)
  /\ Goto(s, "done")
  /\ UNCHANGED <<given, provider, revealed, unsaved, watch, work, todo>>

\* The broadcast reports a failure and may have got through: the record stays.
FundUnknown(s) ==
  /\ pc[s] = "fund"
  /\ Fault
  /\ \E result \in {"none", "published"} : lockup' = [lockup EXCEPT ![s] = result]
  /\ Goto(s, "done")
  /\ UNCHANGED <<given, record, provider, revealed, unsaved, watch, work, todo>>

\* trackedSubscribe: a swap that has a watch keeps it, the second is inert.
Attach(s) == IF watch[s] = "none" THEN Watch(s, "live") ELSE UNCHANGED watch

\* The lockup is recorded; then the swap is watched or executed.  A failed write
\* throws, and neither happens.
Note(s) ==
  /\ pc[s] = "note"
  /\ Goto(s, "done")
  /\ \/ /\ NoFault
        /\ Patch(s, [record[s] EXCEPT !.state = "locked_up"])
        /\ \/ kind[s] = "submarine" /\ Attach(s) /\ UNCHANGED work
           \/ kind[s] = "chain" /\ Spawn("load", s) /\ UNCHANGED watch
     \/ Fault /\ UNCHANGED <<record, watch, work>>
  /\ UNCHANGED <<given, outside, unsaved, todo>>

-----------------------------------------------------------------------------
(* receiveLightning(): the claim material is stored, best effort, before    *)
(* the invoice is shown; then the swap is watched.                         *)

PersistClaimKey(s) ==
  \/ Put(s) /\ UNCHANGED unsaved /\ NoFault
  \/ UNCHANGED record /\ unsaved' = unsaved \union {s} /\ Fault

\* The invoice pays to the wallet's preimage.
Receive(s) ==
  /\ pc[s] = "idle" /\ kind[s] = "reverse" /\ BindsToUser(s)
  /\ PersistClaimKey(s)
  /\ Attach(s)
  /\ Goto(s, "done")
  /\ UNCHANGED <<given, outside, work, todo>>

-----------------------------------------------------------------------------
(* The status watch: watchSubmarine() and watchReverseSwap().  Statuses are *)
(* repeated on every reconnect.                                            *)

\* subscribeSwap reconnects, asks for the status anew each time, and so hears in the
\* end whatever the socket missed.
Hears(s, statuses) == watch[s] # "none" /\ status[s] \in statuses

SubmarineOver(s) == kind[s] = "submarine" /\ Hears(s, {"paid", "returned"})
ReverseOver(s) == kind[s] = "reverse" /\ Hears(s, {"paid", "failed"})

\* The swap is over: the record is removed, in the background, and the watch ends.
WatchEnds(s) ==
  /\ SubmarineOver(s) \/ ReverseOver(s)
  /\ TryRemove(s)
  /\ Watch(s, "none")
  /\ UNCHANGED <<given, pc, outside, unsaved, work, todo>>

\* A refund, or the claim of a lockup the provider has made, starts.
WatchActs(s) ==
  /\ watch[s] = "live"
  /\ \/ kind[s] = "submarine" /\ Hears(s, {"failed"}) /\ Spawn("read", s)
     \/ kind[s] = "reverse" /\ Hears(s, {"server"}) /\ Spawn("fetch", s)
  /\ Watch(s, "busy")
  /\ UNCHANGED <<given, record, pc, outside, unsaved, todo, faults>>

\* A refund that ends without an error ends its watch; one that throws leaves it
\* to start another.
EndWatch(w, s) ==
  IF w \in Tasks /\ kind[s] = "submarine" THEN Watch(s, "none") ELSE UNCHANGED watch
Rearm(w, s) ==
  IF w \in Tasks /\ kind[s] = "submarine" /\ watch[s] = "busy" THEN Watch(s, "live") ELSE UNCHANGED watch

-----------------------------------------------------------------------------
(* refundOne(), refundStablecoin() and runRefund()                         *)

\* refundOne looks at the record again.
RefundReads(w) ==
  LET s == work[w].swap IN
  /\ At(w, "read")
  /\ IF record[s].made THEN Move(w, "coop") /\ UNCHANGED watch
     ELSE Done(w) /\ EndWatch(w, s)
  /\ UNCHANGED <<given, record, pc, outside, unsaved, todo, faults>>

\* chainSwapNeverLocked, when the provider answers.
NeverLocked(s) == lockup[s] = "none"

\* A chain swap nobody has funded is dropped; a provider
\* that does not answer leaves it to the refund.
RefundProbes(w) ==
  LET s == work[w].swap IN
  /\ At(w, "probe")
  /\ \/ NeverLocked(s) /\ TryRemove(s) /\ Done(w)
     \/ ~NeverLocked(s) /\ Move(w, "coop") /\ UNCHANGED record /\ NoFault
     \/ Move(w, "coop") /\ UNCHANGED record /\ Fault
  /\ UNCHANGED <<given, pc, outside, unsaved, watch, todo>>

\* refundSubmarineSwap and refundChainSwap fetch the lockup transaction.
LockupFound(s) == lockup[s] # "none"

\* Without it there is nothing to refund.
RefundFindsNothing(w) ==
  LET s == work[w].swap IN
  /\ At(w, "coop")
  /\ ~LockupFound(s)
  /\ Done(w) /\ Rearm(w, s)
  /\ UNCHANGED <<given, record, pc, outside, unsaved, todo, faults>>

\* The wallet's transaction spends a lockup bound to its key.
Sweep(s) == lockup[s] = "published" /\ terms[s] # "foreign" /\ lockup' = [lockup EXCEPT ![s] = "wallet"]

\* The provider cosigns once it has given the swap up, and the refund is out.
RefundCooperates(w) ==
  /\ At(w, "coop")
  /\ status[work[w].swap] = "failed"
  /\ Sweep(work[w].swap)
  /\ Move(w, "remove")
  /\ UNCHANGED <<given, record, pc, provider, revealed, unsaved, watch, todo, faults>>

\* It does not, or the broadcast reports a failure that may be none.
RefundFallsBack(w) ==
  /\ At(w, "coop")
  /\ LockupFound(work[w].swap)
  /\ Move(w, "height")
  /\ \/ UNCHANGED lockup /\ NoFault
     \/ status[work[w].swap] = "failed" /\ Sweep(work[w].swap) /\ Fault
  /\ UNCHANGED <<given, record, pc, provider, revealed, unsaved, watch, todo>>

\* The timeout has not been reached, or the height is not known.
RefundWaits(w) ==
  LET s == work[w].swap IN
  /\ At(w, "height")
  /\ \/ s \notin expired /\ NoFault
     \/ s \in expired /\ Fault
  /\ Move(w, "defer")
  /\ UNCHANGED <<given, record, pc, outside, unsaved, watch, todo>>

\* The script-path refund, valid once the timeout has passed.
RefundByTimeout(w) ==
  LET s == work[w].swap IN
  /\ At(w, "height")
  /\ s \in expired
  /\ Sweep(s)
  /\ Move(w, "remove")
  /\ UNCHANGED <<given, record, pc, provider, revealed, unsaved, watch, todo, faults>>

\* It is rejected, or its broadcast reports a failure that may be none.
RefundThrows(w) ==
  LET s == work[w].swap IN
  /\ At(w, "height")
  /\ s \in expired
  /\ \/ lockup[s] # "published" /\ UNCHANGED lockup /\ NoFault
     \/ UNCHANGED lockup /\ Fault
     \/ Sweep(s) /\ Fault
  /\ Done(w) /\ Rearm(w, s)
  /\ UNCHANGED <<given, record, pc, provider, revealed, unsaved, todo>>

\* RefundPendingError: the record says that a refund is due.
RefundDefers(w) ==
  LET s == work[w].swap IN
  /\ At(w, "defer")
  /\ TryPatch(s, [record[s] EXCEPT !.state = "refund_pending", !.refund = kind[s] = "chain"])
  /\ Done(w) /\ EndWatch(w, s)
  /\ UNCHANGED <<given, pc, outside, unsaved, todo>>

RefundRemoves(w) ==
  LET s == work[w].swap IN
  /\ At(w, "remove")
  /\ TryRemove(s)
  /\ Done(w) /\ EndWatch(w, s)
  /\ UNCHANGED <<given, pc, outside, unsaved, todo>>

-----------------------------------------------------------------------------
(* executeStablecoin(), in the background                                  *)

\* It reads the record and subscribes; beside another watch it hears nothing.
ExecuteLoads(w) ==
  LET s == work[w].swap IN
  /\ At(w, "load")
  /\ IF ~record[s].made THEN Done(w) /\ UNCHANGED watch
     ELSE /\ Move(w, IF watch[s] = "none" THEN "wait" ELSE "inert")
          /\ Attach(s)
  /\ UNCHANGED <<given, record, pc, outside, unsaved, todo, faults>>

\* The provider has locked its side, or the swap has failed.
ExecuteHears(w) ==
  LET s == work[w].swap IN
  /\ At(w, "wait")
  /\ \/ status[s] = "server" /\ Move(w, "run")
     \/ status[s] = "failed" /\ Done(w)
  /\ Watch(s, "none")
  /\ UNCHANGED <<given, record, pc, outside, unsaved, todo, faults>>

\* Twenty minutes without either.
ExecuteTimesOut(w) ==
  LET s == work[w].swap IN
  /\ At(w, "inert") \/ (At(w, "wait") /\ status[s] \notin {"server", "failed"})
  /\ IF At(w, "wait") THEN Watch(s, "none") ELSE UNCHANGED watch
  /\ Done(w)
  /\ UNCHANGED <<given, record, pc, outside, unsaved, todo, faults>>

\* executeRoute claims the provider's side, which lets it take the L-BTC.  The
\* answer may be lost.
Execute(w) ==
  LET s == work[w].swap IN
  /\ At(w, "run")
  /\ status[s] = "server" /\ lockup[s] = "published" /\ terms[s] # "dust"
  /\ status' = [status EXCEPT ![s] = "paid"]
  /\ lockup' = [lockup EXCEPT ![s] = "provider"]
  /\ \/ Move(w, "drop") /\ NoFault
     \/ Done(w) /\ Fault
  /\ UNCHANGED <<given, record, pc, expired, revealed, unsaved, watch, todo>>

\* It fails: for this time, or for good (isPermanentRouteError).
ExecuteFails(w) ==
  /\ At(w, "run")
  /\ Done(w) \/ Move(w, "mark")
  /\ UNCHANGED <<given, record, pc, outside, unsaved, watch, todo, faults>>

ExecuteMarks(w) ==
  LET s == work[w].swap IN
  /\ At(w, "mark")
  /\ TryPatch(s, [record[s] EXCEPT !.refund = TRUE])
  /\ Done(w)
  /\ UNCHANGED <<given, pc, outside, unsaved, watch, todo>>

ExecuteRemoves(w) ==
  /\ At(w, "drop")
  /\ TryRemove(work[w].swap)
  /\ Done(w)
  /\ UNCHANGED <<given, pc, outside, unsaved, watch, todo>>

-----------------------------------------------------------------------------
(* doClaim(), in the background                                            *)

\* A claim that throws ends its watch.
ClaimEnds(w) == Done(w) /\ Watch(work[w].swap, "none")

\* The lockup transaction is fetched.
ClaimFetches(w) ==
  /\ At(w, "fetch")
  /\ \/ Move(w, "cosign") /\ UNCHANGED watch /\ NoFault
     \/ ClaimEnds(w) /\ Fault
  /\ UNCHANGED <<given, record, pc, outside, unsaved, todo>>

\* The provider is asked to cosign and gets the preimage with the request; if it
\* cannot be reached the script path needs no cosigner.
ClaimCosigns(w) ==
  LET s == work[w].swap IN
  /\ At(w, "cosign")
  /\ \/ revealed' = revealed \union {s} /\ NoFault
     \/ UNCHANGED revealed /\ Fault
  /\ Move(w, "send")
  /\ UNCHANGED <<given, record, pc, provider, lockup, unsaved, watch, todo>>

\* The claim is broadcast; the watch stays until the provider reports the end.  The
\* watch of receiveLightning() writes the record anew, one of recover() patches it.
ClaimLands(w) ==
  LET s == work[w].swap IN
  /\ At(w, "send")
  /\ Sweep(s)
  /\ revealed' = revealed \union {s}
  /\ Put(s) \/ UNCHANGED record
  /\ Done(w)
  /\ UNCHANGED <<given, pc, provider, unsaved, watch, todo, faults>>

ClaimThrows(w) ==
  LET s == work[w].swap IN
  /\ At(w, "send")
  /\ \/ lockup[s] # "published" /\ UNCHANGED <<lockup, revealed>> /\ NoFault
     \/ UNCHANGED <<lockup, revealed>> /\ Fault
     \/ Sweep(s) /\ revealed' = revealed \union {s} /\ Fault
  /\ ClaimEnds(w)
  /\ UNCHANGED <<given, record, pc, provider, unsaved, todo>>

-----------------------------------------------------------------------------
(* resume(), called by recover() and when the wallet opens                 *)

\* readAll()
Stored == {<<s, record[s]>> : s \in {q \in Swaps : record[q].made}}

Recover(r) ==
  /\ At(r, "free")
  /\ Stored # {}
  /\ todo' = [todo EXCEPT ![r] = Stored]
  /\ Move(r, "next")
  /\ UNCHANGED <<given, record, pc, outside, unsaved, watch, faults>>

\* A swap the provider calls finished: its record goes.
Over(s) == kind[s] # "reverse" /\ status[s] \in {"paid", "returned"}

\* A refund, which the recovery waits for.
Refunds(r, s) ==
  /\ work' = [work EXCEPT ![r] = Job(IF kind[s] = "chain" THEN "probe" ELSE "read", s)]
  /\ UNCHANGED watch

\* Faulty variant: a chain swap is executed before its refund is considered.
ExecutesFirst(r, s, rec, answer) ==
  IF kind[s] = "chain" THEN Spawn("load", s) /\ UNCHANGED watch
  ELSE IF kind[s] # "reverse" /\ (answer = "failed" \/ rec.state = "refund_pending")
    THEN Refunds(r, s)
    ELSE Attach(s) /\ UNCHANGED work

\* resumeSubmarine, resumeStablecoin and resumeReverse: what the provider answers
\* decides, then what the record was when it was read.
GoesOn(r, s, rec, answer) ==
  IF kind[s] # "reverse" /\ (answer = "failed" \/ rec.state = "refund_pending" \/ rec.refund)
    THEN Refunds(r, s)
    ELSE IF kind[s] = "chain" THEN Spawn("load", s) /\ UNCHANGED watch
    ELSE Attach(s) /\ UNCHANGED work

\* The next record of the list.  Without an answer to getSwapStatus the record
\* decides alone.
Take(r) ==
  /\ At(r, "next")
  /\ \E item \in todo[r] :
       LET s == item[1] IN
       /\ kind[s] \in Overlapped \/ pc[s] = "done"
       /\ \/ Over(s) /\ TryRemove(s) /\ UNCHANGED <<work, watch>>
          \/ ~Over(s) /\ GoesOn(r, s, item[2], status[s]) /\ UNCHANGED record /\ NoFault
          \/ kind[s] # "reverse" /\ GoesOn(r, s, item[2], "unknown") /\ UNCHANGED record /\ Fault
       /\ todo' = [todo EXCEPT ![r] = @ \ {item}]
  /\ UNCHANGED <<given, pc, outside, unsaved>>

RecoverEnds(r) ==
  /\ At(r, "next") /\ todo[r] = {}
  /\ Move(r, "free")
  /\ UNCHANGED <<given, record, pc, outside, unsaved, watch, todo, faults>>

-----------------------------------------------------------------------------
(* The provider, the payer, the chain, the process                         *)

\* The provider pays the invoice and takes the lockup.
ProviderPays(s) ==
  /\ kind[s] = "submarine" /\ status[s] = "open" /\ lockup[s] = "published"
  /\ status' = [status EXCEPT ![s] = "paid"]
  /\ lockup' = [lockup EXCEPT ![s] = "provider"]
  /\ UNCHANGED <<given, record, pc, expired, revealed, unsaved, watch, work, todo, faults>>

\* It locks its side of a chain swap, or the L-BTC a payer has paid for: an invoice
\* that was refused is shown to nobody.
ProviderLocks(s) ==
  /\ status[s] = "open"
  /\ \/ kind[s] = "chain" /\ lockup[s] = "published" /\ UNCHANGED lockup
     \/ /\ kind[s] = "reverse" /\ pc[s] = "done" /\ BindsToUser(s)
        /\ lockup' = [lockup EXCEPT ![s] = "published"]
  /\ status' = [status EXCEPT ![s] = "server"]
  /\ UNCHANGED <<given, record, pc, expired, revealed, unsaved, watch, work, todo, faults>>

\* With the preimage it settles the payer's invoice.
ProviderSettles(s) ==
  /\ s \in revealed /\ status[s] = "server"
  /\ status' = [status EXCEPT ![s] = "paid"]
  /\ UNCHANGED <<given, record, pc, lockup, expired, revealed, unsaved, watch, work, todo, faults>>

\* It gives the swap up.
ProviderFails(s) ==
  /\ pc[s] # "idle"
  /\ status[s] \in {"open", "server"} /\ s \notin revealed
  /\ status' = [status EXCEPT ![s] = "failed"]
  /\ UNCHANGED <<given, record, pc, lockup, expired, revealed, unsaved, watch, work, todo, faults>>

\* It sees the refund of a submarine swap.
ProviderSeesRefund(s) ==
  /\ kind[s] = "submarine" /\ status[s] = "failed" /\ lockup[s] = "wallet"
  /\ status' = [status EXCEPT ![s] = "returned"]
  /\ UNCHANGED <<given, record, pc, lockup, expired, revealed, unsaved, watch, work, todo, faults>>

\* It takes back what nobody has claimed.
ProviderReclaims(s) ==
  /\ kind[s] = "reverse" /\ lockup[s] = "published"
  /\ s \in expired
  /\ lockup' = [lockup EXCEPT ![s] = "provider"]
  /\ UNCHANGED <<given, record, pc, status, expired, revealed, unsaved, watch, work, todo, faults>>

TimeoutPasses(s) ==
  /\ pc[s] # "idle" /\ s \notin expired /\ terms[s] # "late"
  /\ expired' = expired \union {s}
  /\ UNCHANGED <<given, record, pc, status, lockup, revealed, unsaved, watch, work, todo, faults>>

\* The process dies and is started again.
Crash ==
  /\ Fault
  /\ pc' = [s \in Swaps |-> IF pc[s] = "idle" THEN "idle" ELSE "done"]
  /\ watch' = [s \in Swaps |-> "none"]
  /\ work' = [w \in Workers |-> Free]
  /\ todo' = [r \in Recoveries |-> {}]
  /\ UNCHANGED <<given, record, outside, unsaved>>

\* dispose(), and the wallet is opened again in the same process, with no call of its
\* own under way: the watches end and the background work goes on, an execution to
\* wait for a status it no longer hears.
Dispose ==
  /\ Fault
  /\ \A s \in Swaps : pc[s] \in {"idle", "done"}
  /\ \A r \in Recoveries : At(r, "free")
  /\ watch' = [s \in Swaps |-> "none"]
  /\ work' = [w \in Workers |->
       IF work[w].at \in {"load", "wait"} THEN [work[w] EXCEPT !.at = "inert"] ELSE work[w]]
  /\ UNCHANGED <<given, record, pc, outside, unsaved, todo>>

Start(s) == Create(s) \/ Refuse(s) \/ Receive(s)
Funding(s) == Fund(s) \/ FundRefused(s) \/ FundUnknown(s) \/ Note(s)
Watching(s) == WatchEnds(s) \/ WatchActs(s)

Refund(w) ==
  \/ RefundReads(w) \/ RefundProbes(w) \/ RefundFindsNothing(w) \/ RefundCooperates(w)
  \/ RefundFallsBack(w) \/ RefundWaits(w) \/ RefundByTimeout(w) \/ RefundThrows(w)
  \/ RefundDefers(w) \/ RefundRemoves(w)
ExecuteSteps(w) ==
  \/ ExecuteLoads(w) \/ ExecuteHears(w) \/ ExecuteTimesOut(w) \/ Execute(w)
  \/ ExecuteFails(w) \/ ExecuteMarks(w) \/ ExecuteRemoves(w)
ClaimSteps(w) == ClaimFetches(w) \/ ClaimCosigns(w) \/ ClaimLands(w) \/ ClaimThrows(w)
Pass(r) == Recover(r) \/ Take(r) \/ RecoverEnds(r)

Provider(s) ==
  \/ ProviderPays(s) \/ ProviderLocks(s) \/ ProviderSettles(s) \/ ProviderFails(s)
  \/ ProviderSeesRefund(s) \/ ProviderReclaims(s) \/ TimeoutPasses(s)

Next ==
  \/ \E s \in Swaps : Start(s) \/ Funding(s) \/ Watching(s) \/ Provider(s)
  \/ \E w \in Workers : Refund(w) \/ ExecuteSteps(w) \/ ClaimSteps(w)
  \/ \E r \in Recoveries : Pass(r)
  \/ Crash \/ Dispose

\* The event loop runs what is ready, recover() is called again, the provider
\* ends every swap, the chain grows, and a sound refund is broadcast in the end.
Fairness ==
  /\ \A s \in Swaps :
       /\ WF_vars(Funding(s)) /\ WF_vars(Watching(s))
       /\ WF_vars(ProviderFails(s)) /\ WF_vars(TimeoutPasses(s))
  /\ \A w \in Workers :
       /\ WF_vars(Refund(w)) /\ WF_vars(ExecuteSteps(w)) /\ WF_vars(ClaimSteps(w))
       /\ SF_vars(RefundByTimeout(w))
  /\ \A r \in Recoveries : WF_vars(Pass(r))

Spec == Init /\ [][Next]_vars
FairSpec == Spec /\ Fairness

-----------------------------------------------------------------------------
(* Properties                                                              *)

\* "This record is the SOLE holder of refundPrivateKeyHex": whatever fails,
\* crashes or overlaps, while a lockup can still be spent by the wallet its record
\* is on disk, and none is funded on terms a guard refuses.  A receive loses its
\* record when its first write failed, which the code accepts, and when the provider
\* has given it up.
KeyOutlivesLockup ==
  \A s \in Swaps :
    lockup[s] = "published" /\ status[s] # "paid" =>
      /\ terms[s] \in {"sound", "late"}
      /\ record[s].made \/ s \in unsaved \/ (kind[s] = "reverse" /\ status[s] = "failed")

\* L-BTC the wallet has locked is delivered or comes back, whatever the provider
\* does with the swap, as long as it still answers, and as long as the bound on the
\* refund timeout was checked: it is not when the chain height cannot be read.
NoLockupIsStranded ==
  \A s \in Swaps :
    kind[s] # "reverse" /\ terms[s] # "late" /\ lockup[s] = "published" ~> lockup[s] # "published"
=============================================================================
