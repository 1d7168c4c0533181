-------------------------- MODULE BoltzSwapsProofs --------------------------
(***************************************************************************)
(* Proofs about BoltzSwaps, for any number of swaps, recoveries and        *)
(* background work, and any number of faults: the key of a lockup stays on *)
(* disk as long as the wallet can spend it, if recover() does not run      *)
(* beside the funding of a chain swap.                                     *)
(*                                                                         *)
(* A record is removed in six places.  What makes each safe is spread over *)
(* the call that funds, the provider's status and the work under way:      *)
(* SwapInv and JobInv say it.                                              *)
(***************************************************************************)
EXTENDS BoltzSwaps, TLAPS

RecordSet == [made : BOOLEAN, state : RecordStates, refund : BOOLEAN]
TodoOK == todo \in [Recoveries -> SUBSET (Swaps \X RecordSet)]

\* Nothing is locked before it is funded, what is about to be funded is on disk and
\* on terms every guard has passed, and a receive that may still be paid is on disk
\* unless its first write failed.
SwapOK(s) ==
  /\ pc[s] = "idle" => lockup[s] = "none" /\ status[s] = "open"
  /\ pc[s] \in {"fund", "note"} => kind[s] # "reverse"
  /\ pc[s] = "fund" =>
       /\ record[s].made /\ terms[s] \in {"sound", "late"}
       /\ lockup[s] = "none" /\ status[s] \in {"open", "failed"}
  /\ status[s] = "returned" => lockup[s] = "wallet"
  /\ kind[s] = "reverse" /\ status[s] = "open" => lockup[s] = "none"
  /\ kind[s] = "reverse" /\ pc[s] = "done" /\ BindsToUser(s) /\ status[s] \notin {"failed", "paid"}
       => record[s].made \/ s \in unsaved
SwapInv == (\A s \in Swaps : SwapOK(s)) /\ KeyOutlivesLockup

\* What a worker is about to do to a record is safe.
JobOK(j) ==
  /\ j.at \in RefundPlaces => kind[j.swap] # "reverse"
  /\ j.at = "probe" => kind[j.swap] = "chain" /\ pc[j.swap] = "done"
  /\ j.at = "remove" => lockup[j.swap] = "wallet"
  /\ j.at = "drop" => status[j.swap] = "paid"
JobInv == \A w \in Workers : JobOK(work[w])

IInv == TypeOK /\ TodoOK /\ SwapInv /\ JobInv

----------------------------------------------------------------------------
\* What a step may do to the swaps.

LEMMA SwapKept ==
  ASSUME SwapInv, UNCHANGED <<kind, terms, pc, status, lockup>>, unsaved \subseteq unsaved',
         \A s \in Swaps : record[s].made => record'[s].made
  PROVE  SwapInv'
BY DEF SwapInv, SwapOK, KeyOutlivesLockup, BindsToUser

LEMMA SwapDone ==
  ASSUME SwapInv, pc \in [Swaps -> {"idle", "fund", "note", "done"}],
         NEW s \in Swaps, pc[s] = "note", Goto(s, "done"),
         UNCHANGED <<kind, terms, status, lockup, unsaved>>,
         \A q \in Swaps : record[q].made => record'[q].made
  PROVE  SwapInv'
BY DEF SwapInv, SwapOK, KeyOutlivesLockup, BindsToUser, Goto

\* A record may be removed when its swap is paid for or refunded, when a receive has
\* failed, or when nothing was locked and nothing will be.
Removable(s) ==
  \/ status[s] = "paid"
  \/ kind[s] # "reverse" /\ lockup[s] = "wallet"
  \/ kind[s] = "reverse" /\ status[s] = "failed"
  \/ kind[s] # "reverse" /\ lockup[s] = "none" /\ pc'[s] = "done"

LEMMA SwapRemoved ==
  ASSUME SwapInv, TypeOK, NEW s \in Swaps, Removable(s), RemoveRecord(s),
         pc' = pc \/ (pc[s] = "fund" /\ Goto(s, "done")),
         UNCHANGED <<kind, terms, status, lockup, unsaved>>
  PROVE  SwapInv'
<1>1. \A q \in Swaps : q # s => record'[q] = record[q] /\ pc'[q] = pc[q]
  BY DEF TypeOK, RemoveRecord, Goto
<1>2. pc'[s] = pc[s] \/ (pc[s] = "fund" /\ pc'[s] = "done")
  BY DEF TypeOK, Goto
<1>3. \A q \in Swaps : q # s => SwapOK(q)' /\
        (lockup'[q] = "published" /\ status'[q] # "paid" =>
           /\ terms'[q] \in {"sound", "late"}
           /\ record'[q].made \/ q \in unsaved' \/ (kind'[q] = "reverse" /\ status'[q] = "failed"))
  BY <1>1 DEF SwapInv, SwapOK, KeyOutlivesLockup, BindsToUser
<1>4. SwapOK(s)' BY <1>2 DEF SwapInv, SwapOK, Removable, BindsToUser
<1>5. lockup'[s] = "published" /\ status'[s] # "paid" =>
        /\ terms'[s] \in {"sound", "late"}
        /\ kind'[s] = "reverse" /\ status'[s] = "failed"
  BY <1>2 DEF SwapInv, SwapOK, KeyOutlivesLockup, Removable
<1> QED BY <1>3, <1>4, <1>5 DEF SwapInv, KeyOutlivesLockup

\* The attempt to remove may fail, and leave it.
LEMMA SwapTriedToRemove ==
  ASSUME SwapInv, TypeOK, NEW s \in Swaps, Removable(s), TryRemove(s),
         UNCHANGED <<kind, terms, pc, status, lockup, unsaved>>
  PROVE  SwapInv'
BY SwapRemoved, SwapKept DEF TryRemove

\* The wallet's transaction takes the lockup.
LEMMA SwapSwept ==
  ASSUME SwapInv, TypeOK, NEW s \in Swaps, Sweep(s), UNCHANGED <<kind, terms, pc, status, unsaved>>,
         \A q \in Swaps : record[q].made => record'[q].made
  PROVE  SwapInv'
<1>1. \A q \in Swaps : lockup'[q] = IF q = s THEN "wallet" ELSE lockup[q]
  BY DEF TypeOK, Sweep
<1>2. lockup[s] = "published" BY DEF Sweep
<1> QED BY <1>1, <1>2 DEF SwapInv, SwapOK, KeyOutlivesLockup, BindsToUser

LEMMA Puts ==
  ASSUME TypeOK, NEW s \in Swaps, Put(s)
  PROVE  /\ record' \in [Swaps -> RecordSet] /\ record'[s].made
         /\ \A q \in Swaps : record[q].made => record'[q].made
BY DEF TypeOK, Put, NewRecord, RecordSet, RecordStates

LEMMA Patches ==
  ASSUME TypeOK, NEW s \in Swaps, NEW rec \in RecordSet, rec.made = record[s].made,
         TryPatch(s, rec) \/ Patch(s, rec)
  PROVE  /\ record' \in [Swaps -> RecordSet]
         /\ \A q \in Swaps : record[q].made => record'[q].made
BY DEF TypeOK, Patch, TryPatch, RecordSet

LEMMA Removes ==
  ASSUME TypeOK, NEW s \in Swaps, TryRemove(s) \/ RemoveRecord(s)
  PROVE  record' \in [Swaps -> RecordSet]
<1>1. NoRecord \in RecordSet BY DEF NoRecord, RecordSet, RecordStates
<1> QED BY <1>1 DEF TypeOK, TryRemove, RemoveRecord, RecordSet

----------------------------------------------------------------------------
\* What a step may do to the workers.
WorkTypes ==
  /\ work \in [Workers -> [at : Places, swap : Swaps \union {NoSwap}]]
  /\ \A w \in Workers : work[w].at \in ExecutePlaces \union ClaimPlaces => w \in Tasks
  /\ \A w \in Workers : work[w].at \in Places \ {"free", "next"} => work[w].swap \in Swaps

RestTypes ==
  /\ kind \in [Swaps -> Kinds]
  /\ \A s \in Swaps : terms[s] \in Offers(kind[s])
  /\ record \in [Swaps -> RecordSet]
  /\ pc \in [Swaps -> {"idle", "fund", "note", "done"}]
  /\ status \in [Swaps -> {"open", "server", "paid", "failed", "returned"}]
  /\ lockup \in [Swaps -> {"none", "published", "provider", "wallet"}]
  /\ expired \subseteq Swaps /\ revealed \subseteq Swaps /\ unsaved \subseteq Swaps
  /\ watch \in [Swaps -> WatchStates]
  /\ faults \in 0..MaxFaults

LEMMA Types == TypeOK <=> RestTypes /\ WorkTypes
BY DEF TypeOK, RestTypes, WorkTypes, RecordSet

\* What makes a job safe stays.
Progress ==
  /\ UNCHANGED kind
  /\ \A s \in Swaps : /\ pc[s] = "done" => pc'[s] = "done"
                      /\ lockup[s] = "wallet" => lockup'[s] = "wallet"
                      /\ status[s] = "paid" => status'[s] = "paid"

Fits(w, j) ==
  /\ j \in [at : Places, swap : Swaps \union {NoSwap}]
  /\ j.at \in ExecutePlaces \union ClaimPlaces => w \in Tasks
  /\ j.at \in Places \ {"free", "next"} => j.swap \in Swaps

LEMMA JobStays ==
  ASSUME WorkTypes, JobInv, Progress, NEW w \in Workers PROVE JobOK(work[w])'
         \/ work'[w] # work[w]
BY DEF WorkTypes, JobInv, JobOK, Progress, RefundPlaces, Places

LEMMA WorkSame ==
  ASSUME WorkTypes, JobInv, Progress, UNCHANGED work PROVE WorkTypes' /\ JobInv'
BY JobStays DEF WorkTypes, JobInv

LEMMA WorkBecomes ==
  ASSUME WorkTypes, JobInv, Progress, NEW w \in Workers, NEW j, Fits(w, j),
         work' = [work EXCEPT ![w] = j], JobOK(work[w])'
  PROVE  WorkTypes' /\ JobInv'
<1>1. work'[w] = j /\ \A v \in Workers : v # w => work'[v] = work[v] BY DEF WorkTypes
<1>2. JobInv' BY <1>1, JobStays DEF JobInv
<1>3. WorkTypes' BY <1>1 DEF WorkTypes, Fits
<1> QED BY <1>2, <1>3

LEMMA WorkDone ==
  ASSUME WorkTypes, JobInv, Progress, NEW w \in Workers, Done(w) PROVE WorkTypes' /\ JobInv'
<1> DEFINE j == IF w \in Recoveries THEN [Free EXCEPT !.at = "next"] ELSE Free
<1>1. Fits(w, j) /\ j.at \in {"free", "next"}
  BY DEF Fits, Free, Places, ExecutePlaces, ClaimPlaces
<1>2. work' = [work EXCEPT ![w] = j] BY DEF Done
<1>3. work'[w] = j BY <1>2 DEF WorkTypes
<1>4. JobOK(work[w])' BY <1>1, <1>3 DEF JobOK, RefundPlaces
<1> HIDE DEF j
<1> QED BY <1>1, <1>2, <1>4, WorkBecomes

LEMMA WorkMoves ==
  ASSUME WorkTypes, JobInv, Progress, NEW w \in Workers, NEW place \in Places, Move(w, place),
         work[w].at \notin {"free", "next"}, place # "probe",
         place \in ExecutePlaces \union ClaimPlaces => w \in Tasks,
         place \in RefundPlaces => kind[work[w].swap] # "reverse",
         place = "remove" => lockup'[work[w].swap] = "wallet",
         place = "drop" => status'[work[w].swap] = "paid"
  PROVE  WorkTypes' /\ JobInv'
<1> DEFINE j == [at |-> place, swap |-> work[w].swap]
<1>1. work' = [work EXCEPT ![w] = j]
  <2>1. work[w] \in [at : Places, swap : Swaps \union {NoSwap}] BY DEF WorkTypes
  <2>2. [work[w] EXCEPT !.at = place] = j BY <2>1
  <2>3. work' = [work EXCEPT ![w] = [work[w] EXCEPT !.at = place]] BY DEF Move
  <2> QED BY <2>2, <2>3
<1>2. Fits(w, j) BY DEF Fits, WorkTypes
<1>3. work'[w] = j BY <1>1 DEF WorkTypes
<1>4. JobOK(work[w])' BY <1>3 DEF JobOK, Progress
<1> HIDE DEF j
<1> QED BY <1>1, <1>2, <1>4, WorkBecomes

LEMMA WorkSpawns ==
  ASSUME WorkTypes, JobInv, Progress, NEW s \in Swaps, NEW place \in {"load", "read", "fetch"},
         Spawn(place, s), place = "read" => kind[s] # "reverse"
  PROVE  WorkTypes' /\ JobInv'
<1>1. PICK t \in Tasks : work' = [work EXCEPT ![t] = Job(place, s)] BY DEF Spawn
<1>2. t \in Workers BY DEF Workers
<1>3. Fits(t, Job(place, s))
  BY DEF Fits, Job, Places, RefundPlaces, ExecutePlaces, ClaimPlaces
<1>4. work'[t] = Job(place, s) BY <1>1, <1>2 DEF WorkTypes
<1>5. JobOK(work[t])' BY <1>4 DEF JobOK, Job, RefundPlaces, Progress
<1> QED BY <1>1, <1>2, <1>3, <1>5, WorkBecomes

----------------------------------------------------------------------------
\* The call that creates a swap.
LEMMA Known == ASSUME IInv PROVE RestTypes /\ WorkTypes /\ JobInv /\ SwapInv /\ TypeOK /\ TodoOK
BY Types DEF IInv

\* The parts of IInv, each kept.
LEMMA Whole == RestTypes' /\ WorkTypes' /\ JobInv' /\ SwapInv' /\ TodoOK' => IInv'
BY Types DEF IInv, TypeOK, RestTypes, WorkTypes, RecordSet

LEMMA FaultsCounted == ASSUME RestTypes, Fault \/ NoFault PROVE faults' \in 0..MaxFaults
BY BoundsAssumption DEF RestTypes, Fault, NoFault

LEMMA CreateKeeps == ASSUME IInv, NEW s \in Swaps, Create(s) PROVE IInv'
<1>0. RestTypes /\ WorkTypes /\ JobInv /\ SwapInv /\ TypeOK /\ TodoOK BY Known
<1>1. WorkTypes' /\ JobInv' /\ TodoOK'
  BY <1>0, WorkSame DEF Create, Progress, Goto, RestTypes, TodoOK, given, outside
<1>2. CASE UNCHANGED record /\ Goto(s, "done")
  <2>1. faults' \in 0..MaxFaults BY <1>0, FaultsCounted DEF Create
  <2>2. RestTypes' BY <1>0, <1>2, <2>1 DEF Create, RestTypes, Goto, given, outside
  <2>3. SwapInv'
    BY <1>0, <1>2 DEF Create, RestTypes, SwapInv, SwapOK, KeyOutlivesLockup, BindsToUser, Goto,
                      given, outside
  <2> QED BY <1>1, <2>2, <2>3, Whole
<1>3. CASE Put(s) /\ Goto(s, "fund") /\ \E known \in BOOLEAN : Prepares(s, known)
  <2>1. terms[s] \in {"sound", "late"} /\ kind[s] # "reverse" /\ pc[s] = "idle"
    BY <1>0, <1>3 DEF Create, Prepares, PreparesSubmarine, PreparesStablecoin, BindsToUser,
                NotInflated, Settles, Deliverable, RestTypes, Offers, Kinds
  <2>2. /\ record' \in [Swaps -> RecordSet] /\ record'[s].made
        /\ \A q \in Swaps : record[q].made => record'[q].made
    BY <1>0, <1>3, Puts
  <2>3. SwapInv'
    BY <1>0, <1>3, <2>1, <2>2
       DEF Create, RestTypes, SwapInv, SwapOK, KeyOutlivesLockup, BindsToUser, Goto, given, outside
  <2>4. faults' \in 0..MaxFaults BY <1>0, FaultsCounted DEF Create
  <2>5. RestTypes' BY <1>0, <1>3, <2>2, <2>4 DEF Create, RestTypes, Goto, given, outside
  <2> QED BY <1>1, <2>3, <2>5, Whole
<1> QED BY <1>2, <1>3 DEF Create

LEMMA RefuseKeeps == ASSUME IInv, NEW s \in Swaps, Refuse(s) PROVE IInv'
<1>0. RestTypes /\ WorkTypes /\ JobInv /\ SwapInv /\ TypeOK /\ TodoOK BY Known
<1>1. WorkTypes' /\ JobInv' /\ TodoOK'
  BY <1>0, WorkSame DEF Refuse, Progress, Goto, RestTypes, TodoOK, given, outside
<1>2. RestTypes' /\ SwapInv'
  BY <1>0 DEF Refuse, RestTypes, SwapInv, SwapOK, KeyOutlivesLockup, BindsToUser, Goto, given, outside
<1> QED BY <1>1, <1>2, Whole

LEMMA ReceiveKeeps == ASSUME IInv, NEW s \in Swaps, Receive(s) PROVE IInv'
<1>0. RestTypes /\ WorkTypes /\ JobInv /\ SwapInv /\ TypeOK /\ TodoOK BY Known
<1>1. WorkTypes' /\ JobInv' /\ TodoOK'
  BY <1>0, WorkSame DEF Receive, Progress, Goto, RestTypes, TodoOK, given, outside
<1>2. /\ record'[s].made \/ s \in unsaved'
      /\ \A q \in Swaps : record[q].made => record'[q].made
      /\ unsaved \subseteq unsaved' /\ unsaved' \subseteq Swaps
  <2>1. CASE Put(s) /\ UNCHANGED unsaved BY <1>0, <2>1, Puts DEF RestTypes
  <2>2. CASE UNCHANGED record /\ unsaved' = unsaved \union {s} BY <1>0, <2>2 DEF RestTypes
  <2> QED BY <2>1, <2>2 DEF Receive, PersistClaimKey
<1>3. watch' \in [Swaps -> WatchStates] BY <1>0 DEF Receive, Attach, Watch, WatchStates, RestTypes
<1>4. RestTypes'
  <2>1. faults' \in 0..MaxFaults BY <1>0, FaultsCounted DEF Receive, PersistClaimKey
  <2>2. pc' \in [Swaps -> {"idle", "fund", "note", "done"}] BY <1>0 DEF Receive, Goto, RestTypes
  <2>3. record' \in [Swaps -> RecordSet] BY <1>0, Puts DEF Receive, PersistClaimKey, RestTypes
  <2> QED BY <1>0, <1>2, <1>3, <2>1, <2>2, <2>3 DEF Receive, RestTypes, given, outside
<1>5. SwapInv'
  BY <1>0, <1>2 DEF Receive, RestTypes, SwapInv, SwapOK, KeyOutlivesLockup, BindsToUser, Goto, given, outside
<1> QED BY <1>1, <1>4, <1>5, Whole

LEMMA FundKeeps ==
  ASSUME IInv, NEW s \in Swaps, Fund(s) \/ FundUnknown(s) PROVE IInv'
<1>0. RestTypes /\ WorkTypes /\ JobInv /\ SwapInv /\ TypeOK /\ TodoOK BY Known
<1>1. /\ pc[s] = "fund" /\ UNCHANGED <<given, record, provider, revealed, unsaved, watch, work, todo>>
      /\ Fault \/ NoFault
      /\ \E result \in {"none", "published"} : lockup' = [lockup EXCEPT ![s] = result]
      /\ Goto(s, "note") \/ Goto(s, "done")
  BY DEF Fund, FundUnknown, Fault, NoFault
<1>2. /\ \A q \in Swaps : q # s => pc'[q] = pc[q] /\ lockup'[q] = lockup[q]
      /\ pc'[s] \in {"note", "done"} /\ lockup'[s] \in {"none", "published"}
  BY <1>0, <1>1 DEF Goto, RestTypes
<1>3. SwapOK(s) BY <1>0 DEF SwapInv
<1>4. WorkTypes' /\ JobInv' /\ TodoOK'
  BY <1>0, <1>1, <1>2, <1>3, WorkSame DEF Progress, SwapOK, TodoOK, given, provider
<1>5. RestTypes'
  <2>1. faults' \in 0..MaxFaults BY <1>0, <1>1, FaultsCounted
  <2> QED BY <1>0, <1>1, <2>1 DEF RestTypes, Goto, given, provider
<1>6. SwapInv'
  BY <1>0, <1>1, <1>2, <1>3 DEF SwapInv, SwapOK, KeyOutlivesLockup, BindsToUser, given, provider
<1> QED BY <1>4, <1>5, <1>6, Whole

LEMMA FundRefusedKeeps == ASSUME IInv, NEW s \in Swaps, FundRefused(s) PROVE IInv'
<1>0. RestTypes /\ WorkTypes /\ JobInv /\ SwapInv /\ TypeOK /\ TodoOK BY Known
<1>1. pc[s] = "fund" /\ kind[s] # "reverse" /\ lockup[s] = "none"
  BY <1>0 DEF FundRefused, SwapInv, SwapOK
<1>2. /\ \A q \in Swaps : q # s => pc'[q] = pc[q]
      /\ pc'[s] = "done"
  BY <1>0 DEF FundRefused, Goto, RestTypes
<1>3. WorkTypes' /\ JobInv' /\ TodoOK'
  BY <1>0, <1>2, WorkSame DEF FundRefused, Progress, TodoOK, given, outside
<1>4. RestTypes'
  <2>1. faults' \in 0..MaxFaults BY <1>0, FaultsCounted DEF FundRefused, TryRemove
  <2>2. record' \in [Swaps -> RecordSet] BY <1>0, Removes DEF FundRefused
  <2> QED BY <1>0, <2>1, <2>2 DEF FundRefused, RestTypes, Goto, given, outside
<1>5. SwapInv'
  <2>1. CASE RemoveRecord(s)
    BY <1>0, <1>1, <1>2, <2>1, SwapRemoved DEF FundRefused, Removable, given, outside
  <2>2. CASE UNCHANGED record
    BY <1>0, <1>1, <1>2, <2>2
       DEF FundRefused, SwapInv, SwapOK, KeyOutlivesLockup, BindsToUser, given, outside
  <2> QED BY <2>1, <2>2 DEF FundRefused, TryRemove
<1> QED BY <1>3, <1>4, <1>5, Whole

LEMMA NoteKeeps == ASSUME IInv, NEW s \in Swaps, Note(s) PROVE IInv'
<1>0. RestTypes /\ WorkTypes /\ JobInv /\ SwapInv /\ TypeOK /\ TodoOK BY Known
<1>1. pc[s] = "note" /\ Goto(s, "done") BY DEF Note
<1>2. /\ record' \in [Swaps -> RecordSet]
      /\ \A q \in Swaps : record[q].made => record'[q].made
  <2> DEFINE rec == [record[s] EXCEPT !.state = "locked_up"]
  <2>1. rec \in RecordSet /\ rec.made = record[s].made
    BY <1>0 DEF RestTypes, RecordSet, RecordStates
  <2>2. CASE Patch(s, rec) BY <1>0, <2>1, <2>2, Patches
  <2>3. CASE UNCHANGED record BY <1>0, <2>3 DEF RestTypes
  <2> QED BY <2>2, <2>3 DEF Note
<1>3. watch' \in [Swaps -> WatchStates]
  BY <1>0 DEF Note, Attach, Watch, WatchStates, RestTypes
<1>4. Progress BY <1>0, <1>1 DEF Note, Progress, Goto, RestTypes, given, outside
<1>5. WorkTypes' /\ JobInv' /\ TodoOK'
  BY <1>0, <1>4, WorkSame, WorkSpawns DEF Note, TodoOK
<1>6. RestTypes'
  <2>1. faults' \in 0..MaxFaults BY <1>0, FaultsCounted DEF Note
  <2>2. pc' \in [Swaps -> {"idle", "fund", "note", "done"}] BY <1>0, <1>1 DEF RestTypes, Goto
  <2> QED BY <1>0, <1>2, <1>3, <2>1, <2>2 DEF Note, RestTypes, given, outside
<1>7. SwapInv' BY <1>0, <1>1, <1>2, SwapDone DEF Note, RestTypes, given, outside
<1> QED BY <1>5, <1>6, <1>7, Whole

----------------------------------------------------------------------------
\* The status watch.

LEMMA WatchEndsKeeps == ASSUME IInv, NEW s \in Swaps, WatchEnds(s) PROVE IInv'
<1>0. RestTypes /\ WorkTypes /\ JobInv /\ SwapInv /\ TypeOK /\ TodoOK BY Known
<1>1. Removable(s)
  BY <1>0 DEF WatchEnds, SubmarineOver, ReverseOver, Hears, Removable, SwapInv, SwapOK
<1>2. SwapInv' BY <1>0, <1>1, SwapTriedToRemove DEF WatchEnds, given, outside
<1>3. WorkTypes' /\ JobInv' /\ TodoOK'
  BY <1>0, WorkSame DEF WatchEnds, Progress, TodoOK, given, outside
<1>4. RestTypes'
  <2>1. faults' \in 0..MaxFaults BY <1>0, FaultsCounted DEF WatchEnds, TryRemove
  <2>2. record' \in [Swaps -> RecordSet] BY <1>0, Removes DEF WatchEnds
  <2> QED BY <1>0, <2>1, <2>2 DEF WatchEnds, Watch, WatchStates, RestTypes, given, outside
<1> QED BY <1>2, <1>3, <1>4, Whole

LEMMA WatchActsKeeps == ASSUME IInv, NEW s \in Swaps, WatchActs(s) PROVE IInv'
<1>0. RestTypes /\ WorkTypes /\ JobInv /\ SwapInv /\ TypeOK /\ TodoOK BY Known
<1>1. Progress BY DEF WatchActs, Progress, given, outside
<1>2. WorkTypes' /\ JobInv' /\ TodoOK' BY <1>0, <1>1, WorkSpawns DEF WatchActs, TodoOK
<1>3. RestTypes' BY <1>0 DEF WatchActs, Watch, WatchStates, RestTypes, given, outside
<1>4. SwapInv' BY <1>0, SwapKept DEF WatchActs, given, outside
<1> QED BY <1>2, <1>3, <1>4, Whole

----------------------------------------------------------------------------
\* Refunds.

LEMMA RefundJob ==
  ASSUME IInv, NEW w \in Workers, work[w].at \in RefundPlaces
  PROVE  /\ work[w].swap \in Swaps /\ kind[work[w].swap] # "reverse"
         /\ work[w].at \notin {"free", "next"}
BY Known DEF WorkTypes, JobInv, JobOK, Places, RefundPlaces

LEMMA EndsWatch ==
  ASSUME RestTypes, NEW w, NEW s \in Swaps, EndWatch(w, s) \/ Rearm(w, s) \/ UNCHANGED watch
  PROVE  watch' \in [Swaps -> WatchStates]
BY DEF RestTypes, EndWatch, Rearm, Watch, WatchStates

\* Steps of a refund that leave the record and the lockup alone.
LEMMA RefundLooks ==
  ASSUME IInv, NEW w \in Workers,
         RefundReads(w) \/ RefundFindsNothing(w) \/ RefundWaits(w)
  PROVE  IInv'
<1> DEFINE s == work[w].swap
<1>0. RestTypes /\ WorkTypes /\ JobInv /\ SwapInv /\ TypeOK /\ TodoOK BY Known
<1>1. s \in Swaps /\ kind[s] # "reverse" /\ work[w].at \notin {"free", "next"}
  BY RefundJob DEF RefundReads, RefundFindsNothing, RefundWaits, At, RefundPlaces
<1>2. /\ UNCHANGED <<given, record, pc, outside, unsaved, todo>>
      /\ Fault \/ NoFault
      /\ EndWatch(w, s) \/ Rearm(w, s) \/ UNCHANGED watch
      /\ Done(w) \/ Move(w, "coop") \/ Move(w, "defer")
  BY DEF RefundReads, RefundFindsNothing, RefundWaits, Fault, NoFault
<1> HIDE DEF s
<1>3. Progress BY <1>2 DEF Progress, given, outside
<1>4. WorkTypes' /\ JobInv' /\ TodoOK'
  <2>1. CASE Done(w) BY <1>0, <1>3, <2>1, <1>2, WorkDone DEF TodoOK
  <2>2. CASE Move(w, "coop") \/ Move(w, "defer")
    BY <1>0, <1>1, <1>2, <1>3, <2>2, WorkMoves
       DEF TodoOK, s, Places, RefundPlaces, ExecutePlaces, ClaimPlaces
  <2> QED BY <1>2, <2>1, <2>2
<1>5. RestTypes'
  <2>1. faults' \in 0..MaxFaults /\ watch' \in [Swaps -> WatchStates]
    BY <1>0, <1>1, <1>2, FaultsCounted, EndsWatch
  <2> QED BY <1>0, <1>2, <2>1 DEF RestTypes, given, outside
<1>6. SwapInv' BY <1>0, <1>2, SwapKept DEF given, outside
<1> QED BY <1>4, <1>5, <1>6, Whole

LEMMA RefundProbesKeeps == ASSUME IInv, NEW w \in Workers, RefundProbes(w) PROVE IInv'
<1> DEFINE s == work[w].swap
<1>0. RestTypes /\ WorkTypes /\ JobInv /\ SwapInv /\ TypeOK /\ TodoOK BY Known
<1>1. s \in Swaps /\ kind[s] = "chain" /\ pc[s] = "done" /\ work[w].at \notin {"free", "next"}
  BY <1>0, RefundJob DEF RefundProbes, At, RefundPlaces, JobInv, JobOK
<1>2. /\ UNCHANGED <<given, pc, outside, unsaved, watch, todo>>
      /\ \/ NeverLocked(s) /\ TryRemove(s) /\ Done(w)
         \/ Move(w, "coop") /\ UNCHANGED record /\ (Fault \/ NoFault)
  BY DEF RefundProbes
<1> HIDE DEF s
<1>3. Progress BY <1>2 DEF Progress, given, outside
<1>4. WorkTypes' /\ JobInv' /\ TodoOK'
  BY <1>0, <1>1, <1>2, <1>3, WorkDone, WorkMoves
     DEF TodoOK, s, Places, RefundPlaces, ExecutePlaces, ClaimPlaces
<1>5. RestTypes'
  <2>1. faults' \in 0..MaxFaults BY <1>0, <1>2, FaultsCounted DEF TryRemove
  <2>2. record' \in [Swaps -> RecordSet] BY <1>0, <1>1, <1>2, Removes DEF RestTypes
  <2> QED BY <1>0, <1>2, <2>1, <2>2 DEF RestTypes, given, outside
<1>6. SwapInv'
  <2>1. CASE TryRemove(s) /\ NeverLocked(s)
    <3>1. Removable(s) BY <1>1, <1>2, <2>1 DEF Removable, NeverLocked
    <3> QED BY <1>0, <1>1, <1>2, <2>1, <3>1, SwapTriedToRemove DEF given, outside
  <2>2. CASE UNCHANGED record BY <1>0, <1>2, <2>2, SwapKept DEF given, outside
  <2> QED BY <1>2, <2>1, <2>2
<1> QED BY <1>4, <1>5, <1>6, Whole

\* Steps of a refund that may broadcast.
LEMMA RefundSends ==
  ASSUME IInv, NEW w \in Workers,
         RefundCooperates(w) \/ RefundFallsBack(w) \/ RefundByTimeout(w) \/ RefundThrows(w)
  PROVE  IInv'
<1> DEFINE s == work[w].swap
<1>0. RestTypes /\ WorkTypes /\ JobInv /\ SwapInv /\ TypeOK /\ TodoOK BY Known
<1>1. s \in Swaps /\ kind[s] # "reverse" /\ work[w].at \notin {"free", "next"}
  BY RefundJob
     DEF RefundCooperates, RefundFallsBack, RefundByTimeout, RefundThrows, At, RefundPlaces
<1>2. /\ UNCHANGED <<given, record, pc, provider, revealed, unsaved, todo>>
      /\ Fault \/ NoFault
      /\ Rearm(w, s) \/ UNCHANGED watch
      /\ Sweep(s) \/ UNCHANGED lockup
      /\ Done(w) \/ Move(w, "height") \/ (Move(w, "remove") /\ Sweep(s))
  BY DEF RefundCooperates, RefundFallsBack, RefundByTimeout, RefundThrows, Fault, NoFault
<1> HIDE DEF s
<1>3. /\ lockup' \in [Swaps -> {"none", "published", "provider", "wallet"}]
      /\ Sweep(s) => lockup'[s] = "wallet"
      /\ \A q \in Swaps : lockup[q] = "wallet" => lockup'[q] = "wallet"
  BY <1>0, <1>1, <1>2 DEF Sweep, RestTypes
<1>4. Progress BY <1>2, <1>3 DEF Progress, given, provider
<1>5. WorkTypes' /\ JobInv' /\ TodoOK'
  <2>1. CASE Done(w) BY <1>0, <1>2, <1>4, <2>1, WorkDone DEF TodoOK
  <2>2. CASE Move(w, "height")
    BY <1>0, <1>1, <1>2, <1>4, <2>2, WorkMoves
       DEF TodoOK, s, Places, RefundPlaces, ExecutePlaces, ClaimPlaces
  <2>3. CASE Move(w, "remove") /\ Sweep(s)
    BY <1>0, <1>1, <1>2, <1>3, <1>4, <2>3, WorkMoves
       DEF TodoOK, s, Places, RefundPlaces, ExecutePlaces, ClaimPlaces
  <2> QED BY <1>2, <2>1, <2>2, <2>3
<1>6. RestTypes'
  <2>1. faults' \in 0..MaxFaults /\ watch' \in [Swaps -> WatchStates]
    BY <1>0, <1>1, <1>2, FaultsCounted, EndsWatch
  <2> QED BY <1>0, <1>2, <1>3, <2>1 DEF RestTypes, given, provider
<1>7. SwapInv' BY <1>0, <1>1, <1>2, SwapSwept, SwapKept DEF given, provider
<1> QED BY <1>5, <1>6, <1>7, Whole

LEMMA RefundDefersKeeps == ASSUME IInv, NEW w \in Workers, RefundDefers(w) PROVE IInv'
<1> DEFINE s == work[w].swap
           rec == [record[s] EXCEPT !.state = "refund_pending", !.refund = kind[s] = "chain"]
<1>0. RestTypes /\ WorkTypes /\ JobInv /\ SwapInv /\ TypeOK /\ TodoOK BY Known
<1>1. s \in Swaps BY RefundJob DEF RefundDefers, At, RefundPlaces
<1>2. rec \in RecordSet /\ rec.made = record[s].made
  <2>1. record[s] \in RecordSet BY <1>0, <1>1 DEF RestTypes
  <2>2. ASSUME NEW b \in BOOLEAN
        PROVE  LET next == [record[s] EXCEPT !.state = "refund_pending", !.refund = b]
               IN  next \in RecordSet /\ next.made = record[s].made
    BY <2>1 DEF RecordSet, RecordStates
  <2>3. CASE kind[s] = "chain"
    <3>1. rec = [record[s] EXCEPT !.state = "refund_pending", !.refund = TRUE] BY <2>3
    <3> QED BY <2>2, <3>1
  <2>4. CASE kind[s] # "chain"
    <3>1. rec = [record[s] EXCEPT !.state = "refund_pending", !.refund = FALSE] BY <2>4
    <3> QED BY <2>2, <3>1
  <2> QED BY <2>3, <2>4
<1>3. /\ UNCHANGED <<given, pc, outside, unsaved, todo>>
      /\ TryPatch(s, rec) /\ Done(w) /\ EndWatch(w, s)
  BY DEF RefundDefers
<1> HIDE DEF s, rec
<1>4. /\ record' \in [Swaps -> RecordSet]
      /\ \A q \in Swaps : record[q].made => record'[q].made
  BY <1>0, <1>1, <1>2, <1>3, Patches
<1>5. Progress BY <1>3 DEF Progress, given, outside
<1>6. WorkTypes' /\ JobInv' /\ TodoOK' BY <1>0, <1>3, <1>5, WorkDone DEF TodoOK
<1>7. RestTypes'
  <2>1. faults' \in 0..MaxFaults /\ watch' \in [Swaps -> WatchStates]
    BY <1>0, <1>1, <1>3, FaultsCounted, EndsWatch DEF TryPatch
  <2> QED BY <1>0, <1>3, <1>4, <2>1 DEF RestTypes, given, outside
<1>8. SwapInv' BY <1>0, <1>3, <1>4, SwapKept DEF given, outside
<1> QED BY <1>6, <1>7, <1>8, Whole

\* Removals by a worker: its job says why the record may go.
LEMMA WorkerRemoves ==
  ASSUME IInv, NEW w \in Workers, RefundRemoves(w) \/ ExecuteRemoves(w) PROVE IInv'
<1> DEFINE s == work[w].swap
<1>0. RestTypes /\ WorkTypes /\ JobInv /\ SwapInv /\ TypeOK /\ TodoOK BY Known
<1>1. s \in Swaps /\ Removable(s)
  BY <1>0 DEF RefundRemoves, ExecuteRemoves, At, WorkTypes, JobInv, JobOK, Removable, Places,
              RefundPlaces, ExecutePlaces
<1>2. /\ UNCHANGED <<given, pc, outside, unsaved, todo>>
      /\ TryRemove(s) /\ Done(w) /\ (EndWatch(w, s) \/ UNCHANGED watch)
  BY DEF RefundRemoves, ExecuteRemoves
<1> HIDE DEF s
<1>3. Progress BY <1>2 DEF Progress, given, outside
<1>4. WorkTypes' /\ JobInv' /\ TodoOK' BY <1>0, <1>2, <1>3, WorkDone DEF TodoOK
<1>5. RestTypes'
  <2>1. faults' \in 0..MaxFaults /\ watch' \in [Swaps -> WatchStates]
    BY <1>0, <1>1, <1>2, FaultsCounted, EndsWatch DEF TryRemove
  <2>2. record' \in [Swaps -> RecordSet] BY <1>0, <1>1, <1>2, Removes
  <2> QED BY <1>0, <1>2, <2>1, <2>2 DEF RestTypes, given, outside
<1>6. SwapInv' BY <1>0, <1>1, <1>2, SwapTriedToRemove DEF given, outside
<1> QED BY <1>4, <1>5, <1>6, Whole

----------------------------------------------------------------------------
\* Executions and claims.

LEMMA TaskJob ==
  ASSUME IInv, NEW w \in Workers, work[w].at \in ExecutePlaces \union ClaimPlaces
  PROVE  work[w].swap \in Swaps /\ work[w].at \notin {"free", "next"} /\ w \in Tasks
BY Known DEF WorkTypes, Places, ExecutePlaces, ClaimPlaces

\* Steps that leave the record, the lockup and the provider alone.
LEMMA TaskLooks ==
  ASSUME IInv, NEW w \in Workers,
         \/ ExecuteLoads(w) \/ ExecuteHears(w) \/ ExecuteTimesOut(w) \/ ExecuteFails(w)
         \/ ClaimFetches(w) \/ ClaimCosigns(w)
  PROVE  IInv'
<1> DEFINE s == work[w].swap
<1>0. RestTypes /\ WorkTypes /\ JobInv /\ SwapInv /\ TypeOK /\ TodoOK BY Known
<1>1. s \in Swaps /\ work[w].at \notin {"free", "next"} /\ w \in Tasks
  BY TaskJob
     DEF ExecuteLoads, ExecuteHears, ExecuteTimesOut, ExecuteFails, ClaimFetches, ClaimCosigns, At,
         ExecutePlaces, ClaimPlaces
<1>2. /\ UNCHANGED <<given, record, pc, provider, lockup, unsaved, todo>>
      /\ Fault \/ NoFault
      /\ revealed' = revealed \/ revealed' = revealed \union {s}
      /\ Attach(s) \/ Watch(s, "none") \/ UNCHANGED watch
      /\ Done(w) \/ \E place \in {"wait", "inert", "run", "mark", "cosign", "send"} : Move(w, place)
  BY DEF ExecuteLoads, ExecuteHears, ExecuteTimesOut, ExecuteFails, ClaimFetches, ClaimCosigns,
         ClaimEnds, Fault, NoFault, outside, provider
<1> HIDE DEF s
<1>3. Progress BY <1>2 DEF Progress, given, provider
<1>4. WorkTypes' /\ JobInv' /\ TodoOK'
  <2>1. CASE Done(w) BY <1>0, <1>2, <1>3, <2>1, WorkDone DEF TodoOK
  <2>2. ASSUME NEW place \in {"wait", "inert", "run", "mark", "cosign", "send"}, Move(w, place)
        PROVE WorkTypes' /\ JobInv' /\ TodoOK'
    BY <1>0, <1>1, <1>2, <1>3, <2>2, WorkMoves
       DEF TodoOK, Places, RefundPlaces, ExecutePlaces, ClaimPlaces
  <2> QED BY <1>2, <2>1, <2>2
<1>5. RestTypes'
  <2>1. faults' \in 0..MaxFaults BY <1>0, <1>2, FaultsCounted
  <2>2. watch' \in [Swaps -> WatchStates]
    BY <1>0, <1>2 DEF RestTypes, Attach, Watch, WatchStates
  <2> QED BY <1>0, <1>1, <1>2, <2>1, <2>2 DEF RestTypes, given, provider
<1>6. SwapInv' BY <1>0, <1>2, SwapKept DEF given, provider
<1> QED BY <1>4, <1>5, <1>6, Whole

LEMMA ExecuteKeeps == ASSUME IInv, NEW w \in Workers, Execute(w) PROVE IInv'
<1> DEFINE s == work[w].swap
<1>0. RestTypes /\ WorkTypes /\ JobInv /\ SwapInv /\ TypeOK /\ TodoOK BY Known
<1>1. s \in Swaps /\ work[w].at \notin {"free", "next"} /\ w \in Tasks
  BY TaskJob DEF Execute, At, ExecutePlaces
<1>2. /\ UNCHANGED <<given, record, pc, expired, revealed, unsaved, watch, todo>>
      /\ status[s] = "server" /\ lockup[s] = "published"
      /\ status' = [status EXCEPT ![s] = "paid"] /\ lockup' = [lockup EXCEPT ![s] = "provider"]
      /\ Done(w) \/ Move(w, "drop")
      /\ Fault \/ NoFault
  BY DEF Execute
<1>3. /\ status'[s] = "paid" /\ lockup'[s] = "provider"
      /\ \A q \in Swaps : q # s => status'[q] = status[q] /\ lockup'[q] = lockup[q]
  BY <1>0, <1>1, <1>2 DEF RestTypes
<1> HIDE DEF s
<1>4. Progress BY <1>2, <1>3 DEF Progress, given
<1>5. WorkTypes' /\ JobInv' /\ TodoOK'
  <2>1. CASE Done(w) BY <1>0, <1>2, <1>4, <2>1, WorkDone DEF TodoOK
  <2>2. CASE Move(w, "drop")
    BY <1>0, <1>1, <1>2, <1>3, <1>4, <2>2, WorkMoves
       DEF s, TodoOK, Places, RefundPlaces, ExecutePlaces, ClaimPlaces
  <2> QED BY <1>2, <2>1, <2>2
<1>6. RestTypes'
  <2>1. faults' \in 0..MaxFaults BY <1>0, <1>2, FaultsCounted
  <2> QED BY <1>0, <1>2, <2>1 DEF RestTypes, given
<1>7. SwapInv'
  BY <1>0, <1>1, <1>2, <1>3 DEF SwapInv, SwapOK, KeyOutlivesLockup, BindsToUser, given
<1> QED BY <1>5, <1>6, <1>7, Whole

LEMMA ExecuteMarksKeeps == ASSUME IInv, NEW w \in Workers, ExecuteMarks(w) PROVE IInv'
<1> DEFINE s == work[w].swap
           rec == [record[s] EXCEPT !.refund = TRUE]
<1>0. RestTypes /\ WorkTypes /\ JobInv /\ SwapInv /\ TypeOK /\ TodoOK BY Known
<1>1. s \in Swaps BY TaskJob DEF ExecuteMarks, At, ExecutePlaces
<1>2. rec \in RecordSet /\ rec.made = record[s].made
  BY <1>0, <1>1 DEF RestTypes, RecordSet, RecordStates
<1>3. UNCHANGED <<given, pc, outside, unsaved, watch, todo>> /\ TryPatch(s, rec) /\ Done(w)
  BY DEF ExecuteMarks
<1> HIDE DEF s, rec
<1>4. /\ record' \in [Swaps -> RecordSet]
      /\ \A q \in Swaps : record[q].made => record'[q].made
  BY <1>0, <1>1, <1>2, <1>3, Patches
<1>5. Progress BY <1>3 DEF Progress, given, outside
<1>6. WorkTypes' /\ JobInv' /\ TodoOK' BY <1>0, <1>3, <1>5, WorkDone DEF TodoOK
<1>7. RestTypes'
  <2>1. faults' \in 0..MaxFaults BY <1>0, <1>3, FaultsCounted DEF TryPatch
  <2> QED BY <1>0, <1>3, <1>4, <2>1 DEF RestTypes, given, outside
<1>8. SwapInv' BY <1>0, <1>3, <1>4, SwapKept DEF given, outside
<1> QED BY <1>6, <1>7, <1>8, Whole

LEMMA ClaimSends ==
  ASSUME IInv, NEW w \in Workers, ClaimLands(w) \/ ClaimThrows(w) PROVE IInv'
<1> DEFINE s == work[w].swap
<1>0. RestTypes /\ WorkTypes /\ JobInv /\ SwapInv /\ TypeOK /\ TodoOK BY Known
<1>1. s \in Swaps BY TaskJob DEF ClaimLands, ClaimThrows, At, ClaimPlaces
<1>2. /\ UNCHANGED <<given, pc, provider, unsaved, todo>> /\ (Fault \/ NoFault)
      /\ revealed' = revealed \/ revealed' = revealed \union {s}
      /\ Sweep(s) \/ UNCHANGED lockup
      /\ Put(s) \/ UNCHANGED record
      /\ Watch(s, "none") \/ UNCHANGED watch
      /\ Done(w)
  BY DEF ClaimLands, ClaimThrows, ClaimEnds, Fault, NoFault
<1> HIDE DEF s
<1>3. /\ lockup' \in [Swaps -> {"none", "published", "provider", "wallet"}]
      /\ \A q \in Swaps : lockup[q] = "wallet" => lockup'[q] = "wallet"
  BY <1>0, <1>1, <1>2 DEF Sweep, RestTypes
<1>4. /\ record' \in [Swaps -> RecordSet]
      /\ \A q \in Swaps : record[q].made => record'[q].made
  BY <1>0, <1>1, <1>2, Puts DEF RestTypes
<1>5. Progress BY <1>2, <1>3 DEF Progress, given, provider
<1>6. WorkTypes' /\ JobInv' /\ TodoOK' BY <1>0, <1>2, <1>5, WorkDone DEF TodoOK
<1>7. RestTypes'
  <2>1. faults' \in 0..MaxFaults BY <1>0, <1>2, FaultsCounted
  <2>2. watch' \in [Swaps -> WatchStates] BY <1>0, <1>2 DEF RestTypes, Watch, WatchStates
  <2> QED BY <1>0, <1>1, <1>2, <1>3, <1>4, <2>1, <2>2 DEF RestTypes, given, provider
<1>8. SwapInv' BY <1>0, <1>1, <1>2, <1>4, SwapSwept, SwapKept DEF given, provider
<1> QED BY <1>6, <1>7, <1>8, Whole

----------------------------------------------------------------------------
\* Recovery. It does not meet a chain swap that is being funded.

LEMMA RecoverKeeps ==
  ASSUME IInv, NEW r \in Recoveries, Recover(r) \/ RecoverEnds(r) PROVE IInv'
<1>0. RestTypes /\ WorkTypes /\ JobInv /\ SwapInv /\ TypeOK /\ TodoOK BY Known
<1>1. r \in Workers BY DEF Workers
<1>2. /\ UNCHANGED <<given, record, pc, outside, unsaved, watch, faults>>
      /\ work[r].at \in {"free", "next"} /\ \E place \in {"free", "next"} : Move(r, place)
      /\ todo' = todo \/ todo' = [todo EXCEPT ![r] = Stored]
  BY DEF Recover, RecoverEnds, At
<1>3. Progress BY <1>2 DEF Progress, given, outside
<1>4. PICK place \in {"free", "next"} : Move(r, place) BY <1>2
<1>5. WorkTypes' /\ JobInv'
  <2> DEFINE j == [at |-> place, swap |-> work[r].swap]
  <2>1. work[r] \in [at : Places, swap : Swaps \union {NoSwap}] BY <1>0, <1>1 DEF WorkTypes
  <2>2. [work[r] EXCEPT !.at = place] = j BY <2>1
  <2>3. work' = [work EXCEPT ![r] = [work[r] EXCEPT !.at = place]] BY <1>4 DEF Move
  <2>4. work' = [work EXCEPT ![r] = j] BY <2>2, <2>3
  <2>5. Fits(r, j) BY <2>1 DEF Fits, Places, ExecutePlaces, ClaimPlaces
  <2>6. work'[r] = j BY <1>0, <1>1, <2>4 DEF WorkTypes
  <2>7. JobOK(work[r])' BY <2>6 DEF JobOK, RefundPlaces
  <2> HIDE DEF j
  <2> QED BY <1>0, <1>1, <1>3, <2>4, <2>5, <2>7, WorkBecomes
<1>6. TodoOK'
  <2>1. Stored \in SUBSET (Swaps \X RecordSet) BY <1>0 DEF Stored, RestTypes
  <2> QED BY <1>0, <1>2, <2>1 DEF TodoOK
<1>7. RestTypes' BY <1>0, <1>2 DEF RestTypes, given, outside
<1>8. SwapInv' BY <1>0, <1>2, SwapKept DEF given, outside
<1> QED BY <1>5, <1>6, <1>7, <1>8, Whole

LEMMA TakeKeeps ==
  ASSUME IInv, "chain" \notin Overlapped, NEW r \in Recoveries, Take(r) PROVE IInv'
<1>0. RestTypes /\ WorkTypes /\ JobInv /\ SwapInv /\ TypeOK /\ TodoOK BY Known
<1>1. r \in Workers BY DEF Workers
<1>2. PICK item \in todo[r] :
        LET s == item[1] IN
        /\ kind[s] \in Overlapped \/ pc[s] = "done"
        /\ \/ Over(s) /\ TryRemove(s) /\ UNCHANGED <<work, watch>>
           \/ ~Over(s) /\ GoesOn(r, s, item[2], status[s]) /\ UNCHANGED record /\ NoFault
           \/ kind[s] # "reverse" /\ GoesOn(r, s, item[2], "unknown") /\ UNCHANGED record /\ Fault
        /\ todo' = [todo EXCEPT ![r] = @ \ {item}]
  BY DEF Take
<1> DEFINE s == item[1]
<1>3. s \in Swaps BY <1>0, <1>2 DEF TodoOK
<1>4. TodoOK' BY <1>0, <1>2 DEF TodoOK
<1>5. UNCHANGED <<given, pc, outside, unsaved>> BY DEF Take
<1>6. Progress BY <1>5 DEF Progress, given, outside
<1>7. CASE Over(s) /\ TryRemove(s) /\ UNCHANGED <<work, watch>>
  <2>1. Removable(s) BY <1>0, <1>3, <1>7 DEF Over, Removable, SwapInv, SwapOK
  <2>2. faults' \in 0..MaxFaults BY <1>0, <1>7, FaultsCounted DEF TryRemove
  <2>3. record' \in [Swaps -> RecordSet] BY <1>0, <1>3, <1>7, Removes
  <2> HIDE DEF s
  <2>4. SwapInv' BY <1>0, <1>3, <1>5, <1>7, <2>1, SwapTriedToRemove DEF given, outside
  <2>5. RestTypes' BY <1>0, <1>5, <1>7, <2>2, <2>3 DEF RestTypes, given, outside
  <2> QED BY <1>0, <1>4, <1>6, <1>7, <2>4, <2>5, WorkSame, Whole
<1>8. CASE \E answer : GoesOn(r, s, item[2], answer) /\ UNCHANGED record /\ (Fault \/ NoFault)
  <2>1. /\ UNCHANGED record /\ (Fault \/ NoFault)
        /\ \/ kind[s] # "reverse" /\ Refunds(r, s)
           \/ Spawn("load", s) /\ UNCHANGED watch
           \/ Attach(s) /\ UNCHANGED work
    BY <1>8 DEF GoesOn
  <2>2. kind[s] = "chain" => pc[s] = "done" BY <1>2
  <2> HIDE DEF s
  <2>3. WorkTypes' /\ JobInv'
    <3>1. CASE kind[s] # "reverse" /\ Refunds(r, s)
      <4> DEFINE place == IF kind[s] = "chain" THEN "probe" ELSE "read"
      <4>1. work' = [work EXCEPT ![r] = Job(place, s)] BY <3>1 DEF Refunds
      <4>2. Fits(r, Job(place, s))
        BY <1>3 DEF Fits, Job, Places, RefundPlaces, ExecutePlaces, ClaimPlaces
      <4>3. work'[r] = Job(place, s) BY <1>0, <1>1, <4>1 DEF WorkTypes
      <4>4. JobOK(work[r])'
        BY <1>3, <1>6, <2>2, <3>1, <4>3 DEF JobOK, Job, RefundPlaces, Progress
      <4> HIDE DEF place
      <4> QED BY <1>0, <1>1, <1>6, <4>1, <4>2, <4>4, WorkBecomes
    <3>2. CASE Spawn("load", s) BY <1>0, <1>3, <1>6, <3>2, WorkSpawns
    <3>3. CASE UNCHANGED work BY <1>0, <1>6, <3>3, WorkSame
    <3> QED BY <2>1, <3>1, <3>2, <3>3
  <2>4. watch' \in [Swaps -> WatchStates]
    BY <1>0, <2>1 DEF RestTypes, Attach, Watch, WatchStates, Refunds
  <2>5. faults' \in 0..MaxFaults BY <1>0, <2>1, FaultsCounted
  <2>6. RestTypes' BY <1>0, <1>5, <2>1, <2>4, <2>5 DEF RestTypes, given, outside
  <2>7. SwapInv' BY <1>0, <1>5, <2>1, SwapKept DEF given, outside
  <2> QED BY <1>4, <2>3, <2>6, <2>7, Whole
<1> QED BY <1>2, <1>7, <1>8

----------------------------------------------------------------------------
\* Everybody else.

LEMMA ProviderKeeps == ASSUME IInv, NEW s \in Swaps, Provider(s) PROVE IInv'
<1>0. RestTypes /\ WorkTypes /\ JobInv /\ SwapInv /\ TypeOK /\ TodoOK BY Known
<1>1. /\ UNCHANGED <<given, record, pc, revealed, unsaved, watch, work, todo, faults>>
      /\ \/ UNCHANGED <<status, lockup>> /\ expired' = expired \union {s}
         \/ /\ UNCHANGED expired
            /\ \/ /\ status[s] = "open" /\ lockup[s] = "published" /\ kind[s] # "reverse"
                  /\ status' = [status EXCEPT ![s] = "paid"]
                  /\ lockup' = [lockup EXCEPT ![s] = "provider"]
               \/ /\ status[s] = "open" /\ lockup[s] = "published" /\ kind[s] = "chain"
                  /\ status' = [status EXCEPT ![s] = "server"] /\ UNCHANGED lockup
               \/ /\ status[s] = "open" /\ kind[s] = "reverse" /\ pc[s] = "done" /\ BindsToUser(s)
                  /\ status' = [status EXCEPT ![s] = "server"]
                  /\ lockup' = [lockup EXCEPT ![s] = "published"]
               \/ /\ status[s] = "server" /\ status' = [status EXCEPT ![s] = "paid"]
                  /\ UNCHANGED lockup
               \/ /\ status[s] \in {"open", "server"} /\ pc[s] # "idle"
                  /\ status' = [status EXCEPT ![s] = "failed"] /\ UNCHANGED lockup
               \/ /\ kind[s] = "submarine" /\ status[s] = "failed" /\ lockup[s] = "wallet"
                  /\ status' = [status EXCEPT ![s] = "returned"] /\ UNCHANGED lockup
               \/ /\ kind[s] = "reverse" /\ lockup[s] = "published"
                  /\ lockup' = [lockup EXCEPT ![s] = "provider"] /\ UNCHANGED status
  BY DEF Provider, ProviderPays, ProviderLocks, ProviderSettles, ProviderFails, ProviderSeesRefund,
         ProviderReclaims, TimeoutPasses
<1>2. SwapOK(s) /\ kind[s] \in Kinds /\ terms[s] \in Offers(kind[s])
  BY <1>0 DEF SwapInv, RestTypes
<1>3. \A q \in Swaps : q # s => status'[q] = status[q] /\ lockup'[q] = lockup[q]
  BY <1>0, <1>1 DEF RestTypes
<1>4. kind[s] = "reverse" /\ BindsToUser(s) => terms[s] = "sound"
  BY <1>2 DEF Offers, BindsToUser
<1>5. Progress
  <2>1. status[s] = "paid" => status'[s] = "paid" BY <1>0, <1>1 DEF RestTypes
  <2>2. lockup[s] = "wallet" => lockup'[s] = "wallet"
    BY <1>0, <1>1, <1>2 DEF RestTypes, SwapOK
  <2> QED BY <1>1, <1>3, <2>1, <2>2 DEF Progress, given
<1>6. WorkTypes' /\ JobInv' /\ TodoOK' BY <1>0, <1>1, <1>5, WorkSame DEF TodoOK
<1>7. RestTypes' BY <1>0, <1>1 DEF RestTypes, given
<1>8. \A q \in Swaps : SwapOK(q)'
  <2>1. \A q \in Swaps : q # s => SwapOK(q)'
    BY <1>0, <1>1, <1>3 DEF SwapInv, SwapOK, BindsToUser, given
  <2>2. SwapOK(s)'
    BY <1>0, <1>1, <1>2 DEF RestTypes, SwapOK, BindsToUser, given
  <2> QED BY <2>1, <2>2
<1>9. KeyOutlivesLockup'
  BY <1>0, <1>1, <1>2, <1>3, <1>4 DEF RestTypes, SwapInv, SwapOK, KeyOutlivesLockup, given
<1> QED BY <1>6, <1>7, <1>8, <1>9, Whole DEF SwapInv

LEMMA CrashKeeps == ASSUME IInv, Crash PROVE IInv'
<1>0. RestTypes /\ WorkTypes /\ JobInv /\ SwapInv /\ TypeOK /\ TodoOK BY Known
<1>1. \A w \in Workers : work'[w] = Free BY DEF Crash
<1>2. WorkTypes' BY <1>1 DEF Crash, WorkTypes, Free, Places, ExecutePlaces, ClaimPlaces
<1>3. JobInv' BY <1>1 DEF JobInv, JobOK, Free, RefundPlaces
<1>4. TodoOK' BY DEF Crash, TodoOK
<1>5. RestTypes'
  <2>1. faults' \in 0..MaxFaults BY <1>0, FaultsCounted DEF Crash
  <2> QED BY <1>0, <2>1 DEF Crash, RestTypes, WatchStates, given, outside
<1>6. \A s \in Swaps : pc[s] # "idle" /\ pc[s] # "done" => kind[s] # "reverse"
  BY <1>0 DEF SwapInv, SwapOK, RestTypes
<1>7. SwapInv'
  BY <1>0, <1>6 DEF Crash, SwapInv, SwapOK, KeyOutlivesLockup, BindsToUser, RestTypes, given, outside
<1> QED BY <1>2, <1>3, <1>4, <1>5, <1>7, Whole

LEMMA DisposeKeeps == ASSUME IInv, Dispose PROVE IInv'
<1>0. RestTypes /\ WorkTypes /\ JobInv /\ SwapInv /\ TypeOK /\ TodoOK BY Known
<1>1. UNCHANGED <<given, record, pc, outside, unsaved, todo>> /\ Fault BY DEF Dispose
<1>2. Progress BY <1>1 DEF Progress, given, outside
<1>3. ASSUME NEW w \in Workers
      PROVE  \/ work'[w] = work[w]
             \/ /\ work[w].at \in ExecutePlaces
                /\ work'[w] = [at |-> "inert", swap |-> work[w].swap]
  BY <1>0 DEF Dispose, WorkTypes, ExecutePlaces
<1>4. WorkTypes'
  <2>1. ASSUME NEW w \in Workers PROVE work'[w] \in [at : Places, swap : Swaps \union {NoSwap}]
    <3>1. work[w] \in [at : Places, swap : Swaps \union {NoSwap}] BY <1>0 DEF WorkTypes
    <3>2. "inert" \in Places BY DEF Places, ExecutePlaces
    <3>3. [at |-> "inert", swap |-> work[w].swap] \in [at : Places, swap : Swaps \union {NoSwap}]
      BY <3>1, <3>2
    <3> QED BY <1>3, <3>1, <3>3
  <2>2. work' = [w \in Workers |-> work'[w]] BY DEF Dispose
  <2>3. \A w \in Workers : work'[w].at \in ExecutePlaces \union ClaimPlaces => w \in Tasks
    BY <1>0, <1>3 DEF WorkTypes
  <2>4. ASSUME NEW w \in Workers, work'[w].at \in Places \ {"free", "next"}
        PROVE work'[w].swap \in Swaps
    <3>1. CASE work'[w] = work[w] BY <1>0, <2>4, <3>1 DEF WorkTypes
    <3>2. CASE work[w].at \in ExecutePlaces /\ work'[w] = [at |-> "inert", swap |-> work[w].swap]
      <4>1. work[w].at \in Places \ {"free", "next"} BY <3>2 DEF Places, ExecutePlaces
      <4> QED BY <1>0, <3>2, <4>1 DEF WorkTypes
    <3> QED BY <1>3, <3>1, <3>2
  <2> QED BY <2>1, <2>2, <2>3, <2>4 DEF WorkTypes
<1>5. JobInv'
  <2>1. ASSUME NEW w \in Workers PROVE JobOK(work[w])'
    <3>1. CASE work'[w] = work[w] BY <1>0, <1>2, <3>1, JobStays
    <3>2. CASE work'[w] = [at |-> "inert", swap |-> work[w].swap]
      BY <3>2 DEF JobOK, RefundPlaces
    <3> QED BY <1>3, <3>1, <3>2
  <2> QED BY <2>1 DEF JobInv
<1>6. TodoOK' BY <1>0, <1>1 DEF TodoOK
<1>7. RestTypes'
  <2>1. faults' \in 0..MaxFaults BY <1>0, <1>1, FaultsCounted
  <2> QED BY <1>0, <1>1, <2>1 DEF Dispose, RestTypes, WatchStates, given, outside
<1>8. SwapInv' BY <1>0, <1>1, SwapKept DEF given, outside
<1> QED BY <1>4, <1>5, <1>6, <1>7, <1>8, Whole

LEMMA Step == ASSUME IInv, "chain" \notin Overlapped, [Next]_vars PROVE IInv'
<1>1. CASE UNCHANGED vars
  <2>0. RestTypes /\ WorkTypes /\ JobInv /\ SwapInv /\ TypeOK /\ TodoOK BY Known
  <2>1. WorkTypes' /\ JobInv' /\ TodoOK'
    BY <1>1, <2>0, WorkSame DEF vars, Progress, TodoOK
  <2>2. RestTypes' BY <1>1, <2>0 DEF vars, RestTypes
  <2>3. SwapInv' BY <1>1, <2>0, SwapKept DEF vars
  <2> QED BY <2>1, <2>2, <2>3, Whole
<1>2. ASSUME NEW s \in Swaps, Start(s) \/ Funding(s) \/ Watching(s) \/ Provider(s) PROVE IInv'
  BY <1>2, CreateKeeps, RefuseKeeps, ReceiveKeeps, FundKeeps, FundRefusedKeeps, NoteKeeps,
     WatchEndsKeeps, WatchActsKeeps, ProviderKeeps DEF Start, Funding, Watching
<1>3. ASSUME NEW w \in Workers, Refund(w) PROVE IInv'
  BY <1>3, RefundLooks, RefundProbesKeeps, RefundSends, RefundDefersKeeps, WorkerRemoves DEF Refund
<1>4. ASSUME NEW w \in Workers, ExecuteSteps(w) \/ ClaimSteps(w) PROVE IInv'
  BY <1>4, TaskLooks, ExecuteKeeps, ExecuteMarksKeeps, WorkerRemoves, ClaimSends
     DEF ExecuteSteps, ClaimSteps
<1>5. ASSUME NEW r \in Recoveries, Pass(r) PROVE IInv'
  BY <1>5, RecoverKeeps, TakeKeeps DEF Pass
<1> QED BY <1>1, <1>2, <1>3, <1>4, <1>5, CrashKeeps, DisposeKeeps DEF Next

LEMMA Initially == Init => IInv
<1> SUFFICES ASSUME Init PROVE IInv OBVIOUS
<1>1. RestTypes
  <2>1. NoRecord \in RecordSet BY DEF NoRecord, RecordSet, RecordStates
  <2> QED BY <2>1, BoundsAssumption DEF Init, RestTypes, WatchStates
<1>2. WorkTypes BY DEF Init, WorkTypes, Free, Places, ExecutePlaces, ClaimPlaces
<1>3. JobInv BY DEF Init, JobInv, JobOK, Free, RefundPlaces
<1>4. TodoOK BY DEF Init, TodoOK
<1>5. SwapInv BY DEF Init, SwapInv, SwapOK, KeyOutlivesLockup
<1> QED BY <1>1, <1>2, <1>3, <1>4, <1>5, Types DEF IInv

LEMMA Invariance == ASSUME "chain" \notin Overlapped PROVE Spec => []IInv
BY Initially, Step, PTL DEF Spec

\* Types, and which workers can do what, if recovery spares chain swaps that are being
\* funded.
THEOREM TypeCorrect == ASSUME "chain" \notin Overlapped PROVE Spec => []TypeOK
<1>1. IInv => TypeOK BY DEF IInv
<1> QED BY <1>1, Invariance, PTL

\* While a lockup can still be spent by the wallet its key is on disk, whatever fails,
\* crashes or overlaps, unless recovery meets a chain swap that is being funded.
THEOREM KeysOutliveLockups == ASSUME "chain" \notin Overlapped PROVE Spec => []KeyOutlivesLockup
<1>1. IInv => KeyOutlivesLockup BY DEF IInv, SwapInv
<1> QED BY <1>1, Invariance, PTL
=============================================================================
