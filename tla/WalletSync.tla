----------------------------- MODULE WalletSync -----------------------------
(***************************************************************************)
(* What the wallet knows of the chain: scans (sync/sync.ts), their cache   *)
(* and coverage floor (store/update-store.ts), receive addresses and deep  *)
(* rescans (wallet.ts), and the coordinator that decides when to scan      *)
(* (mcp/sync-coordinator.ts).                                              *)
(*                                                                         *)
(* A wollet is an LWK object in wasm memory: a set of transactions, and    *)
(* the addresses up to the last one used.  One scan runs at a time and     *)
(* concurrent callers join it.  A provider with waterfalls answers for all *)
(* addresses; another one stops at a gap of unused addresses, unless it is *)
(* told to go up to the floor the wallet has stored.  Scans run outside    *)
(* opMutex; address handouts, spends and rescans run inside it.  Which      *)
(* calls there are comes from the catalogue of the tools (WalletTools).    *)
(*                                                                         *)
(* A transaction <<i, "in">> pays address i, <<i, "out">> spends it.       *)
(***************************************************************************)
EXTENDS Naturals, FiniteSets, WalletTools

CONSTANTS
  Callers,     \* concurrent tool calls
  MaxIndex,    \* bound: addresses
  Gap,         \* unused addresses a degraded scan goes through (LWK's 20)
  Wollets,     \* bound: wollets in memory
  Histories,   \* what the chain may hold of a seed before this wallet is set up
  MaxFaults    \* bound: crashes and failed writes

Indices == 0..(MaxIndex - 1)
Txs == Indices \X {"in", "out"}

ASSUME BoundsAssumption == {MaxIndex, Gap} \subseteq Nat \ {0} /\ MaxFaults \in Nat
ASSUME HistoryAssumption == Histories \subseteq SUBSET Txs

None == "none"
ASSUME NoneAssumption == None \notin Callers \union Wollets

VARIABLES
  chain,      \* the wallet's transactions on the chain
  handed,     \* how often each address has been handed out
  nextIndex,  \* wallet.json: nextReceiveIndex
  memIndex,   \* ... as this process has last read it
  floor,      \* meta.json: scanToIndexHint
  stored,     \* updates/: what a replay of the persisted links shows
  main,       \* the wollet in use
  alive,      \* the wollets that have not been freed
  view,       \* the transactions each wollet knows
  scan,       \* the scan that holds the slot (syncPromise)
  zombies,    \* the wollets timed-out scans still borrow
  holder,     \* the caller inside opMutex
  call,       \* the callers, with what they have captured
  synced,     \* a refresh of this process succeeded: the coordinator's window may be open
  shown,      \* history: spends whose own refresh was reported done
  known,      \* history: the addresses finished scans have found used
  floorLost,  \* history: a fault, or a writer that read it too early, has hit the floor
  faults

outside == <<chain, handed>>
disk == <<nextIndex, floor, stored>>
memory == <<main, alive, view>>
engine == <<scan, zombies>>
past == <<shown, known, floorLost>>
vars == <<outside, disk, memIndex, memory, engine, holder, call, synced, past, faults>>

Scan(place, w) ==
  [at |-> place, on |-> w, floor |-> 0, due |-> {}, copy |-> 0,
   got |-> {}, before |-> {}, changed |-> FALSE]
NoScan == Scan("none", None)
ScanPlaces == {"none", "clear", "wipe", "rewrite", "hint", "ask", "apply",
               "cover", "raise", "persist", "metaRead", "metaWrite"}

Jobs == {"read", "spend", "sync", "address", "rescan"}
Call(place, j, w) == [at |-> place, job |-> j, on |-> w, index |-> 0, joined |-> FALSE]
NoCall == Call("idle", "read", None)
Inside == {"derive", "count", "bump", "raise", "refresh", "rescan", "rescanScan", "free"}
Places == {"idle", "before", "queue", "spent", "after"} \union Inside

Scans ==
  [at : ScanPlaces, on : Wollets \union {None}, floor : 0..MaxIndex, due : SUBSET Indices,
   copy : 0..MaxIndex, got : SUBSET Txs, before : SUBSET Txs, changed : BOOLEAN]
Calls ==
  [at : Places, job : Jobs, on : Wollets \union {None}, index : Indices, joined : BOOLEAN]

TypeOK ==
  /\ chain \subseteq Txs /\ known \subseteq Indices /\ shown \subseteq Txs /\ stored \subseteq Txs
  /\ handed \in [Indices -> Nat]
  /\ nextIndex \in 0..MaxIndex /\ memIndex \in 0..MaxIndex /\ floor \in 0..MaxIndex
  /\ main \in alive /\ alive \subseteq Wollets /\ zombies \subseteq Wollets
  /\ view \in [Wollets -> SUBSET Txs]
  /\ scan \in Scans
  /\ holder \in Callers \union {None}
  /\ call \in [Callers -> Calls]
  /\ synced \in BOOLEAN /\ floorLost \in BOOLEAN
  /\ faults \in 0..MaxFaults
  /\ \A c \in Callers : call[c].at \in Inside <=> holder = c

At(c, place) == call[c].at = place
Move(c, place) == call' = [call EXCEPT ![c].at = place]
Return(c) == call' = [call EXCEPT ![c] = NoCall]
\* The section is over, and the call with it.
Leave(c) == Return(c) /\ holder' = None
Fault == faults < MaxFaults /\ faults' = faults + 1
NoFault == UNCHANGED faults
Later(m, n) == IF m > n THEN m ELSE n

\* writeMeta from a copy of meta.json read some steps ago: it may undo a write
\* made since.
WriteFloor(n) == floor' = n /\ floorLost' = (floorLost \/ n < floor)

\* Once the floor is lost there is no promise to remember.
Record(S) == IF floorLost THEN {} ELSE S

\* readMeta: what cannot be read is an empty file.
FloorRead(n) ==
  \/ n = floor /\ NoFault /\ UNCHANGED floorLost
  \/ n = 0 /\ Fault /\ floorLost' = TRUE

-----------------------------------------------------------------------------
(* LWK and the providers, as sync.ts uses them                             *)

Used(s) == {tx[1] : tx \in s}

\* wollet.address(null): the index after the last one used.
NextUnused(s) == CHOOSE n \in 0..MaxIndex : /\ \A i \in Used(s) : i < n
                                            /\ n > 0 => n - 1 \in Used(s)

\* How far a degraded scan goes: past the floor, to the first gap.
IsGap(m) == \A i \in Used(chain) : ~(m <= i /\ i < m + Gap)
Reach(from) == CHOOSE n \in from..(from + MaxIndex) : IsGap(n) /\ \A m \in from..(n - 1) : ~IsGap(m)

\* What a provider answers a scan with this floor.
Answers(from) == {chain, {tx \in chain : tx[1] < Reach(from)}}

Init ==
  /\ chain \in Histories
  /\ handed = [i \in Indices |-> 0]
  /\ nextIndex = 0 /\ memIndex = 0 /\ floor = 0
  /\ stored = {}
  /\ main \in Wollets /\ alive = {main}
  /\ view = [w \in Wollets |-> {}]
  /\ scan = NoScan
  /\ zombies = {}
  /\ holder = None
  /\ call = [c \in Callers |-> NoCall]
  /\ synced = FALSE
  /\ shown = {} /\ known = {}
  /\ floorLost = FALSE
  /\ faults = 0

-----------------------------------------------------------------------------
(* The tools: a read or a spend is refreshed before, a spend after too     *)

\* The read is answered, or the spend goes on.
Refreshed(j) == IF j = "spend" THEN Call("queue", "spend", None) ELSE NoCall

\* A slot that becomes free goes to the rescan that waits for it.
SlotIsFree == scan.at = "none" /\ \A c \in Callers : ~At(c, "rescan")

\* sync(): a scan in flight is joined, or one begins on the wollet in use.
JoinOrScan ==
  \/ SlotIsFree /\ scan' = Scan("hint", main)
  \/ scan.at # "none" /\ UNCHANGED scan

\* before(): within ten seconds of a refresh nothing is scanned.  A deposit that
\* has settled is refreshed like a read, but always; wallet_sync goes past the
\* coordinator.
BeginRefreshed(c, j) ==
  /\ At(c, "idle")
  /\ \/ j \in {"read", "spend"} /\ synced /\ call' = [call EXCEPT ![c] = Refreshed(j)] /\ UNCHANGED scan
     \/ JoinOrScan /\ call' = [call EXCEPT ![c] = Call("before", IF j = "inflow" THEN "read" ELSE j, None)]
  /\ UNCHANGED <<outside, disk, memIndex, memory, zombies, holder, synced, past, faults>>

\* An address call captures the wollet before it queues.
BeginQueued(c, j) ==
  /\ At(c, "idle")
  /\ call' = [call EXCEPT ![c] = Call("queue", j, IF j = "address" THEN main ELSE None)]
  /\ UNCHANGED <<outside, disk, memIndex, memory, engine, holder, synced, past, faults>>

\* after(), once the spend has left its section.
After(c) ==
  /\ At(c, "spent")
  /\ JoinOrScan
  /\ call' = [call EXCEPT ![c].at = "after", ![c].joined = scan.at # "none"]
  /\ UNCHANGED <<outside, disk, memIndex, memory, zombies, holder, synced, past, faults>>

\* The section of a spend: a coin the wollet knows is spent, or the call throws
\* and there is no refresh.  (Its inner steps are in Withdraw and Guardrails.)
Spend(c) ==
  /\ At(c, "queue") /\ call[c].job = "spend"
  /\ holder = None
  /\ \/ \E i \in Indices :
          /\ <<i, "in">> \in view[main] /\ <<i, "out">> \notin chain
          /\ chain' = chain \union {<<i, "out">>}
          /\ call' = [call EXCEPT ![c].at = "spent", ![c].index = i]
     \/ UNCHANGED chain /\ Return(c)
  /\ UNCHANGED <<handed, disk, memIndex, memory, engine, holder, synced, past, faults>>

\* opMutex is granted.
Enter(c) ==
  /\ At(c, "queue") /\ call[c].job # "spend"
  /\ holder = None
  /\ holder' = c
  /\ Move(c, IF call[c].job = "address" THEN "derive" ELSE "rescan")
  /\ UNCHANGED <<outside, disk, memIndex, memory, engine, synced, past, faults>>

-----------------------------------------------------------------------------
(* getReceiveAddress() and deriveDepixPayCredential()                      *)

\* What a wollet knows is kept while it is in use or another call has captured it.
Forget(c) ==
  LET w == call[c].on IN
  view' = IF w = main \/ \E d \in Callers \ {c} : call[d].on = w
            THEN view ELSE [view EXCEPT ![w] = {}]

\* The index: the later of LWK's and the counter's.  A wollet that a rescan has
\* freed while the call was queued throws.
Derive(c) ==
  LET idx == Later(NextUnused(view[call[c].on]), memIndex) IN
  /\ At(c, "derive")
  /\ Forget(c)
  /\ IF call[c].on \in alive /\ idx < MaxIndex
       THEN /\ call' = [call EXCEPT ![c] = [Call("count", "address", None) EXCEPT !.index = idx]]
            /\ UNCHANGED holder
       ELSE Leave(c)
  /\ UNCHANGED <<outside, disk, memIndex, main, alive, engine, synced, past, faults>>

\* Faulty variant: the counter is kept in memory only.
CountInMemory(c) ==
  /\ At(c, "count")
  /\ memIndex' = Later(memIndex, call[c].index + 1)
  /\ handed' = [handed EXCEPT ![call[c].index] = @ + 1]
  /\ Leave(c)
  /\ UNCHANGED <<chain, disk, memory, engine, synced, past, faults>>

\* The counter is durable before the address is known to anybody; a write that
\* fails may have reached the disk.
Count(c) ==
  LET next == Later(nextIndex, call[c].index + 1) IN
  /\ At(c, "count")
  /\ \/ nextIndex' = next /\ NoFault /\ Move(c, "bump") /\ UNCHANGED holder
     \/ nextIndex' \in {nextIndex, next} /\ Fault /\ Leave(c)
  /\ UNCHANGED <<outside, floor, stored, memIndex, memory, engine, synced, past>>

\* bumpScanHint: a floor that is high enough is left alone.  Best effort.
Bump(c) ==
  /\ At(c, "bump")
  /\ \/ Move(c, IF call[c].index + 1 > floor THEN "raise" ELSE "refresh") /\ NoFault /\ UNCHANGED floorLost
     \/ Move(c, "refresh") /\ Fault /\ floorLost' = TRUE
  /\ UNCHANGED <<outside, disk, memIndex, memory, engine, holder, synced, shown, known>>

Raise(c) ==
  /\ At(c, "raise")
  /\ WriteFloor(call[c].index + 1)
  /\ Move(c, "refresh")
  /\ UNCHANGED <<outside, nextIndex, stored, memIndex, memory, engine, holder, synced, shown, known, faults>>

\* refreshFile, and the address is handed out; or the file is not read and the
\* call throws.
HandOut(c) ==
  /\ At(c, "refresh")
  /\ \/ NoFault /\ memIndex' = nextIndex /\ handed' = [handed EXCEPT ![call[c].index] = @ + 1]
     \/ Fault /\ UNCHANGED <<memIndex, handed>>
  /\ Leave(c)
  /\ UNCHANGED <<chain, disk, memory, engine, synced, past>>

-----------------------------------------------------------------------------
(* rescanFromZero(), inside opMutex                                        *)

\* A leaked wollet's name is used again once nothing borrows it (a bound).
Unallocated == Wollets \ ({main, scan.on} \union zombies \union {call[c].on : c \in Callers})

\* rescan() waits for the scan in flight and claims the slot with a new wollet.
RescanClaims(c) ==
  /\ At(c, "rescan")
  /\ scan.at = "none"
  /\ \E w \in Unallocated :
       /\ alive' = alive \union {w}
       /\ call' = [call EXCEPT ![c].at = "rescanScan", ![c].on = w]
       /\ scan' = Scan("clear", w)
       /\ view' = [view EXCEPT ![w] = {}]
  /\ UNCHANGED <<outside, disk, memIndex, main, zombies, holder, synced, past, faults>>

\* Bound: too many wollets have been leaked for another one.
RescanGivesUp(c) ==
  /\ At(c, "rescan")
  /\ Unallocated = {}
  /\ Leave(c)
  /\ UNCHANGED <<outside, disk, memIndex, memory, engine, synced, past, faults>>

\* Faulty variant: the wollet that is no longer wanted is freed at once.
FreeAtOnce(c) ==
  /\ At(c, "free")
  /\ alive' = alive \ {call[c].on}
  /\ view' = [view EXCEPT ![call[c].on] = {}]
  /\ Leave(c)
  /\ UNCHANGED <<outside, disk, memIndex, main, engine, synced, past, faults>>

\* freeWolletSafely: the stale wollet after the swap, the new one if the rescan
\* failed.  While any timed-out scan goes on it is leaked.
Free(c) ==
  /\ At(c, "free")
  /\ alive' = IF zombies = {} THEN alive \ {call[c].on} ELSE alive
  /\ IF zombies = {} THEN view' = [view EXCEPT ![call[c].on] = {}] ELSE Forget(c)
  /\ Leave(c)
  /\ UNCHANGED <<outside, disk, memIndex, main, engine, synced, past, faults>>

-----------------------------------------------------------------------------
(* The scan in the slot                                                    *)

\* Faulty variant: the wollet of a rescan is swapped in although it failed.
InUseAnyway(ok) == IF \E c \in Callers : At(c, "rescanScan") THEN scan.on ELSE main

\* A rescan that has succeeded swaps its wollet in.
InUse(ok) == IF ok /\ \E c \in Callers : At(c, "rescanScan") THEN scan.on ELSE main

\* The promise settles for everyone who awaits it, and the slot is free; after()
\* never throws.
SettleFor(ok) ==
  LET refreshed == {c \in Callers : At(c, "after") /\ ~call[c].joined}
      unwanted == IF InUse(ok) = main THEN scan.on ELSE main
  IN
  /\ call' = [c \in Callers |->
       CASE At(c, "before") -> Refreshed(call[c].job)
         [] At(c, "after") -> NoCall
         [] At(c, "rescanScan") -> Call("free", "rescan", unwanted)
         [] OTHER -> call[c]]
  /\ main' = InUse(ok)
  /\ synced' = (synced \/ (ok /\ \E c \in Callers : call[c].at \in {"before", "after"} /\ call[c].job # "sync"))
  /\ shown' = Record(IF ok THEN shown \union {<<call[c].index, "out">> : c \in refreshed} ELSE shown)
  /\ known' = Record(IF ok THEN known \union Used(view[scan.on]) ELSE known)
  /\ scan' = NoScan

ScanOn(next) == scan' = next /\ UNCHANGED <<main, call, synced, shown, known>>
ScanGoto(place) == ScanOn([scan EXCEPT !.at = place])

\* Faulty variant: the deep rescan drops the floor with the cache.
ClearAll ==
  /\ scan.at = "clear"
  /\ stored' = {}
  /\ ScanGoto("wipe")
  /\ UNCHANGED <<outside, nextIndex, floor, memIndex, alive, view, zombies, holder, floorLost, faults>>

\* clearForRescan: the floor is read, the cache removed with the floor, and the
\* floor written back.
Clear ==
  /\ scan.at = "clear"
  /\ stored' = {}
  /\ \E n \in 0..floor : FloorRead(n) /\ ScanOn([scan EXCEPT !.at = "wipe", !.copy = n])
  /\ UNCHANGED <<outside, nextIndex, floor, memIndex, alive, view, zombies, holder>>

Wipe ==
  /\ scan.at = "wipe"
  /\ floor' = 0
  /\ ScanGoto("rewrite")
  /\ UNCHANGED <<outside, nextIndex, stored, memIndex, alive, view, zombies, holder, floorLost, faults>>

Rewrite ==
  /\ scan.at = "rewrite"
  /\ floor' = scan.copy
  /\ ScanOn([scan EXCEPT !.at = "hint", !.copy = 0])
  /\ UNCHANGED <<outside, nextIndex, stored, memIndex, alive, view, zombies, holder, floorLost, faults>>

\* One of the three fails: so does the rescan.
ClearFails ==
  /\ scan.at \in {"clear", "wipe", "rewrite"}
  /\ Fault
  /\ floorLost' = (floorLost \/ scan.at = "rewrite")
  /\ SettleFor(FALSE)
  /\ UNCHANGED <<outside, disk, memIndex, alive, view, zombies, holder>>

\* The addresses a scan that begins now should reach (history).
Due == Record({i \in Indices : handed[i] > 0} \union known)

\* syncInner reads the floor once.
Hint ==
  /\ scan.at = "hint"
  /\ \E n \in 0..floor : FloorRead(n) /\ ScanOn([scan EXCEPT !.at = "ask", !.floor = n, !.due = Due])
  /\ UNCHANGED <<outside, disk, memIndex, alive, view, zombies, holder>>

\* A provider answers, in the worker or inline.
Ask ==
  /\ scan.at = "ask"
  /\ \E answer \in Answers(scan.floor) : ScanOn([scan EXCEPT !.at = "apply", !.got = answer])
  /\ UNCHANGED <<outside, disk, memIndex, alive, view, zombies, holder, floorLost, faults>>

\* The next provider of however many, or ESPLORA_UNAVAILABLE after the last.
Rotate == ScanOn([scan EXCEPT !.at = "ask", !.copy = 0]) \/ SettleFor(FALSE)

\* A provider fails; one that times out inline goes on in wasm, borrowing the wollet.
AskFails ==
  /\ scan.at = "ask"
  /\ Rotate
  /\ zombies' \in {zombies, zombies \union {scan.on}}
  /\ UNCHANGED <<outside, disk, memIndex, alive, view, holder, floorLost, faults>>

\* applyUpdate.  What becomes of transactions a truncated scan did not reach is
\* LWK's: kept or dropped.  Without an update only the times are written.  An
\* update of the worker that does not apply is asked for again, inline.
Apply ==
  LET w == scan.on IN
  /\ scan.at = "apply"
  /\ \/ /\ view' \in {[view EXCEPT ![w] = scan.got], [view EXCEPT ![w] = @ \union scan.got]}
        /\ ScanOn([scan EXCEPT !.at = "cover", !.got = {}, !.due = {}, !.floor = 0,
                                !.before = view[w], !.changed = TRUE])
     \/ /\ scan.got = view[w] /\ UNCHANGED view
        /\ ScanOn([scan EXCEPT !.at = "metaRead", !.got = {}])
     \/ UNCHANGED view /\ ScanOn([scan EXCEPT !.at = "ask", !.got = {}])
  /\ UNCHANGED <<outside, disk, memIndex, alive, zombies, holder, floorLost, faults>>

\* recordScanCoverage is over: the link is persisted, or the scan is over too.
Covered == IF scan.changed THEN ScanGoto("persist") ELSE SettleFor(TRUE)

\* recordScanCoverage: the bump compares with the floor it reads; best effort.
Cover ==
  LET next == NextUnused(view[scan.on]) IN
  /\ scan.at = "cover"
  /\ \/ next > floor /\ ScanGoto("raise") /\ NoFault /\ UNCHANGED floorLost
     \/ next <= floor /\ Covered /\ NoFault /\ UNCHANGED floorLost
     \/ Fault /\ floorLost' = TRUE /\ Covered
  /\ UNCHANGED <<outside, disk, memIndex, alive, view, zombies, holder>>

RaiseFloor ==
  /\ scan.at = "raise"
  /\ WriteFloor(NextUnused(view[scan.on]))
  /\ Covered
  /\ UNCHANGED <<outside, nextIndex, stored, memIndex, alive, view, zombies, holder, faults>>

\* putUpdate: a link whose predecessor is not on disk is never replayed.
Persist ==
  /\ scan.at = "persist"
  /\ \/ stored' = (IF stored = scan.before THEN view[scan.on] ELSE stored) /\ NoFault
     \/ UNCHANGED stored /\ Fault
  /\ ScanOn([scan EXCEPT !.at = "metaRead", !.before = {}])
  /\ UNCHANGED <<outside, nextIndex, floor, memIndex, alive, view, zombies, holder, floorLost>>

\* writeMeta of the times: the whole file is read, and written with what was read.
MetaRead ==
  /\ scan.at = "metaRead"
  /\ \E n \in 0..floor : FloorRead(n) /\ ScanOn([scan EXCEPT !.at = "metaWrite", !.copy = n])
  /\ UNCHANGED <<outside, disk, memIndex, alive, view, zombies, holder>>

MetaWrite ==
  /\ scan.at = "metaWrite"
  /\ WriteFloor(scan.copy)
  /\ IF scan.changed THEN SettleFor(TRUE) ELSE ScanGoto("cover")
  /\ UNCHANGED <<outside, nextIndex, stored, memIndex, alive, view, zombies, holder, faults>>

\* It fails: after an update it is tried once more or given up, without one the
\* provider is taken to have failed.
MetaFails ==
  /\ scan.at = "metaWrite"
  /\ Fault
  /\ IF scan.changed THEN SettleFor(TRUE) \/ ScanGoto("metaRead") ELSE Rotate
  /\ UNCHANGED <<outside, disk, memIndex, alive, view, zombies, holder, floorLost>>

-----------------------------------------------------------------------------
(* What happens around them                                                *)

\* A payer pays an address that was handed out.
Payment(i) ==
  /\ handed[i] > 0
  /\ chain' = chain \union {<<i, "in">>}
  /\ UNCHANGED <<handed, disk, memIndex, memory, engine, holder, call, synced, past, faults>>

\* A timed-out scan settles; its result is not applied.
ZombieSettles(w) ==
  /\ zombies' = zombies \ {w}
  /\ UNCHANGED <<outside, disk, memIndex, memory, scan, holder, call, synced, past, faults>>

\* The process dies and is started again: the wollet is what the cache replays.
Crash ==
  /\ Fault
  /\ memIndex' = nextIndex
  /\ alive' = {main}
  /\ view' = [w \in Wollets |-> IF w = main THEN stored ELSE {}]
  /\ scan' = NoScan
  /\ zombies' = {}
  /\ holder' = None
  /\ call' = [c \in Callers |-> NoCall]
  /\ synced' = FALSE
  /\ shown' = {}
  /\ floorLost' = (floorLost \/ scan.at = "rewrite")
  /\ UNCHANGED <<outside, disk, main, known>>

Begin(c) ==
  \/ \E j \in {"read", "spend", "inflow", "sync"} \cap CallKinds : BeginRefreshed(c, j)
  \/ \E j \in {"address", "rescan"} \cap CallKinds : BeginQueued(c, j)
Step(c) ==
  \/ Enter(c) \/ Spend(c) \/ After(c)
  \/ Derive(c) \/ Count(c) \/ Bump(c) \/ Raise(c) \/ HandOut(c)
  \/ RescanClaims(c) \/ RescanGivesUp(c) \/ Free(c)

Scanning ==
  \/ Clear \/ Wipe \/ Rewrite \/ ClearFails \/ Hint \/ Ask \/ AskFails \/ Apply \/ Cover
  \/ RaiseFloor \/ Persist \/ MetaRead \/ MetaWrite \/ MetaFails

Next ==
  \/ \E c \in Callers : Begin(c) \/ Step(c)
  \/ Scanning
  \/ \E i \in Indices : Payment(i)
  \/ \E w \in zombies : ZombieSettles(w)
  \/ Crash

Spec == Init /\ [][Next]_vars

-----------------------------------------------------------------------------
(* Properties                                                              *)

\* "Zero on-chain reuse": no address is handed out twice, by concurrent calls,
\* beside a rescan, after a failed write or a crash.
AddressesAreFresh == \A i \in Indices : handed[i] <= 1

\* "A gap_limit=20 walk can never miss history below this depth": whatever
\* provider answers, a scan or rescan finds what is on the chain at every address
\* that was handed out, or that a scan had found used, when it began: also after a
\* restart and with the cache gone.  It takes a floor that neither a fault nor a late writer
\* has lowered: scans and address calls write meta.json at the same time.
ScansMissNothing ==
  [][scan.at = "ask" /\ scan'.at = "apply" =>
       \/ floorLost
       \/ {tx \in chain : tx[1] \in scan.due} \subseteq scan'.got]_vars

\* "Refresh so the very next read reflects it": the wollet in use shows every
\* spend whose own refresh was reported done, through rescans and later scans.  A
\* refresh that joins a scan begun before the spend does not promise this.
RefreshShowsSpend == floorLost \/ shown \subseteq view[main]

\* Freeing a wollet a scan still borrows is "the null pointer passed to rust
\* crash class": neither the scan in the slot nor one that timed out has lost its.
NoFreedWolletIsScanned ==
  /\ zombies \subseteq alive
  /\ scan.at # "none" => scan.on \in alive
=============================================================================
