# TLA+ specifications of the DePix wallet engine and gateway

`depix-mcp` is an MCP server that gives an agent a payment gateway (DePix over Pix) and, when
it runs on the user's machine, a Liquid wallet that signs inside the process. A server is one
Node.js process: every tool call is an async function, calls interleave at each `await`, and what
must survive a crash lies in a handful of files. Beside it an operator runs commands (`login`,
`logout`, `init`, `backup`) that change the same files. There is no database and no second node;
what makes the code hard is money that moves between two durable writes, answers of remote
services that get lost, recovery that runs beside the call it recovers, keys that exist in exactly
one record, and files that change under the process that has read them.

The specifications model those parts. TLC checks each of them on a small instance, and TLAPS
proves all the safety properties of the passing runs for every value of the constants; what is left to TLC alone
is liveness.

Paths below are relative to `src/src/`, and `we/` stands for `src/src/wallet-engine/`.

| modules | code | what they model |
|---|---|---|
| `Guardrails`, `GuardrailsProofs` | `we/guardrails/guardrails.ts`, the callers in `we/wallet.ts` | the rolling spending cap and its two durable writes |
| `OpMutex`, `ExclusiveSection`, `OpChain` | `we/mutex.ts`, the sections of `we/wallet.ts` | the promise chain that serializes operations; implements `ExclusiveSection` |
| `DirLock`, `Lifecycle`, `LifecycleProofs` | `we/store/dir-lock.ts`; `we/wallet.ts` (open, create, restore, close), `we/store/seed-store.ts`, `unlock-store.ts`, `we/mcp/init-flow.ts`, `we/mcp/backup-flow.ts`, `we/backup-ritual.ts`, `stdio.ts`, `unified.ts` | the lock file, and the processes that open, make, confirm and close one wallet through it |
| `Withdraw`, `WithdrawProofs`, `PayoutLedger` | `we/wallet.ts`, `we/pending.ts` | withdrawals and their recovery; implements `PayoutLedger` |
| `Routes`, `Providers`, `Intent` | `we/convert/routes.ts`, `we/convert/boltz/providers.ts`, `we/convert/intent.ts` | the routes of a conversion, which backend creates its swap, `quote()` and `convert()` up to the caller's answer |
| `ConversionPlans`, `ConversionPlansProofs` | `we/convert/multihop.ts`, `plan-store.ts`, `continuation.ts` | conversions of several legs, their recovery, the count-once rule |
| `BoltzSwaps`, `BoltzSwapsProofs` | `we/convert/boltz/*.ts` | Lightning and stablecoin swaps: guards, funding, refunds, claims, recovery |
| `Market`, `Orders`, `OrderLog`, `ShopConfig`, `Desk` | `we/convert/sideswap*.ts`, `we/mcp/swap-streams.ts`, `we/convert/sideshift*.ts`, `we/giftcards/*.ts` | market swaps and their sockets, shifts, peg-outs, gift cards; `Desk` runs them on one `opMutex` (`OpChain`) |
| `WalletSync`, `WalletSyncProofs`, `WalletTools` | `we/sync/sync.ts`, `we/store/update-store.ts`, `we/wallet.ts`, `we/mcp/sync-coordinator.ts`, `we/mcp/server.ts`, `we/mcp/tools.ts` | scans, their cache and floor, rescans, receive addresses; how each wallet tool is wrapped |
| `Credentials`, `OwnerSession`, `AgentKeys`, `Accounts`, `AccountsProofs` | `credentials.ts`, `owner-*.ts`, `login-flow.ts`, `agent-*.ts`, `we/agent/*.ts`, `apiClient.ts` | the owner's session, the agent's keys, which of them a request presents, and the request with its retries; `Accounts` composes them |

`ConvertProofs` holds the proofs about `Desk` and `Intent`, `WithdrawProofs` those about `OpMutex` too. `MCxxx.tla`
instantiates a module for TLC; the `.cfg` of a run names its constants.

## 1. Inventory

**Guardrails.** State: an anchor sealed in `wallet.json` (was a window ever written, and its
epoch), `guardrails-state.json` with the entries of the window and their epoch, a write mutex.
`enforce` judges an intent against the per-transaction and 24 h limits, `recordSpend` stamps the
entry, advances the anchor, writes the file; every signing operation calls both inside `opMutex`.
Hard: the two writes are not atomic, the file may vanish or be an older copy, time passes between
the two calls. Correct when no rolling window sees more leave than the limit, the readout never
understates, and a gap between the writes closes the wallet rather than opens it.

**opMutex.** State: the tail of a promise chain. Correct when sections exclude each other and every
operation ends, also after a rejection.

**The data directory and the life of a wallet.** State: `.lock` with a pid and a boot id,
`wallet.json` (seed, salt, backup gate, receive counter), the unlock key in the credential store of
the system or in a file, and what each process has in memory. The server opens lazily and once;
`init`, `init --restore` and `backup` are dialogues a person may leave anywhere. Hard: create,
inspect, unlink and release of the lock are separate awaits of different processes; pids are
reused; the file is read before the lock is held. Correct when one live process holds the
directory, no seed is written over, the backup gate opens only for words on paper, and the key a
ceremony leaves behind opens the wallet.

**Withdrawals.** State: encrypted records `requested` and `signed`. A withdrawal is recorded, booked
by a POST with an idempotency key, signed, recorded with its bytes, broadcast, removed. Hard: every
await may be the last before a crash; the POST is retried by client and recovery; a broadcast
reported as failed may have got through; the API key may change. Correct when a withdrawal is paid
at most once, never after a refusal, and booked under one key.

**Routes, providers, conversions.** State: two answers shared by the process, which backend creates
Lightning swaps and whether stablecoin swaps are created, each with its time to live, and the walks
that find them out. Hard: walks, refusals and their late ends cross; a poll fails when money is in
flight. Correct when quotes are of routes that can be delivered, an answer is not trusted past its
time, and a result claims nothing of the money that is not so or may still change.

**Conversion plans.** State: one record per plan with the state and result of each leg.
`executeMultiHopRoute` claims a leg durably, executes it, waits, goes on; `resumeConversionPlans`
probes what a crash left and drives the rest or parks the plan for a human. Hard: recovery beside a
running conversion, failures that may or may not have moved money. Correct when no leg runs twice
or early, the value is counted, and once, and a plan concludes.

**Boltz swaps.** State: a record per swap holding the only copy of the key that refunds or claims
its lockup, a table of status watches, background tasks. Creation with the guards on the provider's
answer, funding, refund (cooperative, or after a timeout), execution of a stablecoin claim, claim of
a receive, `recover()`, `dispose()`. Correct when the record outlives the lockup, nothing is locked
on refused terms, and locked coins are delivered or come back.

**Market swaps, shifts, peg-outs, gift cards.** State: quote sockets that reconnect by themselves and
the registry that keeps them between a quote and its execution; two logs of orders; the cached kill
switch. Correct when each socket has somebody who will close it, a quote is swapped once and
counted before, what was paid can be found again, and no call waits for ever.

**Chain sync and receive addresses.** State: the wollet (a wasm object), the scan in flight that
callers join, timed-out scans that go on borrowing a wollet, the persisted chain of updates,
`meta.json` with the coverage floor, the receive counter. Hard: scans run outside `opMutex`,
address calls and rescans inside; a degraded provider stops at a gap unless given the floor.
Correct when no address is handed out twice, history below the floor is never missed, a reported
refresh is not undone, and no wollet is freed under a scan.

**Accounts.** State: `owner-session.json` with a refresh token good once, the token in memory and the single
flight of a renewal; the agent's identity, its vault of two keys and a pointer, and the chain of
vault operations; the selection file; the credential each request resolved. Hard: the authorization
server rotates, so that a lost answer or a second presentation ends the session; tools built from
several vault operations overlap; a request is repeated after failures that may have had an effect.
Correct when a live session is not lost by the program's own doing, no secret that was replaced
comes back, the server presents the key its vault names, and an effect happens once.

**Left out:** encryption of the stores and file primitives (a record that fails authentication is an
outcome of the models, a durable write is one step); the allowlist, the valuation and the
configuration of guardrails (pure; their verdict is an input); deposits, merchant, webhooks and
status (stateless calls); LWK (third party; modelled where it is used).

### How they interact

Tools call the engine through the wrappers of `WalletTools`. Operations that spend queue on
`opMutex`, ask `Guardrails`, sign with the coins of the last scan, record and broadcast. `Intent`
hands a route of several legs to `ConversionPlans`, which hands its legs to Boltz, SideSwap and
SideShift; these call back into the same hooks. `recover()` runs the recovery of withdrawals, plans
and swaps without `opMutex` and takes it only to sign. `SyncCoordinator` scans before reads and
spends and after spends. The data directory has one owner, the holder of `DirLock`; that assumption
(one process) is built into the modules of the engine. The files of `Accounts` have no lock.

## 2. What each module says

### Guardrails
A caller walks `queued`, `enforce`, `signing`, `advance`, `write`, `broadcast`, as the sections of
`wallet.ts` do; `advance` and `write` are the two durable writes of `recordSpend`. A spend of `k`
cents is `k` tokens stamped with time and epoch, so that "cents in a window" is a cardinality.
`StateFileChanges` lets the file vanish, be damaged or return from any copy ever sealed;
`Reinitialize` is a new seed. The allowlist and the valuation are a refusal.

`DailyCap`: in no window, whenever it ends, do the cents that left exceed the limit. `UsageHonest`:
`usage()` never understates. `GapIsPermanent`: an anchor ahead of every file closes the wallet until
a new seed. The clock only moves forward: it is `Date.now()` as the code reads it, and a clock set
forward and back again by hand is outside the model.

### OpMutex
A queue of callers stands for the promise chain, a kind of operation for the sections it opens, one
after the other or, for `pegIn`, one from within the other. `IsMutex` is the refinement of
`ExclusiveSection`; `EveryOperationEnds` is liveness for all operations but `pegIn`.

### DirLock and Lifecycle
In `DirLock` processes create, write, inspect, unlink and release the file in separate steps and die
between any two; pids are reused, the machine reboots, some processes cannot tell their boot.
`Contention` FALSE is the assumption that acquisitions do not overlap. `Lifecycle` extends it: each of
its actions is an action of `DirLock` together with what it does to `wallet.json`, the unlock key and
the memory of the process (`my`), or leaves the lock alone. `flow[p]` names the await a process
stands at. The operator is part of the model: what is on paper, what passphrase is typed, and
leaving at any prompt. Any number of ceremonies run beside each other and a server. Making a wallet is
three steps, as it is three awaits of `create` and `restore`: the look under the lock (`LookUnderLock`), the
derivation of the key, and the write (`Initialize`), which may fail with or without having written. Each command of
the credential store succeeds or fails by itself, so that a key may be saved to the file over an older entry of the
store (`StoreUnlockKey`), and a server may read either (`UnlockKeys`).

`OneHolder`; `SeedIsNeverReplaced` (what a maker saw under the lock still holds when it writes; its mutant trusts the
look taken before the prompts); `ConfirmedMeansOnPaper`; `CacheIsTheFile` (an open wallet works
with what is on disk, unless the file was written between its read and its lock, `my[p].late`);
`KeyOpensTheWallet` (the last ceremony that says the wallet starts on its own has left a key that opens it, unless
it says so of the file while the store still holds an older entry, which is read first: section 5);
`HeldOnlyByAWallet` (no abort or prompt keeps the directory).

### Withdraw
`file`, `booked` (the server), `published` and the coins the last scan knows. Threads are the
`withdraw` calls and the recoveries; `Overlap` FALSE makes a recovery run alone. A coin is what the
transaction spends: two transactions for one withdrawal differ in it. `NoDoublePay`,
`BookedUnderItsKey`, and `KeepsLedger`, the refinement of `PayoutLedger` (new, open, then paid or
refused, never both).

### Routes, Providers, Intent
`Routes` is the table as pure operators. `EnumerateRoutes` is the code's enumeration, `Chains` a
reference (entry, market and exit legs joined end to end, never twice at one place), and the
assumption `RoutesAreComplete` says that they agree for each of the 3300 selectors; TLC evaluates
it. In `Providers` time is counted in ticks of minutes, what only ages is an age, and a walk of
the list is a record with the index it probes and its outcome. A conversion asks twice, before it starts
and when it creates its swap. In `Intent` what the providers do with the money (`funds`) is their
choice, before a call answers and after; what the wallet says of it (`result`) is the code's. The completion of a
funded swap is what `we/convert/boltz/convert.ts` does until it resolves: a submarine's watch hears Boltz
(`SubmarineStatus`), cannot be started (`SubscribeThrows`) or runs a refund of its own (`RefundOne`, where the record may
be unreadable, gone or without keys and the broadcast may throw after it went out); a stablecoin swap is executed
(`ExecuteStablecoin`) and answers settled, pending or failed, nothing else; the timer of `awaitCompletion` may win
against either.

`QuotesAreDeliverable`, `TrustedForTheTTL` (except for the stablecoin route, section 5),
`EveryConvertAnswers`. `ResultsAreTrue`: settled and refunded are said of money that arrived and came back, and
stay true; a refund is pending, and a polled leg failed, only of money the provider gave up on; a failed submarine or
stablecoin swap has left the wallet and no more is claimed of it (section 5).

### ConversionPlans
Routes are sequences of leg kinds; `counted` is what the guardrails see. A plan is claimed leg by leg
(`Claim`), handed to its provider (`HandOver`), waited for; a recovery reads all records once and
takes them one by one (`Take`, `ResumeAt`), probing the leg in flight.

`LegsOnceInOrder`, `NeverUncounted`, `CountedOnce` (for routes without a lockup leg, section 5),
`NoteIsExact` (what a parked plan tells its reader to repeat by hand was never handed over),
`EveryPlanConcludes`.

### BoltzSwaps
The record, the lockup on the chain, the provider's status, the status watch and the work of tasks
and recoveries, step by await. `terms` is what the provider's answer is worth, and each guard of the
code refuses some of it at its place. `KeyOutlivesLockup` and `NoLockupIsStranded`. A receive the
provider settles is out of `KeyOutlivesLockup` (section 5), and so is the overlap of a recovery with
the funding of a chain swap (`Overlapped`).

### Market, Orders, Desk
`Market` has a quote call, its client with socket, reconnect timer and subscription, the registry
with its time to live, and executions. `Orders` gives each kind of operation its sequence of awaits
(`Flow`); the status of an order is a number that grows at its provider. `OrderLog` is the bounded
log file and `ShopConfig` the cached kill switch with its shared fetch. `Desk` composes both
on one `OpChain` and adds the stop of the process.

`SocketsAreOwned`, `EveryStreamIsReleased`, `OneCountedSwapPerQuote`, `PaidOrdersAreTracked`,
`StatusNeverGoesBack`, `EveryCallEnds`. `SectionsExclude` says that the desk as a whole is an
`ExclusiveSection`: the sections of market swaps and of orders never overlap. It is proved and no run
lists it; TLC found it to hold on the instance of `Desk.cfg`.

### WalletSync and WalletTools
A wollet is a set of transactions, `<<i, "in">>` pays address `i` and `<<i, "out">>` spends it. The
scan in the slot is one record (`scan`): where it stands, the wollet it is on, the floor it read, the
copy of `meta.json` it will write back. A provider answers with the whole chain or with what lies
before the first gap past the floor. What a caller may ask for comes from the catalogue of
`WalletTools`: its wrapper decides what is scanned before and after, its operation what happens to
the wallet.

`AddressesAreFresh`, `ScansMissNothing` (all that was handed out or known used when a scan began is
in its answer, whoever answers, after a rescan or restart too), `RefreshShowsSpend`,
`NoFreedWolletIsScanned`. How many providers there are is left open, and one index of LWK's gap of
twenty stands for all (`Gap`).

### Credentials, OwnerSession, AgentKeys, Accounts
A workload is a machine as it is found (environment key, login, agent account, selection) and the
calls made together on it. `Credentials` is the ladder; `OwnerSession` has pairs of tokens `<<f, n>>`,
the n-th of login `f`, one `flight` in the server, and login commands with their port and redirect;
`AgentKeys` has the vault, the chain of its operations (`vaultOp`) and the tools built from them. A tool that
changes the vault saves it (`SaveVault`), reads it back (`ReadBack`) and hands what it read to the resolver
(`SetActiveKey`), three steps with awaits in between, the first two of which may fail; requests read the resolver at any of them.
`Accounts` adds the request: its credential, attempts, renewal and effect.

`OnlyALostRotationIsSpentTwice`, `NoKeyIsWrittenBack`, `EffectsOnce`, `EveryRequestEnds`. `ServesTheVault`: when no
tool stands between its save and its swap (`Unpresented`), and none has failed there (`staleKey`), the server presents
the key its vault names. It is the chain that makes it true: a second tool that saved in between would have its key
replaced in the resolver by the older one, as the mutant, which lets it, shows.

## 3. The runs

| run | instance | states | shows |
|---|---|---|---|
| `guardrails` | 2 callers, amounts 0..3, limits 2 and 3, window 2, time to 4, 3 epochs | 232,382 | the cap holds through crashes, lost files and concurrent operations |
| `op_mutex` | 3 callers, the flat operations | 375 | exclusion and termination |
| `op_mutex_peg_in` | 2 callers, `pegIn` too | | termination fails (section 5) |
| `lifecycle` | a server, `init` or `backup` beside an `init` or `restore` that cannot tell its boot, 2 pids, 2 boots, 2 seeds, 2 passphrases, no contention | 5,701,236 | one holder, no seed replaced by whoever made a wallet meanwhile, nothing confirmed without paper, the key opens the wallet |
| `withdraw` | 2 withdrawals, 1 recovery alone, 2 coins, a live and a test key | 334,227 | paid once, never after a refusal, under its own key |
| `withdraw_overlap` | 1 withdrawal, 1 recovery beside it | | paid twice (section 5) |
| `convert` | every quote alone, conversions of every leg, pairs that share the probed answers, 2 switches of a backend | 1,883,486 | quotes can be delivered, answers are fresh, results are true and stay so, every call answers |
| `plans` | 1 plan on a route of each shape, overlapped or not, 1 recovery, 4 faults | 25,934 | once, in order, counted once, concluded |
| `boltz` | 1 swap of each kind on every terms, 1 recovery, 2 tasks, 3 faults | 86,519 | the key outlives the lockup, nothing is stranded |
| `desk` | 5 workloads: a quote with 2 executions; a swap and a peg-out; 2 shifts and a poll; a card and 2 polls; 2 cards and a switch-off | 127,212 | sockets, quotes, orders and logs as above, every call ends |
| `wallet_sync` | 2 callers, 2 addresses, gap 1, 2 wollets, 1 fault, a restored seed | 7,711,216 | addresses, floor, refresh, wollets |
| `accounts` | 16 workloads of 2 or 3 calls on 4 kinds of machine, 3 attempts, 3 faults | 221,132 | session, vault and effects as above, every request ends |

Type invariants are not among the properties of the runs: each is a theorem (section 4), and holds on the instances
above when added to them as an invariant.

### Why the bounds are enough
*Guardrails*: with a limit of three cents and amounts to three, two spends in one window already
exceed it, a window of two ticks lets entries grow old one by one, and two callers are what a race
needs; three epochs allow a gap, an older copy and a recovery. *OpMutex*: three callers give a
queue with a middle. *Lifecycle*: two pids for two processes allow reuse; one reboot distinguishes
the boots; two tries let a prompt fail and succeed; a second seed and passphrase are what a
replacement needs. Each slot starts its commands again and again, so that two ceremonies meet, or a ceremony and a
server; a third would repeat what the second does, since one holds the lock and the others stand before it. *Withdraw*: two coins are what a second payment
needs, two withdrawals let a recovery carry one list of two; a second live key adds no case.
*Intent*: a quote and a single conversion share nothing, so one at a time is complete; only the calls that
meet at the providers are taken in pairs. *ConversionPlans*: four faults let each of claim,
hand-over, record and removal fail once. *BoltzSwaps*: three faults suffice for a lost answer, a
failed write and a crash of one swap. *Desk*: each workload holds the actors that matter to one
kind of operation, two log entries fill the bounded log, one reconnect and two drops exhaust the
retries. *WalletSync*: with a gap of one, a payment to address 1 is already beyond it; one fault is a
crash, or a failed write or read; two addresses let both be handed out and paid. *Accounts*: three attempts are the code's own
number; three faults lose an answer, a write and a process in one behaviour.
Swaps, plans and wollets of one kind do not interact but through the lists recovery reads, which is
why one of each suffices in two of the modules.

`CHECK_DEADLOCK FALSE` is used where all work may be done: plans, swaps, orders, conversions and
calls are over and the faults are spent. The peg-in run really does stop.

### Fairness
Weak fairness of the steps of a call that has started, everywhere: Node runs a continuation that is
ready, and what it awaits (a network call with a timeout, the disk) settles. Beyond that: in
`plans`, of a recovery pass (the agent calls `recover()` again, and each start does) and of
providers ending their orders; in `boltz`, of funding, watching, background work and passes, of the
provider failing a swap and of the timeout height passing, and strong fairness of the timeout refund,
which needs a broadcast that may fail now and then but not for ever; in `desk`, of the timers of
sockets and of the registry; in `accounts`, of the renewal in flight; in `convert`, of probes, which
are cut off after eight seconds. No fairness is assumed of faults, payers, operators or new calls.
`guardrails`, `lifecycle`, `withdraw` and `wallet_sync` check safety only.

## 4. What is proved

TLAPS checks every leaf of the proofs; nothing is assumed but the `ASSUME`s on the constants
(their types, disjointness, that bounds and times are numbers and workloads name known kinds of call) and the
hypotheses in the theorems themselves.

* `GuardrailsProofs`: `TypeCorrect`, `CapHolds`, `UsageIsHonest`, `GapStays`, for any callers,
  limits, window and bounds. `DailyCap` is not inductive: a spend that fits when it is judged must
  still fit when it leaves, after others have recorded, files have changed and time has passed. The
  invariant `IInv` adds that one operation is inside (`OneInside`), that a current file contains all
  that was sent (`CurrentFileKnows`) and was once written (`FileWasWritten`), that the buffer between
  the two writes does too (`BufferKnows`), and that what was admitted fits next to what was sent at
  every later time (`AdmittedFits`, `StampedFits`). Cardinalities are handled by three lemmas
  (`EntrySize`, `SmallerSet`, `UnionSize`), and there is one lemma per group of actions.
* `LifecycleProofs`, about the lock file: `TypeInvariance`, and `SingleHolder` under `~Contention`. The
  invariant `Custody` says that a holder's file is the one at the path and nobody is about to unlink it.
  `LifeImplementsDirLock`: every step of a server or a ceremony is a step of `DirLock` or leaves the lock
  alone, so that `WalletsHaveOneHolder` follows for the processes of the wallet.
  About the wallet: `LifeTypeInvariance` and `OnlyAWalletHolds`, for any processes, boots, seeds and passphrases,
  contention included; `SeedIsKept`, `ConfirmedIsOnPaper`, `TheKeyOpens` and `TheCacheIsTheFile` under `~Contention`.
  They stand on one invariant, `LifeInv`: the types, a process has a copy of the file only when there is one
  (`FileIsThere`; without it not even the types are inductive, since a save writes the copy back), each await belongs to a
  state of the lock (`Placed`) and to a kind of process (`Roles`). Ceremonies may cross at every await, and a maker looks
  and writes in different steps: what it saw still holds because whoever makes, opens or closes a wallet is alone
  with the file (`AloneWithTheFile`, from `WalletsHaveOneHolder`), so every copy has the seed of the file and what
  the check found is still so when the key is derived (`Sealed`). The other theorems add to `Sealed` what they need: the
  words a ceremony has shown are on paper (`OnPaper`); it knows the passphrase of the file while it holds the
  directory and then, as the salt tells, until the wallet is encrypted anew by another (`KnownKey`); a copy that is not
  late is the file (`CopiesAreCurrent`).
* `WithdrawProofs`: `TypeCorrect`; `PaidOnce` and `ImplementsLedger` under `~Overlap`; `KeyKept` without it. The invariant
  `Pledge` ties each thread and each record to what was published: an unsigned record has no
  transaction, a signed one names the only coin that may carry it, and a recovery works on a record
  nobody else drives. For the key it is enough that a record keeps the key it was made with and that
  each POST is made under its record's (`KeyInv`). `ImplementsLedger` is the refinement of
  `PayoutLedger`: on top of `Pledge`, a refused withdrawal is closed for good (`Closed`: no record, no
  thread and no item read by recovery is about it), and whoever is about to refuse one finds it unpaid
  (`RefusesUnpaid`).
  On the mutex the sections run on (`OpMutex`): `ChainTypeCorrect`, `ImplementsMutex`, for any callers and any kinds of
  operation, `pegIn` included, the chain implements `ExclusiveSection`. The invariant: whoever is inside heads the
  queue (`InsideHeads`).
* `WalletSyncProofs`: `TypeCorrect`, `AddressesFresh`, `WolletsSafe`, `ScansAreComplete`, `SpendsAreShown`, for any callers, addresses,
  wollets, histories and faults. An address is new because the counter this process has read is ahead
  of all that were handed out (`CounterIsAhead`), and what the one call in the section is about to
  hand out is past it and counted on disk (`PendingIsNew`). No wollet is freed under a scan because a
  rescan keeps the slot until its scan settles (`RescanHasSlot`), and frees what is neither in use
  nor being scanned (`FreeIsUnwanted`).
  The last two need a second invariant (`Promised`): the floor is above all that was handed out or known used, but for
  the address a call is about to raise it to and what the scan in flight has just found (`FloorCovers`); it is above
  every spend a scan owes its reader (`OwedIsCovered`); an unchanged scan read such a floor (`ScanReaches`), so
  that its answer has what it owes, and so has the wollet it is applied to (`ScanDelivers`). All of it is claimed
  only while no late writer or fault has lowered the floor (`floorLost`).
* `ConversionPlansProofs`: `LegsRunOnce`, `SpendingIsCounted`, `ValueIsCountedOnce`, `NotesAreExact`, for any plans, routes, recoveries and
  faults, recovery beside a running conversion included. What a driver or a recovery has read may be
  old; the proof needs no more than three stable facts. What a record calls settled has delivered,
  and stays so (`RecOK`); the record on disk never calls a leg unset that a provider has got (`PlanOK`); a
  claimed leg that no provider has got has one owner (`Apart`, `ThreadOK`). A leg is found unset only
  by whoever reads the fresh record under the store's mutex, which is why a stale reader claims nothing.
  For the counting, the first leg that spends (`FirstSpends`) is never exempt, so a later leg that is
  finds the value counted. That invariant lets a stale reader believe anything, which is enough for the first two
  theorems and too little for the others: an invariant on top of it, `Finer`, also says where the record on disk
  stands. While `convert()` runs its first leg a recovery can only try to claim it or write a note (`FirstLegOf`);
  a counted leg is not unset, so nobody comes to count it again (`CountsOf`); where recovery ran apart, what it has read is
  what is stored (`Alone`), and a note names the last leg handed over (`NotesOf`).
  `TypeCorrect` is about what a thread has read, too: a copy of a record keeps the shape of its plan's route (`Shaped`).
* `BoltzSwapsProofs`: `TypeCorrect`, `KeysOutliveLockups`, for any swaps, recoveries, tasks and faults,
  under the hypothesis that no recovery meets a chain swap being funded. The six removals are safe for
  reasons spread over the funding call, the provider's status and the work under way: `SwapInv` and
  `JobInv` say them.
* `AccountsProofs`: `NoDoubleEffect`, `VaultIsServed`, `KeysStayReplaced`, `SpentOnlyIfLost`, for any
  calls, machines, attempts and faults. A request that may still be sent and cannot be repeated has had
  no effect. The tool that operates on the vault is the head of the chain, and what it read, to write from it or to
  present it, is what is there (`HeadIsCurrent`): no key comes back (`KeysAreNew`), and the key handed to the resolver is
  the one of the vault as it is then, though three awaits lie between save and swap; one renewal
  is in flight, it read the file behind its gate (`RenewsTheFile`), the pairs that login commands have yet to
  save are of other logins (`UnsavedAreApart`), and every other spent token was lost (`SpentAreLost`).
  `NobodyIsForgotten`: whoever awaits a renewal is among those the one in flight will tell, and a request is
  sent no more often than its attempts and its one renewal allow (`RenewalFits`).
  `AccountsTypeCorrect` rests on all of these, because which tokens and keys exist grows with the logins made and the
  keys minted: a token anybody remembers is of a login that was made (`TokensFit`), and what is presented, revoked or
  counted was minted, for an identity somebody created (`KeysFit`).
* `ConvertProofs`, about `Desk` and `Intent`.
  The orders: `PaidOrdersStayTracked`, and `PaidOrdersAreFound` and `RecordsGoForward` when no more orders exist than a
  log holds (`LogsHaveRoom`). `MAX_STORED_SHIFTS` and `MAX_STORED_ORDERS` cut the oldest record off, so both properties are
  false of longer histories, and the first theorem says what remains true of them: the record is there or
  the log is full. The flow of an operation fixes what it has done by the step it is at (`OrderFits`); a log says nothing
  its provider has not said (`LogFits`); an answer on its way is not older than the record unless two polls of
  the order raced (`PollFits`).
  The market: `EverySocketIsOwned`, `QuotesAreSwappedOnce`. A call has no client before it connects and hands it on to the
  registry, one execution or nobody (`CallFits`); two executions never have the same quote (`Apart`); what was not
  signed for is counted before it is (`ExecFits`).
  `DeskTypeCorrect`, of orders and market together: a call past `connect()` has a client, a subscription needs one
  (`ClientFits`), and no log or counter passes its bound (`OrderBounds`, `LogSize`).
  Both together: `SectionsNeverOverlap`, for any calls, executions and operations (`DeskAssumption` only keeps them
  apart). Whoever waits for its section or is inside it is on the chain once, and whoever is inside is its head
  (`ChainFits`); a step joins, enters, departs, empties the chain or leaves it alone (`ChainMoves`), and each of
  these is a step of the mutex. `NobodyWaitsForNobody`: nobody on the chain is over, so that no call waits behind
  one that left.
  The kill switch: `TheSwitchIsObeyed`. Once the shop is off and no older answer that says "on" is on its way, no card
  passes the gate after `CacheTtl` (`OffSince`, `OnlyAShopThatSellsSells`). There is no bound from the switch itself:
  the timeout of the fetch ends when the headers of the answer arrive (`giftcards/config.ts:129-147`) and its
  body may take any time. `ShopAssumption` says that the time to live is a number.
  The intents: `QuotesAreOfOpenRoutes`, `ResultsSayWhatHappened`, `AnswersAreFresh`, for any callers, workload and time to live.
  Each place in the code is reached by the methods that belong there, with the money where they leave it, and the wallet's
  own refund begins only after the provider gave up (`LegFits`): what it then says cannot be undone by a later fate. An
  answer is fresh because what a kept walk or probe says was so no longer ago than its age tells
  (`AnswersKept`), it is joined only before the time to live, and the clock does not pass it while a call
  still waits to hear it (`Awaited`). `IntentTypeCorrect`: the length of a route is what its place in the
  code says (`RouteFits`), only a route of one leg moves money there, and a call is done when it has answered.

Two definitions changed because a proof did not go through. A call that waited for a walk while the
operator pinned a backend was judged by the pin of the moment it heard the answer, although the promise it holds was
made before; `Heard` now goes by what the call awaits. `Save` of `OrderLog` takes the record out with
`RemoveAt`, where it filtered with a recursive operator no proof can unfold; the record is there once at most.

The hypotheses are necessary. `withdraw_overlap` shows the property violated without its own; two
processes that start together on a stale lock can both hold the directory with `Contention` TRUE; and
`KeyOutlivesLockup` fails with "chain" in `Overlapped`.

Model-checked only: liveness (`EveryOperationEnds`, `EveryPlanConcludes`, `NoLockupIsStranded`, `EveryStreamIsReleased`,
`EveryCallEnds`, `EveryConvertAnswers`, `EveryRequestEnds`), since fairness and ENABLED are outside the prover's reach. What a recursive
definition computes for every input could not be proved either (induction theorems with an operator
parameter); no module here depends on one, and none declares a RECURSIVE operator. That the routes are the right ones is a
finite fact, which TLC evaluates in full. Of two of the liveness properties a half is safety and proved: what waits
is waiting for somebody who is there to end the wait (`NobodyWaitsForNobody`, `NobodyIsForgotten`); that they get to it
is fairness, and TLC's.

## 5. Where the code and its words part

Two are runs that must find their property violated, and findings of `PROJECT.json`:

* `op_mutex_peg_in`: `pegIn` asks for a receive address inside its own section (`we/convert/sideswap-peg.ts:292`). `opMutex` is not reentrant: the call and every later operation wait for ever.
* `withdraw_overlap`: `recover()` drives a record whose `withdraw()` still runs, and both sign.

The others were met while modelling. The models take the same steps as the code; where a property
excludes a behaviour, it says so.

Money and records:

* A plan that leaves through Boltz is counted twice against the daily limit: `lockupLbtc` calls `enforce` and `recordSpend` itself (`we/wallet.ts:1960`, `2010`) and never asks whether the plan was counted; `we/convert/multihop.ts:29-31` and `continuation.ts:4-7` say it is counted once. `CountedOnce` leaves such routes out.
* The provider's `invoice.settled` removes the claim key of a receive before the claim is broadcast (`we/convert/boltz/reverse.ts:542`, `convert.ts:953`, `1098`; the comment at `reverse.ts:419-420` has it the other way).
* The bound on a lockup's timeout is skipped when the chain height cannot be read (`assertTimeoutInBounds`).
* `recover()` beside a stablecoin swap that is about to be funded can drop its record first (`we/convert/boltz/convert.ts:831`).
* A 4xx that does not judge the request (a 429 that ends the retries, a 401) drops the record of a withdrawal that an earlier attempt has booked (`we/wallet.ts:2637`); the comment above says the server created nothing.
* A Lightning entry leg whose tracking id a crash lost is reported as pending for ever (`EveryPlanConcludes` names the exception), and the note of a plan recovered beside its running conversion can ask to repeat a leg (`NoteIsExact` excludes the overlap).
* A shift is logged only after its broadcast, so a crash in between loses the id of a paid order; peg-outs are not logged at all; the record of a peg-in cannot be reached, since `pegIn` waits for itself; `resumePendingConversions` clears a pending peg-in outside the mutex.
* A late poll replaces the delivery of a gift card, code included, by an older answer (`we/giftcards/namespace.ts:424`).

* A submarine whose status watch cannot be started is answered as failed, with "the swap failed before any settlement" and the advice to retry (`we/convert/boltz/convert.ts:524-529`, `we/convert/intent.ts:839`), while its lockup is under way and may be paid; so is a stablecoin swap whose record is gone (`convert.ts:720`). A refund is called pending, and its funds safe, also when the record cannot be read (`543-544`). `ResultsAreTrue` claims of failed, for these two legs, only that the money has left.

Sockets, clocks, answers:

* A `connect()` that times out leaves a client behind that reconnects and that nobody closes (`we/mcp/tools.ts:405`, `we/convert/sideswap-client.ts:486`); a `NO_MARKET` error is lost because the holder has no stream yet.
* The time to live of a quote is checked before the wait for `opMutex` (`we/convert/sideswap.ts:705`); the server judges an old quote in the end. A request to SideShift has no timeout and runs inside `opMutex`; `EveryCallEnds` takes it for settled.
* The word that the stablecoin route is live is never dropped by age (`we/convert/boltz/providers.ts:391`), against the comment on its time to live. `TrustedForTheTTL` leaves it out.

The wallet file and its lock:

* `open()` reads `wallet.json` (`we/wallet.ts:1028`) before the keychain and the lock: salt, receive counter and backup gate may be those of before the previous holder's last write.
* The lock file is empty between its creation and its first write, and the unlink of a stale lock does not look again (`we/store/dir-lock.ts:97-99`, `149`, `174`, against the comment at `112-113`): two processes that start together can both hold the directory. A write that fails after the creation leaves the file; a container that restarts with the same pid and boot id takes its own lock for a live one (`:157`).
* A shutdown while the first open is in flight exits without releasing the lock (`unified.ts:319`).
* A store command that fails is answered by writing the key to the file (`we/store/unlock-store.ts:205-209`) while an older entry may stay readable in the credential store, where it is read first (`236`): the ceremony says the wallet starts on its own, and it does not. The run reaches it; `KeyOpensTheWallet` excepts a key in the file under an entry of the store. A restore with the same words re-salts, which strands the pending records sealed under the old salt.

Chain and addresses:

* `bumpScanHint` calls itself free of concurrent writers (`we/store/update-store.ts:115`), but an address call raises the floor in `opMutex` while a scan, outside it, writes the times of the same file. The later one undoes the other. `ScansMissNothing` therefore speaks of floors no late writer has lowered (`floorLost`).
* A crash or a failed write after `clearAll` inside `clearForRescan` loses the floor; so does a read of `meta.json` that fails, since it counts as an empty file.
* `after()` joins a scan that began before the spend and takes its success for a refresh, so that the next read need not show the spend. `RefreshShowsSpend` speaks of refreshes that ran their own scan.
* `wallet_recover` is mounted without a scan after it (`we/mcp/server.ts:932-948`), though it may spend; `wallet_sync` goes past the window of the coordinator.
* A queued address call holds the wollet it captured; a rescan in front of it frees that wollet, and the call throws.

Accounts:

* `register()` loses the new keys, without `credentials_persist_failed`, when the write of the account's label fails after the POST (`agent-tools.ts:219-221`); two registrations can both find that there is no account yet.
* `verify_domain` counts the keys, mints, stores, then revokes what it counted: beside `create_key` it can revoke a key the vault then stores.
* A request whose session was renewed has one transient attempt less (`apiClient.ts:237`, `288`); the comment at `206-207` says the renewal costs none.

## 6. Not modelled

* The encryption of the stores, key derivation, signatures and PSET contents; records that fail
  authentication in plans and swaps (the code parks or skips them); amounts and fees, where no
  property is about them.
* The backoff and the sliding window of the API throttle: they only delay a call.
* `Lifecycle`: limits and host registration of `init`, the passphrase in the environment; processes whose
  acquisitions of the lock overlap, in the run and in the theorems under `~Contention` (section 5).
* `AgentKeys`: `agent_status`, the domain challenge, `configure_depix_rail` change no local state.
* The catalogue of gift cards, previews, `setRefundAddress`, schemas, wording and shapes of answers, the
  HTTP gateway, deposits, merchant tools, webhooks and checkouts: nothing is kept between two calls.
* A peg-in past its request for an address, which never returns.

## 7. What could come next

Models: a switch that comes on again;
runs for the double count of Boltz plans, the early removal of a claim key and the stablecoin route's
liveness, each of which the models already show.
