----------------------------- MODULE Guardrails -----------------------------
(***************************************************************************)
(* The rolling 24h spending cap of the wallet engine.                      *)
(*                                                                         *)
(* Every operation that signs (send, sendMany, lockupLbtc, withdraw, the   *)
(* SideSwap and SideShift paths) runs, under the wallet's opMutex,         *)
(*                                                                         *)
(*     enforce  ->  build and sign  ->  recordSpend  ->  broadcast         *)
(*                                                                         *)
(* and recordSpend makes two durable writes: first the anchor (an epoch    *)
(* and a marker inside wallet.json), then guardrails-state.json stamped    *)
(* with that epoch.  The process may stop between any two steps, the state *)
(* file may disappear, be damaged or come back from an older copy, and     *)
(* time passes between enforce and recordSpend.                            *)
(*                                                                         *)
(* A spend of k cents is k tokens, so that the cents in a window are the   *)
(* cardinality of a set.  A token carries the epoch its spend was recorded *)
(* under: no two spends share an epoch, so their tokens are distinct.      *)
(***************************************************************************)
EXTENDS Naturals, FiniteSets

CONSTANTS
  Callers,      \* concurrent operations of one wallet instance
  Amounts,      \* BRL cents an operation may be valued at (0 is refused)
  PerTxLimit,   \* perTxLimitBrlCents
  DailyLimit,   \* dailyLimitBrlCents
  Window,       \* WINDOW_MS
  MaxTime,      \* bound on the clock
  MaxEpoch      \* bound on the epoch at which a new operation may start

ASSUME CentsAssumption == /\ Amounts \subseteq Nat
                          /\ PerTxLimit \in Nat
                          /\ DailyLimit \in Nat
ASSUME ClockAssumption == Window \in Nat /\ MaxTime \in Nat /\ MaxEpoch \in Nat

VARIABLES
  now,        \* Date.now()
  anchor,     \* wallet.json: guardrailsStateInitialized and guardrailEpoch
  stateFile,  \* guardrails-state.json as a reader finds it
  versions,   \* every state file sealed under the current seed key
  pc,         \* where each operation stands
  amt,        \* its value in cents
  mine,       \* the tokens of its entry, stamped when recordSpend runs
  buf,        \* the window recordSpend is about to write
  sent        \* history: tokens broadcast since the seed was last initialised

vars == <<now, anchor, stateFile, versions, pc, amt, mine, buf, sent>>

Steps == {"idle", "queued", "enforce", "signing", "advance", "write", "broadcast"}

\* The steps that run inside opMutex.runExclusive.
Critical == Steps \ {"idle", "queued"}

\* The steps that run inside Guardrails.writeMutex.
Recording == {"advance", "write"}

Token == [ts : Nat, epoch : Nat, cent : Nat]

\* The entry recordSpend pushes: k cents, stamped t, under epoch e.
Entry(t, e, k) == {[ts |-> t, epoch |-> e, cent |-> i] : i \in 1 .. k}

Sealed(e, s) == [kind |-> "sealed", epoch |-> e, entries |-> s]
Unreadable(k) == [kind |-> k, epoch |-> 0, entries |-> {}]
Version == [kind : {"sealed"}, epoch : Nat, entries : SUBSET Token]
FileState == [kind : {"sealed", "missing", "corrupt"}, epoch : Nat, entries : SUBSET Token]

-----------------------------------------------------------------------------
(* loadWindow                                                              *)

Recent(s, t) == {x \in s : t - x.ts <= Window}

\* The file decrypts, parses and carries the anchor's epoch.
Authentic == stateFile.kind = "sealed" /\ stateFile.epoch = anchor.epoch

\* Faulty variant: any file that decrypts is believed, whatever its epoch.
FailClosedIgnoringEpoch == anchor.initialized /\ stateFile.kind # "sealed"

FailClosed == anchor.initialized /\ ~Authentic

LoadedWindow == IF Authentic THEN Recent(stateFile.entries, now) ELSE {}

\* usedInWindow: a window that fails closed is reported as full.
UsedCents == IF FailClosed THEN DailyLimit ELSE Cardinality(LoadedWindow)

-----------------------------------------------------------------------------
Init ==
  /\ now = 0
  /\ anchor = [initialized |-> FALSE, epoch |-> 0]
  /\ stateFile = Unreadable("missing")
  /\ versions = {}
  /\ pc = [c \in Callers |-> "idle"]
  /\ amt = [c \in Callers |-> 0]
  /\ mine = [c \in Callers |-> {}]
  /\ buf = [c \in Callers |-> {}]
  /\ sent = {}

Goto(c, step) == pc' = [pc EXCEPT ![c] = step]

\* The operation is over, its local values with it, and opMutex is released.
Leave(c) ==
  /\ Goto(c, "idle")
  /\ amt' = [amt EXCEPT ![c] = 0]
  /\ mine' = [mine EXCEPT ![c] = {}]
  /\ buf' = [buf EXCEPT ![c] = {}]

\* A tool call asks for an operation worth k cents and queues on opMutex.
Request(c, k) ==
  /\ pc[c] = "idle"
  /\ anchor.epoch < MaxEpoch
  /\ amt' = [amt EXCEPT ![c] = k]
  /\ Goto(c, "queued")
  /\ UNCHANGED <<now, anchor, stateFile, versions, mine, buf, sent>>

\* Faulty variant: an operation that does not go through opMutex.
AcquireWithoutMutex(c) ==
  /\ pc[c] = "queued"
  /\ Goto(c, "enforce")
  /\ UNCHANGED <<now, anchor, stateFile, versions, amt, mine, buf, sent>>

\* opMutex.runExclusive lets one operation in.
Acquire(c) ==
  /\ pc[c] = "queued"
  /\ \A d \in Callers : pc[d] \notin Critical
  /\ Goto(c, "enforce")
  /\ UNCHANGED <<now, anchor, stateFile, versions, amt, mine, buf, sent>>

\* enforce() lets the operation through: it reads the window outside writeMutex.
Enforce(c) ==
  /\ pc[c] = "enforce"
  /\ amt[c] > 0
  /\ amt[c] <= PerTxLimit
  /\ ~FailClosed
  /\ UsedCents + amt[c] <= DailyLimit
  /\ Goto(c, "signing")
  /\ UNCHANGED <<now, anchor, stateFile, versions, amt, mine, buf, sent>>

\* The operation throws and opMutex is released: valuation fails, a limit or the
\* allowlist refuses, building or signing fails, or one of recordSpend's two
\* durable writes fails (what was written before it stays).
Abort(c) ==
  /\ pc[c] \in {"enforce", "signing", "advance", "write"}
  /\ Leave(c)
  /\ UNCHANGED <<now, anchor, stateFile, versions, sent>>

\* Faulty variant: recordSpend starts a fresh window over a lost state file.
RecordLoadOverLostFile(c) ==
  /\ pc[c] = "signing"
  /\ \A d \in Callers : pc[d] \notin Recording
  /\ LET entry == Entry(now, anchor.epoch + 1, amt[c])
     IN  /\ mine' = [mine EXCEPT ![c] = entry]
         /\ buf' = [buf EXCEPT ![c] = LoadedWindow \cup entry]
  /\ Goto(c, "advance")
  /\ UNCHANGED <<now, anchor, stateFile, versions, amt, sent>>

\* recordSpend: load, refuse a window that fails closed, prune, push the entry.
RecordLoad(c) ==
  /\ pc[c] = "signing"
  /\ \A d \in Callers : pc[d] \notin Recording
  /\ ~FailClosed
  /\ LET entry == Entry(now, anchor.epoch + 1, amt[c])
     IN  /\ mine' = [mine EXCEPT ![c] = entry]
         /\ buf' = [buf EXCEPT ![c] = LoadedWindow \cup entry]
  /\ Goto(c, "advance")
  /\ UNCHANGED <<now, anchor, stateFile, versions, amt, sent>>

\* anchor.advance(): durable in wallet.json before the state is.
RecordAdvance(c) ==
  /\ pc[c] = "advance"
  /\ anchor' = [initialized |-> TRUE, epoch |-> anchor.epoch + 1]
  /\ Goto(c, "write")
  /\ UNCHANGED <<now, stateFile, versions, amt, mine, buf, sent>>

\* writeFileDurable(guardrails-state.json), stamped with the new epoch.
RecordWrite(c) ==
  /\ pc[c] = "write"
  /\ stateFile' = Sealed(anchor.epoch, buf[c])
  /\ versions' = versions \cup {Sealed(anchor.epoch, buf[c])}
  /\ Goto(c, "broadcast")
  /\ UNCHANGED <<now, anchor, amt, mine, buf, sent>>

\* The signed transaction is handed to the network; an error leaves it open
\* whether the network took it.
Broadcast(c) ==
  /\ pc[c] = "broadcast"
  /\ sent' \in {sent, sent \cup mine[c]}
  /\ Leave(c)
  /\ UNCHANGED <<now, anchor, stateFile, versions>>

-----------------------------------------------------------------------------
(* The environment                                                         *)

Tick ==
  /\ now < MaxTime
  /\ now' = now + 1
  /\ UNCHANGED <<anchor, stateFile, versions, pc, amt, mine, buf, sent>>

\* The process stops: what was in memory is gone, both files stay.
Crash ==
  /\ pc' = [c \in Callers |-> "idle"]
  /\ amt' = [c \in Callers |-> 0]
  /\ mine' = [c \in Callers |-> {}]
  /\ buf' = [c \in Callers |-> {}]
  /\ UNCHANGED <<now, anchor, stateFile, versions, sent>>

\* guardrails-state.json is deleted, damaged, or replaced by an older copy.
StateFileChanges ==
  /\ stateFile' \in versions \cup {Unreadable("missing"), Unreadable("corrupt")}
  /\ UNCHANGED <<now, anchor, versions, pc, amt, mine, buf, sent>>

\* wipe() and restore(): a fresh salt, a fresh anchor, and a state file left
\* behind that the new key cannot open.
Reinitialize ==
  /\ \A c \in Callers : pc[c] = "idle"
  /\ anchor' = [initialized |-> FALSE, epoch |-> 0]
  /\ stateFile' = IF stateFile.kind = "missing" THEN stateFile ELSE Unreadable("corrupt")
  /\ versions' = {}
  /\ sent' = {}
  /\ UNCHANGED <<now, pc, amt, mine, buf>>

Operation(c) ==
  \/ \E k \in Amounts : Request(c, k)
  \/ Acquire(c)
  \/ Enforce(c)
  \/ Abort(c)
  \/ RecordLoad(c)
  \/ RecordAdvance(c)
  \/ RecordWrite(c)
  \/ Broadcast(c)

Next ==
  \/ \E c \in Callers : Operation(c)
  \/ Tick
  \/ Crash
  \/ StateFileChanges
  \/ Reinitialize

Spec == Init /\ [][Next]_vars

-----------------------------------------------------------------------------
(* Properties                                                              *)

\* Types; and no token is stamped later than the clock.
TypeOK ==
  /\ now \in Nat
  /\ anchor \in [initialized : BOOLEAN, epoch : Nat]
  /\ stateFile \in FileState
  /\ versions \in SUBSET Version
  /\ pc \in [Callers -> Steps]
  /\ amt \in [Callers -> Nat]
  /\ mine \in [Callers -> SUBSET Token]
  /\ buf \in [Callers -> SUBSET Token]
  /\ sent \in SUBSET Token
  /\ \A x \in sent : x.ts <= now
  /\ \A c \in Callers : \A x \in mine[c] : x.ts <= now

\* The tokens of s recorded in the window that ends at time t.
InWindow(s, t) == {x \in s : x.ts <= t /\ t - x.ts <= Window}

\* In no rolling window, whenever it ends, do the cents that left the wallet
\* exceed the daily limit: concurrent operations, a crash at any step and a
\* state file that vanishes or goes back in time cannot get round the cap.
DailyCap == \A t \in 0 .. now + Window : Cardinality(InWindow(sent, t)) <= DailyLimit

\* What usage() reports as used is never less than what really left the wallet
\* in the last window, also between the two writes of recordSpend and after
\* the state file was lost.
UsageHonest == Cardinality(InWindow(sent, now)) <= UsedCents

\* No state file carries the anchor's epoch and none is about to be written.
Gap ==
  /\ anchor.initialized
  /\ \A v \in versions : v.epoch # anchor.epoch
  /\ \A c \in Callers : pc[c] # "write"

\* A crash or a failed write between anchor and state closes the wallet for
\* spending, and only a re-initialised seed opens it again: no older copy of
\* the state file and no later operation does.
GapIsPermanent == [][Gap => (Gap' \/ Reinitialize)]_vars
=============================================================================
