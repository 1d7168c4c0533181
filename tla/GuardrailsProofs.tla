-------------------------- MODULE GuardrailsProofs --------------------------
(***************************************************************************)
(* Proofs about Guardrails, for any set of callers, any limits and any     *)
(* window.                                                                 *)
(*                                                                         *)
(* The argument: opMutex lets one operation at a time into its critical    *)
(* section, so the tokens that left the wallet do not change between the   *)
(* enforce that admits an operation and its broadcast; the state file that *)
(* carries the anchor's epoch, if there is one, contains every recent      *)
(* token; and an operation admitted over that file fits the limit with     *)
(* every token sent within a window of its own stamp.                      *)
(***************************************************************************)
EXTENDS Guardrails, FiniteSetTheorems, TLAPS

\* opMutex: at most one operation is inside its critical section.
OneInside ==
  \A c, d \in Callers : pc[c] \in Critical /\ pc[d] \in Critical => c = d

FiniteParts ==
  /\ IsFiniteSet(sent)
  /\ \A c \in Callers : IsFiniteSet(mine[c]) /\ IsFiniteSet(buf[c])
  /\ \A v \in versions : IsFiniteSet(v.entries)

\* A file that can be read was written by this wallet, under an epoch the
\* anchor has reached; and the anchor is ahead of all of them between the two
\* writes of recordSpend.
FileWasWritten ==
  /\ stateFile.kind = "sealed" => stateFile \in versions
  /\ \A v \in versions : v.epoch <= anchor.epoch
  /\ \A c \in Callers : pc[c] = "write" => \A v \in versions : v.epoch # anchor.epoch

\* Before the marker is set nothing was recorded and nothing was sent.
NothingBeforeMarker ==
  ~anchor.initialized =>
    /\ versions = {}
    /\ sent = {}
    /\ \A c \in Callers : pc[c] \notin {"write", "broadcast"}

\* The state file that matches the anchor holds every recent token, those of
\* the operation about to broadcast included.
CurrentFileKnows ==
  \A v \in versions : v.epoch = anchor.epoch =>
    /\ Recent(sent, now) \subseteq v.entries
    /\ \A c \in Callers : pc[c] = "broadcast" => Recent(mine[c], now) \subseteq v.entries

\* So does the window an operation inside recordSpend is about to write.
BufferKnows ==
  \A c \in Callers : pc[c] \in Recording =>
    Recent(sent, now) \subseteq buf[c] /\ mine[c] \subseteq buf[c]

\* An operation enters recordSpend over a file that matched the anchor.
AdvanceHasFile ==
  \A c \in Callers : pc[c] = "advance" /\ anchor.initialized =>
    \E v \in versions : v.epoch = anchor.epoch

\* What enforce admitted still fits: nothing was sent since, and time only
\* takes tokens out of the window.
AdmittedFits ==
  \A c \in Callers : pc[c] = "signing" =>
    Cardinality(Recent(sent, now)) + amt[c] <= DailyLimit

\* An operation past RecordLoad fits the window that ends at its own stamp.
FitsAt(c, t) ==
  /\ \A x \in mine[c] : x.ts = t
  /\ \A x \in sent : x.ts <= t
  /\ Cardinality(mine[c]) <= amt[c]
  /\ Cardinality(Recent(sent, t)) + amt[c] <= DailyLimit

StampedFits ==
  \A c \in Callers : pc[c] \in {"advance", "write", "broadcast"} =>
    \E t \in Nat : t <= now /\ FitsAt(c, t)

CapAlways == \A t \in Nat : Cardinality(InWindow(sent, t)) <= DailyLimit

IInv ==
  /\ TypeOK
  /\ OneInside
  /\ FiniteParts
  /\ FileWasWritten
  /\ NothingBeforeMarker
  /\ CurrentFileKnows
  /\ BufferKnows
  /\ AdvanceHasFile
  /\ AdmittedFits
  /\ StampedFits
  /\ CapAlways

USE CentsAssumption, ClockAssumption

-----------------------------------------------------------------------------
(* Lemmas                                                                  *)

\* An entry of k cents is k tokens at most, all stamped t.
LEMMA EntrySize ==
  ASSUME NEW t \in Nat, NEW e \in Nat, NEW k \in Nat
  PROVE  /\ Entry(t, e, k) \subseteq Token
         /\ IsFiniteSet(Entry(t, e, k))
         /\ Cardinality(Entry(t, e, k)) <= k
         /\ \A x \in Entry(t, e, k) : x.ts = t
<1>1. Entry(t, e, k) \subseteq Token /\ \A x \in Entry(t, e, k) : x.ts = t
  BY DEF Entry, Token
<1>2. IsFiniteSet(1 .. k) /\ Cardinality(1 .. k) = k
  BY FS_Interval
<1> DEFINE f == [i \in 1 .. k |-> [ts |-> t, epoch |-> e, cent |-> i]]
<1>3. f \in Surjection(1 .. k, Entry(t, e, k))
  BY DEF Entry, Surjection
<1>4. IsFiniteSet(Entry(t, e, k)) /\ Cardinality(Entry(t, e, k)) <= k
  <2> HIDE DEF f
  <2> QED BY <1>2, <1>3, FS_Surjection
<1> QED BY <1>1, <1>4

\* Cardinalities of finite sets of tokens are numbers and grow with the set.
LEMMA SmallerSet ==
  ASSUME NEW T, IsFiniteSet(T), NEW S, S \subseteq T
  PROVE  /\ IsFiniteSet(S)
         /\ Cardinality(S) \in Nat
         /\ Cardinality(T) \in Nat
         /\ Cardinality(S) <= Cardinality(T)
BY FS_Subset, FS_CardinalityType

\* A union is no larger than its parts together.
LEMMA UnionSize ==
  ASSUME NEW S, NEW T, IsFiniteSet(S), IsFiniteSet(T)
  PROVE  /\ IsFiniteSet(S \cup T)
         /\ Cardinality(S \cup T) <= Cardinality(S) + Cardinality(T)
<1>1. /\ IsFiniteSet(S \cup T)
      /\ Cardinality(S \cup T) = Cardinality(S) + Cardinality(T) - Cardinality(S \cap T)
  BY FS_Union
<1>2. S \cap T \subseteq S
  OBVIOUS
<1>3. Cardinality(S \cap T) \in Nat /\ Cardinality(S) \in Nat
  BY <1>2, SmallerSet
<1>4. Cardinality(T) \in Nat
  BY FS_CardinalityType
<1> QED BY <1>1, <1>3, <1>4

\* What is sent at stamp t and fits there keeps every window under the limit.
LEMMA SendKeepsCap ==
  ASSUME NEW S \in SUBSET Token, NEW M \in SUBSET Token, NEW t \in Nat, NEW k \in Nat,
         IsFiniteSet(S), IsFiniteSet(M),
         \A x \in M : x.ts = t,
         \A x \in S : x.ts <= t,
         Cardinality(M) <= k,
         Cardinality(Recent(S, t)) + k <= DailyLimit,
         \A u \in Nat : Cardinality(InWindow(S, u)) <= DailyLimit
  PROVE  \A u \in Nat : Cardinality(InWindow(S \cup M, u)) <= DailyLimit
<1> SUFFICES ASSUME NEW u \in Nat
             PROVE  Cardinality(InWindow(S \cup M, u)) <= DailyLimit
  OBVIOUS
<1>1. CASE u < t
  <2>1. InWindow(S \cup M, u) = InWindow(S, u)
    BY <1>1 DEF InWindow, Token
  <2> QED BY <2>1
<1>2. CASE u >= t
  <2>1. InWindow(S \cup M, u) \subseteq Recent(S, t) \cup M
    BY <1>2 DEF InWindow, Recent, Token
  <2>2. Recent(S, t) \subseteq S
    BY DEF Recent
  <2>3. IsFiniteSet(Recent(S, t)) /\ Cardinality(Recent(S, t)) \in Nat
    BY <2>2, SmallerSet
  <2>4. /\ IsFiniteSet(Recent(S, t) \cup M)
        /\ Cardinality(Recent(S, t) \cup M) <= Cardinality(Recent(S, t)) + Cardinality(M)
    BY <2>3, UnionSize
  <2>5. /\ Cardinality(InWindow(S \cup M, u)) <= Cardinality(Recent(S, t) \cup M)
        /\ Cardinality(InWindow(S \cup M, u)) \in Nat
        /\ Cardinality(Recent(S, t) \cup M) \in Nat
    BY <2>1, <2>4, SmallerSet
  <2>6. Cardinality(M) \in Nat
    BY FS_CardinalityType
  <2> QED BY <2>3, <2>4, <2>5, <2>6
<1> QED BY <1>1, <1>2

-----------------------------------------------------------------------------
(* The inductive invariant                                                 *)

LEMMA InitIInv == Init => IInv
<1> SUFFICES ASSUME Init PROVE IInv
  OBVIOUS
<1> USE DEF Init
<1>1. TypeOK
  BY DEF TypeOK, FileState, Unreadable, Steps
<1>2. FiniteParts
  BY FS_EmptySet DEF FiniteParts
<1>3. CapAlways
  <2>1. \A t \in Nat : InWindow(sent, t) = {}
    BY DEF InWindow
  <2> QED BY <2>1, FS_EmptySet DEF CapAlways
<1>4. /\ OneInside
      /\ FileWasWritten
      /\ NothingBeforeMarker
      /\ CurrentFileKnows
      /\ BufferKnows
      /\ AdvanceHasFile
      /\ AdmittedFits
      /\ StampedFits
  BY DEF OneInside, Critical, FileWasWritten, Unreadable, NothingBeforeMarker, CurrentFileKnows,
         BufferKnows, Recording, AdvanceHasFile, AdmittedFits, StampedFits
<1> QED BY <1>1, <1>2, <1>3, <1>4 DEF IInv

\* What the type invariant keeps of one operation's step.
LEMMA TypeStep == TypeOK /\ [Next]_vars => TypeOK'
<1> SUFFICES ASSUME TypeOK, [Next]_vars PROVE TypeOK'
  OBVIOUS
<1> USE DEF TypeOK
<1>1. ASSUME NEW c \in Callers, NEW k \in Amounts, Request(c, k) PROVE TypeOK'
  BY <1>1 DEF Request, Goto, Steps
<1>2. ASSUME NEW c \in Callers, Acquire(c) PROVE TypeOK'
  BY <1>2 DEF Acquire, Goto, Steps
<1>3. ASSUME NEW c \in Callers, Enforce(c) PROVE TypeOK'
  BY <1>3 DEF Enforce, Goto, Steps
<1>4. ASSUME NEW c \in Callers, Abort(c) PROVE TypeOK'
  BY <1>4 DEF Abort, Leave, Goto, Steps
<1>5. ASSUME NEW c \in Callers, RecordLoad(c) PROVE TypeOK'
  <2> DEFINE e == Entry(now, anchor.epoch + 1, amt[c])
  <2>1. e \subseteq Token /\ \A x \in e : x.ts = now
    BY EntrySize
  <2>2. LoadedWindow \subseteq Token
    BY DEF LoadedWindow, Authentic, Recent, FileState
  <2>3. /\ mine' = [mine EXCEPT ![c] = e]
        /\ buf' = [buf EXCEPT ![c] = LoadedWindow \cup e]
        /\ pc' = [pc EXCEPT ![c] = "advance"]
        /\ UNCHANGED <<now, anchor, stateFile, versions, amt, sent>>
    BY <1>5 DEF RecordLoad, Goto
  <2> HIDE DEF e
  <2>4. \A d \in Callers : \A x \in mine'[d] : x.ts <= now'
    BY <2>1, <2>3
  <2> QED BY <2>1, <2>2, <2>3, <2>4 DEF Steps
<1>6. ASSUME NEW c \in Callers, RecordAdvance(c) PROVE TypeOK'
  BY <1>6 DEF RecordAdvance, Goto, Steps
<1>7. ASSUME NEW c \in Callers, RecordWrite(c) PROVE TypeOK'
  BY <1>7 DEF RecordWrite, Goto, Steps, Sealed, FileState, Version
<1>8. ASSUME NEW c \in Callers, Broadcast(c) PROVE TypeOK'
  BY <1>8 DEF Broadcast, Leave, Goto, Steps
<1>9. CASE Tick
  BY <1>9 DEF Tick, Token
<1>10. CASE Crash
  BY <1>10 DEF Crash, Steps
<1>11. CASE StateFileChanges
  BY <1>11 DEF StateFileChanges, Unreadable, FileState, Version
<1>12. CASE Reinitialize
  BY <1>12 DEF Reinitialize, Unreadable, FileState
<1>13. CASE UNCHANGED vars
  BY <1>13 DEF vars
<1> QED
  BY <1>1, <1>2, <1>3, <1>4, <1>5, <1>6, <1>7, <1>8, <1>9, <1>10, <1>11, <1>12, <1>13
  DEF Next, Operation

\* A file that matches the anchor is the current one, and then the loaded
\* window holds every recent token; without a marker there is none to hold.
LEMMA LoadedKnows ==
  ASSUME IInv, ~FailClosed
  PROVE  /\ Recent(sent, now) \subseteq LoadedWindow
         /\ IsFiniteSet(LoadedWindow)
         /\ LoadedWindow \subseteq Token
         /\ anchor.initialized => \E v \in versions : v.epoch = anchor.epoch
<1> USE DEF IInv, TypeOK
<1>1. CASE Authentic
  <2>1. stateFile \in versions /\ stateFile.epoch = anchor.epoch
    BY <1>1 DEF Authentic, FileWasWritten
  <2>2. Recent(sent, now) \subseteq stateFile.entries /\ IsFiniteSet(stateFile.entries)
    BY <2>1 DEF CurrentFileKnows, FiniteParts
  <2>3. LoadedWindow = Recent(stateFile.entries, now)
    BY <1>1 DEF LoadedWindow
  <2>4. LoadedWindow \subseteq stateFile.entries
    BY <2>3 DEF Recent
  <2>5. IsFiniteSet(LoadedWindow)
    BY <2>2, <2>4, SmallerSet
  <2>6. Recent(sent, now) \subseteq LoadedWindow
    BY <2>2, <2>3 DEF Recent
  <2>7. stateFile.entries \subseteq Token
    BY DEF FileState
  <2> QED BY <2>1, <2>4, <2>5, <2>6, <2>7
<1>2. CASE ~Authentic
  <2>1. ~anchor.initialized /\ LoadedWindow = {}
    BY <1>2 DEF FailClosed, LoadedWindow
  <2>2. sent = {}
    BY <2>1 DEF NothingBeforeMarker
  <2> QED BY <2>1, <2>2, FS_EmptySet DEF Recent
<1> QED BY <1>1, <1>2

\* Time only takes tokens out of the window.
LEMMA TimeShrinks ==
  ASSUME NEW S \in SUBSET Token, IsFiniteSet(S), NEW t \in Nat
  PROVE  /\ Recent(S, t + 1) \subseteq Recent(S, t)
         /\ Cardinality(Recent(S, t + 1)) <= Cardinality(Recent(S, t))
         /\ Cardinality(Recent(S, t)) \in Nat
         /\ Cardinality(Recent(S, t + 1)) \in Nat
<1>1. Recent(S, t + 1) \subseteq Recent(S, t) /\ Recent(S, t) \subseteq S
  BY DEF Recent, Token
<1>2. IsFiniteSet(Recent(S, t)) /\ Cardinality(Recent(S, t)) \in Nat
  BY <1>1, SmallerSet
<1> QED BY <1>1, <1>2, SmallerSet

\* A step that only moves one operation, to a step that asks for nothing new.
LEMMA MoveStep ==
  ASSUME IInv, TypeOK', NEW c \in Callers,
         UNCHANGED <<now, anchor, stateFile, versions, sent>>,
         \A d \in Callers \ {c} :
           pc'[d] = pc[d] /\ amt'[d] = amt[d] /\ mine'[d] = mine[d] /\ buf'[d] = buf[d],
         pc'[c] \in {"idle", "queued", "enforce"},
         pc'[c] = "enforce" => \A d \in Callers : pc[d] \notin Critical,
         IsFiniteSet(mine'[c]), IsFiniteSet(buf'[c])
  PROVE  IInv'
<1> USE DEF IInv
<1>1. OneInside'
  BY DEF OneInside, Critical, Steps
<1>2. FiniteParts'
  BY DEF FiniteParts
<1>3. FileWasWritten'
  BY DEF FileWasWritten
<1>4. NothingBeforeMarker'
  BY DEF NothingBeforeMarker
<1>5. CurrentFileKnows'
  BY DEF CurrentFileKnows, Recent
<1>6. BufferKnows'
  BY DEF BufferKnows, Recent, Recording
<1>7. AdvanceHasFile'
  BY DEF AdvanceHasFile
<1>8. AdmittedFits'
  BY DEF AdmittedFits, Recent
<1>9. StampedFits'
  BY DEF StampedFits, FitsAt, Recent
<1>10. CapAlways'
  BY DEF CapAlways, InWindow
<1> QED BY <1>1, <1>2, <1>3, <1>4, <1>5, <1>6, <1>7, <1>8, <1>9, <1>10

LEMMA EnforceStep ==
  ASSUME IInv, TypeOK', NEW c \in Callers, Enforce(c)
  PROVE  IInv'
<1> USE DEF IInv, Enforce, Goto, TypeOK
<1>1. AdmittedFits'
  <2>1. ~FailClosed /\ Cardinality(LoadedWindow) + amt[c] <= DailyLimit
    BY DEF UsedCents
  <2>2. /\ Cardinality(Recent(sent, now)) <= Cardinality(LoadedWindow)
        /\ Cardinality(Recent(sent, now)) \in Nat
        /\ Cardinality(LoadedWindow) \in Nat
    BY <2>1, LoadedKnows, SmallerSet
  <2>3. Cardinality(Recent(sent, now)) + amt[c] <= DailyLimit
    BY <2>1, <2>2
  <2> QED BY <2>3 DEF AdmittedFits, Recent
<1>2. OneInside'
  BY DEF OneInside, Critical, Steps
<1>3. FiniteParts' /\ CapAlways' /\ AdvanceHasFile'
  BY DEF FiniteParts, CapAlways, InWindow, AdvanceHasFile
<1>4. FileWasWritten' /\ NothingBeforeMarker'
  BY DEF FileWasWritten, NothingBeforeMarker
<1>5. CurrentFileKnows'
  BY DEF CurrentFileKnows, Recent
<1>6. BufferKnows'
  BY DEF BufferKnows, Recent, Recording
<1>7. StampedFits'
  BY DEF StampedFits, FitsAt, Recent
<1> QED BY <1>1, <1>2, <1>3, <1>4, <1>5, <1>6, <1>7

LEMMA RecordLoadStep ==
  ASSUME IInv, TypeOK', NEW c \in Callers, RecordLoad(c)
  PROVE  IInv'
<1> DEFINE e == Entry(now, anchor.epoch + 1, amt[c])
<1>1. /\ pc[c] = "signing" /\ ~FailClosed
      /\ pc' = [pc EXCEPT ![c] = "advance"]
      /\ mine' = [mine EXCEPT ![c] = e]
      /\ buf' = [buf EXCEPT ![c] = LoadedWindow \cup e]
      /\ UNCHANGED <<now, anchor, stateFile, versions, amt, sent>>
  BY DEF RecordLoad, Goto
<1>2. /\ IsFiniteSet(e)
      /\ Cardinality(e) <= amt[c]
      /\ \A x \in e : x.ts = now
  BY EntrySize DEF IInv, TypeOK
<1> HIDE DEF e
<1>3. /\ Recent(sent, now) \subseteq LoadedWindow
      /\ IsFiniteSet(LoadedWindow)
      /\ anchor.initialized => \E v \in versions : v.epoch = anchor.epoch
  BY <1>1, LoadedKnows
<1> USE DEF IInv, TypeOK
<1>4. IsFiniteSet(LoadedWindow \cup e)
  BY <1>2, <1>3, FS_Union
<1>5. OneInside'
  BY <1>1 DEF OneInside, Critical, Steps
<1>6. FiniteParts' /\ CapAlways' /\ AdvanceHasFile'
  BY <1>1, <1>2, <1>3, <1>4 DEF FiniteParts, CapAlways, InWindow, AdvanceHasFile
<1>7. FileWasWritten' /\ NothingBeforeMarker'
  BY <1>1 DEF FileWasWritten, NothingBeforeMarker
<1>8. CurrentFileKnows'
  BY <1>1 DEF CurrentFileKnows, Recent
<1>9. BufferKnows'
  BY <1>1, <1>3 DEF BufferKnows, Recent, Recording
<1>10. AdmittedFits'
  BY <1>1 DEF AdmittedFits, Recent
<1>11. StampedFits'
  <2>1. FitsAt(c, now)'
    BY <1>1, <1>2 DEF FitsAt, AdmittedFits, Recent
  <2>2. ASSUME NEW d \in Callers \ {c}, NEW t \in Nat, FitsAt(d, t) PROVE FitsAt(d, t)'
    BY <1>1, <2>2 DEF FitsAt, Recent
  <2>3. \A d \in Callers \ {c} : pc'[d] = pc[d]
    BY <1>1
  <2> QED BY <1>1, <2>1, <2>2, <2>3 DEF StampedFits
<1> QED BY <1>5, <1>6, <1>7, <1>8, <1>9, <1>10, <1>11

LEMMA RecordAdvanceStep ==
  ASSUME IInv, TypeOK', NEW c \in Callers, RecordAdvance(c)
  PROVE  IInv'
<1> USE DEF IInv, RecordAdvance, Goto, TypeOK
<1>1. \A v \in versions : v.epoch # anchor.epoch + 1
  BY DEF FileWasWritten, Version
<1>2. OneInside'
  BY DEF OneInside, Critical, Steps
<1>3. FiniteParts' /\ CapAlways'
  BY DEF FiniteParts, CapAlways, InWindow
<1>4. AdvanceHasFile'
  BY DEF AdvanceHasFile, OneInside, Critical, Steps
<1>5. FileWasWritten'
  BY <1>1 DEF FileWasWritten, Version
<1>6. NothingBeforeMarker'
  BY DEF NothingBeforeMarker
<1>7. CurrentFileKnows'
  BY <1>1 DEF CurrentFileKnows, Recent
<1>8. BufferKnows'
  BY DEF BufferKnows, Recent, Recording
<1>9. AdmittedFits'
  BY DEF AdmittedFits, Recent
<1>10. StampedFits'
  <2>1. ASSUME NEW d \in Callers, NEW t \in Nat, FitsAt(d, t) PROVE FitsAt(d, t)'
    BY <2>1 DEF FitsAt, Recent
  <2>2. \A d \in Callers : pc'[d] \in {"advance", "write", "broadcast"} =>
          pc[d] \in {"advance", "write", "broadcast"}
    OBVIOUS
  <2> QED BY <2>1, <2>2 DEF StampedFits
<1> QED BY <1>2, <1>3, <1>4, <1>5, <1>6, <1>7, <1>8, <1>9, <1>10

LEMMA RecordWriteStep ==
  ASSUME IInv, TypeOK', NEW c \in Callers, RecordWrite(c)
  PROVE  IInv'
<1> DEFINE w == Sealed(anchor.epoch, buf[c])
<1> USE DEF IInv, RecordWrite, Goto, TypeOK
<1>1. w.epoch = anchor.epoch /\ w.entries = buf[c] /\ w.kind = "sealed"
  BY DEF Sealed
<1>2. /\ stateFile' = w
      /\ versions' = versions \cup {w}
      /\ pc' = [pc EXCEPT ![c] = "broadcast"]
      /\ UNCHANGED <<now, anchor, amt, mine, buf, sent>>
  OBVIOUS
<1> HIDE DEF w, RecordWrite
<1>3. \A d \in Callers \ {c} : pc[d] \notin Critical
  BY DEF OneInside, Critical, RecordWrite
<1>4. OneInside'
  BY <1>2, <1>3 DEF OneInside, Critical, Steps
<1>5. FiniteParts' /\ CapAlways'
  BY <1>1, <1>2 DEF FiniteParts, CapAlways, InWindow
<1>6. AdvanceHasFile'
  BY <1>1, <1>2 DEF AdvanceHasFile
<1>7. FileWasWritten'
  BY <1>1, <1>2, <1>3 DEF FileWasWritten, Critical, Steps
<1>8. NothingBeforeMarker'
  BY <1>2 DEF NothingBeforeMarker, RecordWrite
<1>9. CurrentFileKnows'
  <2>1. \A v \in versions : v.epoch # anchor.epoch
    BY DEF FileWasWritten, RecordWrite
  <2>2. Recent(sent, now) \subseteq buf[c] /\ mine[c] \subseteq buf[c]
    BY DEF BufferKnows, Recording, RecordWrite
  <2>3. \A d \in Callers : pc'[d] = "broadcast" => d = c
    BY <1>2, <1>3 DEF Critical, Steps
  <2> QED BY <1>1, <1>2, <2>1, <2>2, <2>3 DEF CurrentFileKnows, Recent
<1>10. BufferKnows'
  BY <1>2 DEF BufferKnows, Recent, Recording
<1>11. AdmittedFits'
  BY <1>2 DEF AdmittedFits, Recent
<1>12. StampedFits'
  <2>1. ASSUME NEW d \in Callers, NEW t \in Nat, FitsAt(d, t) PROVE FitsAt(d, t)'
    BY <1>2, <2>1 DEF FitsAt, Recent
  <2>2. \A d \in Callers : pc'[d] \in {"advance", "write", "broadcast"} =>
          pc[d] \in {"advance", "write", "broadcast"}
    BY <1>2 DEF RecordWrite
  <2> QED BY <1>2, <2>1, <2>2 DEF StampedFits
<1> QED BY <1>4, <1>5, <1>6, <1>7, <1>8, <1>9, <1>10, <1>11, <1>12

LEMMA BroadcastStep ==
  ASSUME IInv, TypeOK', NEW c \in Callers, Broadcast(c)
  PROVE  IInv'
<1> USE DEF IInv, TypeOK
<1>1. /\ pc[c] = "broadcast"
      /\ sent' \in {sent, sent \cup mine[c]}
      /\ pc' = [pc EXCEPT ![c] = "idle"]
      /\ amt' = [amt EXCEPT ![c] = 0]
      /\ mine' = [mine EXCEPT ![c] = {}]
      /\ buf' = [buf EXCEPT ![c] = {}]
      /\ UNCHANGED <<now, anchor, stateFile, versions>>
  BY DEF Broadcast, Leave, Goto
<1>2. \A d \in Callers \ {c} : pc[d] \notin Critical
  BY <1>1 DEF OneInside, Critical
<1>3. \A d \in Callers : pc'[d] \in {"idle", "queued"}
  BY <1>1, <1>2 DEF Critical, Steps
<1>4. OneInside' /\ BufferKnows' /\ AdvanceHasFile' /\ AdmittedFits' /\ StampedFits'
  BY <1>3 DEF OneInside, Critical, BufferKnows, Recording, AdvanceHasFile, AdmittedFits, StampedFits
<1>5. FiniteParts'
  <2>1. IsFiniteSet(sent) /\ IsFiniteSet(mine[c]) /\ IsFiniteSet({})
    BY FS_EmptySet DEF FiniteParts
  <2>2. IsFiniteSet(sent \cup mine[c])
    BY <2>1, FS_Union
  <2>3. IsFiniteSet(sent')
    BY <1>1, <2>1, <2>2
  <2>4. ASSUME NEW d \in Callers PROVE IsFiniteSet(mine'[d]) /\ IsFiniteSet(buf'[d])
    BY <1>1, <2>1 DEF FiniteParts
  <2> QED BY <1>1, <2>3, <2>4 DEF FiniteParts
<1>6. FileWasWritten'
  BY <1>1, <1>3 DEF FileWasWritten
<1>7. NothingBeforeMarker'
  BY <1>1, <1>3 DEF NothingBeforeMarker
<1>8. CurrentFileKnows'
  BY <1>1, <1>3 DEF CurrentFileKnows, Recent
<1>9. CapAlways'
  <2>1. PICK t \in Nat : FitsAt(c, t)
    BY <1>1 DEF StampedFits
  <2>2. IsFiniteSet(sent) /\ IsFiniteSet(mine[c]) /\ amt[c] \in Nat
    BY DEF FiniteParts
  <2>3. \A u \in Nat : Cardinality(InWindow(sent \cup mine[c], u)) <= DailyLimit
    BY <2>1, <2>2, SendKeepsCap DEF FitsAt, CapAlways
  <2> QED BY <1>1, <2>3 DEF CapAlways
<1> QED BY <1>4, <1>5, <1>6, <1>7, <1>8, <1>9

LEMMA TickStep ==
  ASSUME IInv, TypeOK', Tick
  PROVE  IInv'
<1> USE DEF IInv, TypeOK, Tick
<1>1. /\ Recent(sent, now + 1) \subseteq Recent(sent, now)
      /\ Cardinality(Recent(sent, now + 1)) <= Cardinality(Recent(sent, now))
      /\ Cardinality(Recent(sent, now)) \in Nat
      /\ Cardinality(Recent(sent, now + 1)) \in Nat
  BY TimeShrinks DEF FiniteParts
<1>2. \A c \in Callers : Recent(mine[c], now + 1) \subseteq Recent(mine[c], now)
  BY TimeShrinks DEF FiniteParts
<1>3. OneInside' /\ FiniteParts' /\ CapAlways' /\ AdvanceHasFile'
  BY DEF OneInside, FiniteParts, CapAlways, InWindow, AdvanceHasFile
<1>4. FileWasWritten' /\ NothingBeforeMarker'
  BY DEF FileWasWritten, NothingBeforeMarker
<1>5. CurrentFileKnows'
  BY <1>1, <1>2 DEF CurrentFileKnows, Recent
<1>6. BufferKnows'
  BY <1>1 DEF BufferKnows, Recent
<1>7. AdmittedFits'
  <2>1. Recent(sent, now)' = Recent(sent, now + 1)
    BY DEF Recent
  <2> QED BY <1>1, <2>1 DEF AdmittedFits
<1>8. StampedFits'
  <2>1. ASSUME NEW d \in Callers, NEW t \in Nat, FitsAt(d, t) PROVE FitsAt(d, t)'
    BY <2>1 DEF FitsAt, Recent
  <2> QED BY <2>1 DEF StampedFits
<1> QED BY <1>3, <1>4, <1>5, <1>6, <1>7, <1>8

\* A step of the environment that leaves no operation running and keeps or
\* forgets everything that was written and sent.
LEMMA QuietStep ==
  ASSUME IInv, TypeOK', now' = now,
         \A d \in Callers : pc'[d] = "idle" /\ IsFiniteSet(mine'[d]) /\ IsFiniteSet(buf'[d]),
         FileWasWritten', NothingBeforeMarker',
         \/ UNCHANGED <<anchor, versions, sent>>
         \/ versions' = {} /\ sent' = {}
  PROVE  IInv'
<1> USE DEF IInv
<1>1. OneInside' /\ BufferKnows' /\ AdvanceHasFile' /\ AdmittedFits' /\ StampedFits'
  BY DEF OneInside, Critical, BufferKnows, Recording, AdvanceHasFile, AdmittedFits, StampedFits
<1>2. FiniteParts'
  BY FS_EmptySet DEF FiniteParts
<1>3. CurrentFileKnows'
  BY DEF CurrentFileKnows, Recent
<1>4. CapAlways'
  <2>1. CASE sent' = {}
    <3>1. \A t \in Nat : InWindow(sent', t) = {}
      BY <2>1 DEF InWindow
    <3> QED BY <3>1, FS_EmptySet DEF CapAlways, InWindow
  <2>2. CASE sent' = sent
    BY <2>2 DEF CapAlways, InWindow
  <2> QED BY <2>1, <2>2
<1> QED BY <1>1, <1>2, <1>3, <1>4

LEMMA StateFileStep ==
  ASSUME IInv, TypeOK', StateFileChanges
  PROVE  IInv'
<1> USE DEF IInv, TypeOK, StateFileChanges
<1>1. FileWasWritten'
  BY DEF FileWasWritten, Unreadable
<1>2. OneInside' /\ FiniteParts' /\ CapAlways' /\ AdvanceHasFile' /\ NothingBeforeMarker'
  BY DEF OneInside, FiniteParts, CapAlways, InWindow, AdvanceHasFile, NothingBeforeMarker
<1>3. CurrentFileKnows' /\ BufferKnows' /\ AdmittedFits'
  BY DEF CurrentFileKnows, BufferKnows, AdmittedFits, Recent
<1>4. StampedFits'
  <2>1. ASSUME NEW d \in Callers, NEW t \in Nat, FitsAt(d, t) PROVE FitsAt(d, t)'
    BY <2>1 DEF FitsAt, Recent
  <2> QED BY <2>1 DEF StampedFits
<1> QED BY <1>1, <1>2, <1>3, <1>4

\* Every step of the specification keeps the inductive invariant.
LEMMA StepIInv == IInv /\ [Next]_vars => IInv'
<1> SUFFICES ASSUME IInv, [Next]_vars PROVE IInv'
  OBVIOUS
<1>0. TypeOK /\ TypeOK' /\ FiniteParts
  BY TypeStep DEF IInv
<1>1. ASSUME NEW c \in Callers, NEW k \in Amounts, Request(c, k) PROVE IInv'
  BY <1>0, <1>1, MoveStep DEF Request, Goto, TypeOK, FiniteParts
<1>2. ASSUME NEW c \in Callers, Acquire(c) PROVE IInv'
  BY <1>0, <1>2, MoveStep DEF Acquire, Goto, TypeOK, FiniteParts
<1>3. ASSUME NEW c \in Callers, Enforce(c) PROVE IInv'
  BY <1>0, <1>3, EnforceStep
<1>4. ASSUME NEW c \in Callers, Abort(c) PROVE IInv'
  BY <1>0, <1>4, MoveStep, FS_EmptySet DEF Abort, Leave, Goto, TypeOK
<1>5. ASSUME NEW c \in Callers, RecordLoad(c) PROVE IInv'
  BY <1>0, <1>5, RecordLoadStep
<1>6. ASSUME NEW c \in Callers, RecordAdvance(c) PROVE IInv'
  BY <1>0, <1>6, RecordAdvanceStep
<1>7. ASSUME NEW c \in Callers, RecordWrite(c) PROVE IInv'
  BY <1>0, <1>7, RecordWriteStep
<1>8. ASSUME NEW c \in Callers, Broadcast(c) PROVE IInv'
  BY <1>0, <1>8, BroadcastStep
<1>9. CASE Tick
  BY <1>0, <1>9, TickStep
<1>10. CASE Crash
  <2>1. FileWasWritten' /\ NothingBeforeMarker'
    BY <1>10 DEF IInv, Crash, FileWasWritten, NothingBeforeMarker
  <2> QED BY <1>0, <1>10, <2>1, QuietStep, FS_EmptySet DEF Crash
<1>11. CASE StateFileChanges
  BY <1>0, <1>11, StateFileStep
<1>12. CASE Reinitialize
  <2>1. /\ versions' = {} /\ sent' = {} /\ now' = now
        /\ UNCHANGED <<pc, mine, buf>>
        /\ \A c \in Callers : pc[c] = "idle"
        /\ stateFile'.kind # "sealed"
    BY <1>0, <1>12 DEF Reinitialize, Unreadable, TypeOK, FileState
  <2>2. FileWasWritten' /\ NothingBeforeMarker'
    BY <2>1 DEF FileWasWritten, NothingBeforeMarker
  <2> QED BY <1>0, <2>1, <2>2, QuietStep DEF FiniteParts
<1>13. CASE UNCHANGED vars
  BY <1>13 DEF vars, IInv, TypeOK, OneInside, FiniteParts, FileWasWritten, NothingBeforeMarker,
     CurrentFileKnows, BufferKnows, AdvanceHasFile, AdmittedFits, StampedFits, FitsAt, CapAlways,
     Recent, InWindow
<1> QED
  BY <1>1, <1>2, <1>3, <1>4, <1>5, <1>6, <1>7, <1>8, <1>9, <1>10, <1>11, <1>12, <1>13
  DEF Next, Operation

-----------------------------------------------------------------------------
(* Theorems                                                                *)

THEOREM Invariance == Spec => []IInv
<1>1. Init => IInv
  BY InitIInv
<1>2. IInv /\ [Next]_vars => IInv'
  BY StepIInv
<1> QED BY <1>1, <1>2, PTL DEF Spec

\* Types hold, and no token of a spend is stamped later than the clock.
THEOREM TypeCorrect == Spec => []TypeOK
<1>1. IInv => TypeOK
  BY DEF IInv
<1> QED BY <1>1, Invariance, PTL

\* enforce -> sign -> recordSpend -> broadcast keeps the cents that leave the
\* wallet in any rolling window within the daily limit, whatever the callers
\* do, wherever the process stops and whatever happens to the state file.
THEOREM CapHolds == Spec => []DailyCap
<1>1. IInv => DailyCap
  BY DEF IInv, TypeOK, CapAlways, DailyCap
<1> QED BY <1>1, Invariance, PTL

\* usage() never reports less than what left the wallet in the last window.
THEOREM UsageIsHonest == Spec => []UsageHonest
<1>1. IInv => UsageHonest
  <2> SUFFICES ASSUME IInv PROVE UsageHonest
    OBVIOUS
  <2> USE DEF IInv, TypeOK
  <2>1. CASE FailClosed
    BY <2>1 DEF UsageHonest, UsedCents, CapAlways
  <2>2. CASE ~FailClosed
    <3>1. InWindow(sent, now) \subseteq LoadedWindow /\ IsFiniteSet(LoadedWindow)
      BY <2>2, LoadedKnows DEF InWindow, Recent
    <3> QED BY <2>2, <3>1, SmallerSet DEF UsageHonest, UsedCents
  <2> QED BY <2>1, <2>2
<1> QED BY <1>1, Invariance, PTL

\* An anchor that ran ahead of the state file closes the wallet for spending
\* until the seed is initialised again.
THEOREM GapStays == Spec => GapIsPermanent
<1>1. IInv /\ [Next]_vars => [Gap => (Gap' \/ Reinitialize)]_vars
  <2> SUFFICES ASSUME IInv, [Next]_vars, Gap, ~Reinitialize PROVE Gap'
    BY DEF vars
  <2> USE DEF IInv, TypeOK, Gap
  <2>1. FailClosed
    BY DEF FailClosed, Authentic, FileWasWritten
  <2>2. \A c \in Callers : pc[c] \notin {"advance", "write"}
    BY DEF AdvanceHasFile
  <2>3. ASSUME NEW c \in Callers, NEW k \in Amounts, Request(c, k) PROVE Gap'
    BY <2>3 DEF Request, Goto
  <2>4. ASSUME NEW c \in Callers, Acquire(c) PROVE Gap'
    BY <2>4 DEF Acquire, Goto
  <2>5. ASSUME NEW c \in Callers, Abort(c) \/ Broadcast(c) PROVE Gap'
    BY <2>5 DEF Abort, Broadcast, Leave, Goto
  <2>6. ASSUME NEW c \in Callers PROVE ~Enforce(c) /\ ~RecordLoad(c) /\ ~RecordAdvance(c) /\ ~RecordWrite(c)
    BY <2>1, <2>2 DEF Enforce, RecordLoad, RecordAdvance, RecordWrite
  <2>7. CASE Tick \/ Crash \/ StateFileChanges \/ UNCHANGED vars
    BY <2>7 DEF Tick, Crash, StateFileChanges, vars
  <2> QED BY <2>3, <2>4, <2>5, <2>6, <2>7 DEF Next, Operation
<1> QED BY <1>1, Invariance, PTL DEF Spec, GapIsPermanent
=============================================================================
