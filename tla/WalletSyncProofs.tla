-------------------------- MODULE WalletSyncProofs --------------------------
(***************************************************************************)
(* WalletSync for any callers, addresses, wollets and faults: no address   *)
(* is handed out twice, no wollet is freed under a scan, a scan misses     *)
(* nothing that was due, and the wollet in use shows the spends whose      *)
(* refresh was reported done.                                              *)
(***************************************************************************)
EXTENDS WalletSync, WellFoundedInduction, TLAPS

\* A rescan holds the slot for as long as it waits for its scan.
RescanHasSlot == \A c \in Callers : At(c, "rescanScan") => scan.at # "none" /\ scan.on # main

\* The wollet a rescan is about to free is neither in use nor being scanned.
FreeIsUnwanted ==
  \A c \in Callers : At(c, "free") =>
    call[c].on # main /\ (scan.at # "none" => scan.on # call[c].on)

\* The counter the process has read is ahead of every address handed out.
CounterIsAhead ==
  /\ memIndex <= nextIndex
  /\ \A i \in Indices : handed[i] > 0 => i < memIndex

\* An address that is about to be handed out is new, and counted on disk.
PendingIsNew ==
  \A c \in Callers :
    /\ call[c].at \in {"count", "bump", "raise", "refresh"} => call[c].index >= memIndex
    /\ call[c].at \in {"bump", "raise", "refresh"} => call[c].index < nextIndex

IInv ==
  /\ TypeOK /\ NoFreedWolletIsScanned /\ RescanHasSlot /\ FreeIsUnwanted
  /\ CounterIsAhead /\ PendingIsNew /\ AddressesAreFresh

-----------------------------------------------------------------------------
(* Lemmas                                                                  *)

\* A nonempty set of numbers has a least element.
LEMMA Smallest ==
  ASSUME NEW T \in SUBSET Nat, T # {}
  PROVE  \E n \in T : \A m \in T : n <= m
<1>1. IsWellFoundedOn(OpToRel(<, Nat), Nat) BY NatLessThanWellFounded
<1>2. PICK x \in T : \A y \in T : ~(<<y, x>> \in OpToRel(<, Nat)) BY <1>1, WFMin
<1>3. \A y \in Nat : y < x => <<y, x>> \in OpToRel(<, Nat) BY DEF OpToRel
<1>4. \A y \in T : y \in Nat OBVIOUS
<1>5. \A y \in T : ~(y < x) BY <1>2, <1>3, <1>4
<1> QED BY <1>4, <1>5

\* An address after the last one used exists.
LEMMA NextUnusedExists ==
  ASSUME NEW s \in SUBSET Txs
  PROVE  \E n \in 0..MaxIndex : (\A i \in Used(s) : i < n) /\ (n > 0 => n - 1 \in Used(s))
<1>0. MaxIndex \in Nat \ {0} BY BoundsAssumption
<1>1. Used(s) \subseteq 0..(MaxIndex - 1) BY DEF Used, Txs, Indices
<1> DEFINE Above == {n \in 0..MaxIndex : \A i \in Used(s) : i < n}
<1>2. Above \subseteq Nat /\ MaxIndex \in Above BY <1>0, <1>1
<1> HIDE DEF Above
<1>3. PICK n \in Above : \A m \in Above : n <= m BY <1>2, Smallest
<1>4. n \in 0..MaxIndex /\ \A i \in Used(s) : i < n BY <1>3 DEF Above
<1>5. n > 0 => n - 1 \in Used(s)
  <2> SUFFICES ASSUME n > 0, n - 1 \notin Used(s) PROVE FALSE OBVIOUS
  <2>1. n - 1 \in 0..MaxIndex BY <1>0, <1>4
  <2>2. \A i \in Used(s) : i < n - 1
    <3> TAKE i \in Used(s)
    <3>1. i \in Nat /\ i < n /\ i # n - 1 BY <1>0, <1>1, <1>4
    <3> QED BY <3>1, <2>1, <1>4
  <2>3. n - 1 \in Above BY <2>1, <2>2 DEF Above
  <2>4. n <= n - 1 BY <2>3, <1>3
  <2> QED BY <2>4, <1>4
<1> QED BY <1>4, <1>5

\* So LWK's next unused index is one.
LEMMA NextUnusedType ==
  ASSUME NEW s \in SUBSET Txs
  PROVE  NextUnused(s) \in 0..MaxIndex
<1>1. \E n \in 0..MaxIndex : (\A i \in Used(s) : i < n) /\ (n > 0 => n - 1 \in Used(s))
  BY NextUnusedExists
<1> QED BY <1>1 DEF NextUnused

\* Calls and scans as the actions make them.
LEMMA CallTypes ==
  /\ \A place \in Places, j \in Jobs, w \in Wollets \union {None} :
       /\ Call(place, j, w) \in Calls
       /\ Call(place, j, w).at = place /\ Call(place, j, w).on = w
  /\ NoCall \in Calls /\ NoCall.at = "idle"
  /\ \A j \in Jobs : Refreshed(j) \in Calls /\ Refreshed(j).at \in {"idle", "queue"}
<1>1. 0 \in Indices BY BoundsAssumption DEF Indices
<1>2. \A place \in Places, j \in Jobs, w \in Wollets \union {None} :
         /\ Call(place, j, w) \in Calls
         /\ Call(place, j, w).at = place /\ Call(place, j, w).on = w
  BY <1>1 DEF Call, Calls
<1>3. "idle" \in Places /\ "queue" \in Places /\ "read" \in Jobs /\ "spend" \in Jobs
  BY DEF Places, Jobs
<1>4. NoCall \in Calls /\ NoCall.at = "idle" BY <1>2, <1>3 DEF NoCall
<1> QED BY <1>2, <1>3, <1>4 DEF Refreshed

\* The records scans begin and end with are scans.
LEMMA ScanTypes ==
  /\ \A place \in ScanPlaces, w \in Wollets \union {None} :
       /\ Scan(place, w) \in Scans
       /\ Scan(place, w).at = place /\ Scan(place, w).on = w
  /\ NoScan \in Scans /\ NoScan.at = "none"
<1>1. 0 \in 0..MaxIndex BY BoundsAssumption
<1>2. \A place \in ScanPlaces, w \in Wollets \union {None} :
         /\ Scan(place, w) \in Scans
         /\ Scan(place, w).at = place /\ Scan(place, w).on = w
  BY <1>1 DEF Scan, Scans
<1> QED BY <1>2 DEF NoScan, ScanPlaces

\* The scan in the slot goes on with its wollet, or it settles.
ScanGoesOn ==
  \E next \in Scans : ScanOn(next) /\ next.on = scan.on /\ next.at # "none"
ScanEnds == \E ok \in BOOLEAN : SettleFor(ok)

\* Whatever a step of the scan does, it leaves the addresses, the counters and the
\* section alone, and borrows no wollet but its own.
LEMMA ScanningShape ==
  ASSUME TypeOK, NoFreedWolletIsScanned, Scanning
  PROVE  /\ scan.at # "none"
         /\ UNCHANGED <<chain, handed, nextIndex, memIndex, alive, holder>>
         /\ zombies' \subseteq zombies \union {scan.on}
         /\ ScanGoesOn \/ ScanEnds
<1>0. scan \in Scans /\ MaxIndex \in Nat /\ floor \in 0..MaxIndex /\ chain \in SUBSET Txs
  BY BoundsAssumption DEF TypeOK
<1>b. 0 \in 0..MaxIndex /\ \A n \in 0..floor : n \in 0..MaxIndex BY <1>0
<1>a. \A next \in Scans : ScanOn(next) /\ next.on = scan.on /\ next.at # "none" => ScanGoesOn
  BY DEF ScanGoesOn
<1>1. ASSUME NEW place \in ScanPlaces \ {"none"}, ScanGoto(place) PROVE ScanGoesOn
  <2>1. [scan EXCEPT !.at = place] \in Scans BY <1>0, <1>b DEF Scans
  <2>2. [scan EXCEPT !.at = place].on = scan.on /\ [scan EXCEPT !.at = place].at = place
    BY <1>0 DEF Scans
  <2> QED BY <1>1, <2>1, <2>2, <1>a DEF ScanGoto
<1>2. SettleFor(TRUE) \/ SettleFor(FALSE) => ScanEnds BY DEF ScanEnds
<1>3. Covered => ScanGoesOn \/ ScanEnds BY <1>1, <1>2 DEF Covered, ScanPlaces
<1>4. Rotate => ScanGoesOn \/ ScanEnds
  <2>1. ASSUME ScanOn([scan EXCEPT !.at = "ask", !.copy = 0])
      PROVE  ScanGoesOn
    <3> DEFINE next == [scan EXCEPT !.at = "ask", !.copy = 0]
    <3>1. next \in Scans BY <1>0, <1>b DEF Scans, ScanPlaces
    <3>2. next.on = scan.on /\ next.at # "none" BY <1>0 DEF Scans
    <3> QED BY <2>1, <3>1, <3>2, <1>a
  <2> QED BY <2>1, <1>2 DEF Rotate
<1>5. CASE Clear
  <2>1. ASSUME NEW n \in 0..floor, ScanOn([scan EXCEPT !.at = "wipe", !.copy = n])
      PROVE  ScanGoesOn
    <3> DEFINE next == [scan EXCEPT !.at = "wipe", !.copy = n]
    <3>1. next \in Scans BY <1>0, <1>b DEF Scans, ScanPlaces
    <3>2. next.on = scan.on /\ next.at # "none" BY <1>0 DEF Scans
    <3> QED BY <2>1, <3>1, <3>2, <1>a
  <2> QED BY <1>5, <2>1 DEF Clear, outside
<1>6. CASE Wipe BY <1>6, <1>1 DEF Wipe, outside, ScanPlaces
<1>7. CASE Rewrite
  <2>1. ASSUME ScanOn([scan EXCEPT !.at = "hint", !.copy = 0])
      PROVE  ScanGoesOn
    <3> DEFINE next == [scan EXCEPT !.at = "hint", !.copy = 0]
    <3>1. next \in Scans BY <1>0, <1>b DEF Scans, ScanPlaces
    <3>2. next.on = scan.on /\ next.at # "none" BY <1>0 DEF Scans
    <3> QED BY <2>1, <3>1, <3>2, <1>a
  <2> QED BY <1>7, <2>1 DEF Rewrite, outside
<1>8. CASE ClearFails BY <1>8, <1>2 DEF ClearFails, outside, disk
<1>9. CASE Hint
  <2>1. Due \subseteq Indices BY DEF Due, Record, TypeOK
  <2>2. ASSUME NEW n \in 0..floor, ScanOn([scan EXCEPT !.at = "ask", !.floor = n, !.due = Due])
      PROVE  ScanGoesOn
    <3> DEFINE next == [scan EXCEPT !.at = "ask", !.floor = n, !.due = Due]
    <3>1. next \in Scans BY <1>0, <1>b, <2>1 DEF Scans, ScanPlaces
    <3>2. next.on = scan.on /\ next.at # "none" BY <1>0, <2>1 DEF Scans
    <3> QED BY <2>2, <3>1, <3>2, <1>a
  <2> QED BY <1>9, <2>2 DEF Hint, outside, disk
<1>10. CASE Ask
  <2>1. ASSUME NEW answer \in SUBSET Txs, ScanOn([scan EXCEPT !.at = "apply", !.got = answer])
      PROVE  ScanGoesOn
    <3> DEFINE next == [scan EXCEPT !.at = "apply", !.got = answer]
    <3>1. next \in Scans BY <1>0, <1>b DEF Scans, ScanPlaces
    <3>2. next.on = scan.on /\ next.at # "none" BY <1>0 DEF Scans
    <3> QED BY <2>1, <3>1, <3>2, <1>a
  <2>2. Answers(scan.floor) \subseteq SUBSET Txs BY <1>0 DEF Answers
  <2> QED BY <1>10, <2>1, <2>2 DEF Ask, outside, disk
<1>11. CASE AskFails BY <1>11, <1>4 DEF AskFails, outside, disk
<1>12. CASE Apply
  <2>1. view[scan.on] \in SUBSET Txs
    BY <1>12 DEF Apply, TypeOK, NoFreedWolletIsScanned
  <2>2. ASSUME ScanOn([scan EXCEPT !.at = "cover", !.got = {}, !.due = {}, !.floor = 0,
                                 !.before = view[scan.on], !.changed = TRUE])
      PROVE  ScanGoesOn
    <3> DEFINE next == [scan EXCEPT !.at = "cover", !.got = {}, !.due = {}, !.floor = 0,
                                !.before = view[scan.on], !.changed = TRUE]
    <3>1. next \in Scans BY <1>0, <1>b, <2>1 DEF Scans, ScanPlaces
    <3>2. next.on = scan.on /\ next.at # "none" BY <1>0 DEF Scans
    <3> QED BY <2>2, <3>1, <3>2, <1>a
  <2>3. ASSUME ScanOn([scan EXCEPT !.at = "metaRead", !.got = {}])
      PROVE  ScanGoesOn
    <3> DEFINE next == [scan EXCEPT !.at = "metaRead", !.got = {}]
    <3>1. next \in Scans BY <1>0, <1>b DEF Scans, ScanPlaces
    <3>2. next.on = scan.on /\ next.at # "none" BY <1>0 DEF Scans
    <3> QED BY <2>3, <3>1, <3>2, <1>a
  <2>4. ASSUME ScanOn([scan EXCEPT !.at = "ask", !.got = {}])
      PROVE  ScanGoesOn
    <3> DEFINE next == [scan EXCEPT !.at = "ask", !.got = {}]
    <3>1. next \in Scans BY <1>0, <1>b DEF Scans, ScanPlaces
    <3>2. next.on = scan.on /\ next.at # "none" BY <1>0 DEF Scans
    <3> QED BY <2>4, <3>1, <3>2, <1>a
  <2> QED BY <1>12, <2>2, <2>3, <2>4 DEF Apply, outside, disk
<1>13. CASE Cover BY <1>13, <1>1, <1>3 DEF Cover, ScanPlaces, outside, disk
<1>14. CASE RaiseFloor BY <1>14, <1>3 DEF RaiseFloor, outside
<1>15. CASE Persist
  <2>1. ASSUME ScanOn([scan EXCEPT !.at = "metaRead", !.before = {}])
      PROVE  ScanGoesOn
    <3> DEFINE next == [scan EXCEPT !.at = "metaRead", !.before = {}]
    <3>1. next \in Scans BY <1>0, <1>b DEF Scans, ScanPlaces
    <3>2. next.on = scan.on /\ next.at # "none" BY <1>0 DEF Scans
    <3> QED BY <2>1, <3>1, <3>2, <1>a
  <2> QED BY <1>15, <2>1 DEF Persist, outside
<1>16. CASE MetaRead
  <2>1. ASSUME NEW n \in 0..floor, ScanOn([scan EXCEPT !.at = "metaWrite", !.copy = n])
      PROVE  ScanGoesOn
    <3> DEFINE next == [scan EXCEPT !.at = "metaWrite", !.copy = n]
    <3>1. next \in Scans BY <1>0, <1>b DEF Scans, ScanPlaces
    <3>2. next.on = scan.on /\ next.at # "none" BY <1>0 DEF Scans
    <3> QED BY <2>1, <3>1, <3>2, <1>a
  <2> QED BY <1>16, <2>1 DEF MetaRead, outside, disk
<1>17. CASE MetaWrite BY <1>17, <1>1, <1>2 DEF MetaWrite, ScanPlaces, outside
<1>18. CASE MetaFails BY <1>18, <1>1, <1>2, <1>4 DEF MetaFails, ScanPlaces, outside, disk
<1> QED
  BY <1>5, <1>6, <1>7, <1>8, <1>9, <1>10, <1>11, <1>12, <1>13, <1>14, <1>15, <1>16, <1>17, <1>18
  DEF Scanning

\* ... and what it may write.
LEMMA ScanningTypes ==
  ASSUME TypeOK, NoFreedWolletIsScanned, Scanning
  PROVE  /\ floor' \in 0..MaxIndex /\ stored' \subseteq Txs /\ faults' \in 0..MaxFaults
         /\ view' \in [Wollets -> SUBSET Txs] /\ floorLost' \in BOOLEAN
<1>0. /\ MaxIndex \in Nat /\ MaxFaults \in Nat /\ floor \in 0..MaxIndex /\ faults \in 0..MaxFaults
      /\ scan \in Scans /\ stored \in SUBSET Txs /\ view \in [Wollets -> SUBSET Txs]
      /\ floorLost \in BOOLEAN
  BY BoundsAssumption DEF TypeOK
<1>1. Fault \/ NoFault => faults' \in 0..MaxFaults BY <1>0 DEF Fault, NoFault
<1>2. \A n : FloorRead(n) => faults' \in 0..MaxFaults /\ floorLost' \in BOOLEAN
  BY <1>0, <1>1 DEF FloorRead
<1>3. \A n \in 0..MaxIndex : WriteFloor(n) => floor' \in 0..MaxIndex /\ floorLost' \in BOOLEAN
  BY <1>0 DEF WriteFloor
<1>4. scan.at # "none" => view[scan.on] \in SUBSET Txs BY <1>0 DEF TypeOK, NoFreedWolletIsScanned
<1>5. scan.at # "none" => NextUnused(view[scan.on]) \in 0..MaxIndex BY <1>4, NextUnusedType
<1>6. scan.copy \in 0..MaxIndex /\ scan.got \in SUBSET Txs BY <1>0 DEF Scans
<1>7. CASE Clear BY <1>7, <1>0, <1>2 DEF Clear
<1>8. CASE Wipe BY <1>8, <1>0 DEF Wipe
<1>9. CASE Rewrite BY <1>9, <1>0, <1>6 DEF Rewrite
<1>10. CASE ClearFails BY <1>10, <1>0, <1>1 DEF ClearFails, disk
<1>11. CASE Hint BY <1>11, <1>0, <1>2 DEF Hint, disk
<1>12. CASE Ask BY <1>12, <1>0 DEF Ask, disk
<1>13. CASE AskFails BY <1>13, <1>0 DEF AskFails, disk
<1>14. CASE Apply BY <1>14, <1>0, <1>4, <1>6 DEF Apply, disk
<1>15. CASE Cover BY <1>15, <1>0, <1>1 DEF Cover, disk
<1>16. CASE RaiseFloor BY <1>16, <1>0, <1>3, <1>5 DEF RaiseFloor
<1>17. CASE Persist BY <1>17, <1>0, <1>1, <1>4 DEF Persist
<1>18. CASE MetaRead BY <1>18, <1>0, <1>2 DEF MetaRead, disk
<1>19. CASE MetaWrite BY <1>19, <1>0, <1>3, <1>6 DEF MetaWrite
<1>20. CASE MetaFails BY <1>20, <1>0, <1>1 DEF MetaFails, disk
<1> QED
  BY <1>7, <1>8, <1>9, <1>10, <1>11, <1>12, <1>13, <1>14, <1>15, <1>16, <1>17, <1>18, <1>19, <1>20
  DEF Scanning

\* A step of one call: it becomes r, and enters, keeps or leaves the section.
CallStep(c, r) ==
  /\ r \in Calls
  /\ call' = [call EXCEPT ![c] = r]
  /\ \/ holder' = holder /\ (r.at \in Inside <=> call[c].at \in Inside)
     \/ holder = None /\ holder' = c /\ r.at \in Inside
     \/ call[c].at \in Inside /\ holder' = None /\ r.at \notin Inside

\* The call to which a Move leads.
Moved(c, place) == [call[c] EXCEPT !.at = place]

\* A call that moves keeps its wollet and its index.
LEMMA MovedType ==
  ASSUME TypeOK, NEW c \in Callers, NEW place \in Places
  PROVE  /\ Moved(c, place) \in Calls
         /\ Moved(c, place).at = place
         /\ Moved(c, place).on = call[c].on /\ Moved(c, place).index = call[c].index
         /\ Move(c, place) => call' = [call EXCEPT ![c] = Moved(c, place)]
<1>1. call[c] \in Calls BY DEF TypeOK
<1> QED BY <1>1 DEF Calls, Moved, Move

\* Such a step keeps the calls well-typed and opMutex exclusive.
LEMMA CallStepTypes ==
  ASSUME TypeOK, NEW c \in Callers, NEW r, CallStep(c, r)
  PROVE  /\ call' \in [Callers -> Calls] /\ holder' \in Callers \union {None}
         /\ \A d \in Callers : call'[d].at \in Inside <=> holder' = d
         /\ call'[c] = r /\ \A d \in Callers \ {c} : call'[d] = call[d]
<1>1. call \in [Callers -> Calls] /\ holder \in Callers \union {None} BY DEF TypeOK
<1>2. r \in Calls /\ call' = [call EXCEPT ![c] = r] BY DEF CallStep
<1>3. call' \in [Callers -> Calls] /\ call'[c] = r /\ \A d \in Callers \ {c} : call'[d] = call[d]
  BY <1>1, <1>2
<1>4. None \notin Callers BY NoneAssumption
<1>5. holder' \in Callers \union {None} BY <1>1 DEF CallStep
<1>6. ASSUME NEW d \in Callers PROVE call'[d].at \in Inside <=> holder' = d
  <2>1. call[d].at \in Inside <=> holder = d BY DEF TypeOK
  <2>2. call[c].at \in Inside <=> holder = c BY DEF TypeOK
  <2> QED BY <1>3, <1>4, <2>1, <2>2 DEF CallStep
<1> QED BY <1>3, <1>5, <1>6

\* A scan that settles answers its callers, and hands the wollet that is not
\* wanted to the rescan.
LEMMA Settled ==
  ASSUME IInv, scan.at # "none", NEW ok \in BOOLEAN, SettleFor(ok)
  PROVE  /\ main' \in {main, scan.on} /\ scan' = NoScan
         /\ synced' \in BOOLEAN /\ shown' \subseteq Txs /\ known' \subseteq Indices
         /\ call' \in [Callers -> Calls]
         /\ \A c \in Callers :
              /\ call'[c] = call[c] \/ call'[c].at \in {"idle", "queue", "free"}
              /\ call'[c].at \in Inside <=> call[c].at \in Inside
              /\ call'[c].at # "rescanScan"
              /\ call'[c].at = "free" => call'[c].on # main'
<1>0. TypeOK /\ scan.on \in Wollets /\ main \in Wollets BY DEF IInv, TypeOK, NoFreedWolletIsScanned
<1>1. main' = InUse(ok) /\ main' \in {main, scan.on} BY DEF SettleFor, InUse
<1>2. scan' = NoScan BY DEF SettleFor
<1>3. synced' \in BOOLEAN BY <1>0 DEF SettleFor, TypeOK
<1>4. shown' \subseteq Txs
  <2>1. \A c \in Callers : <<call[c].index, "out">> \in Txs BY <1>0 DEF TypeOK, Calls, Txs
  <2> QED BY <1>0, <2>1 DEF SettleFor, Record, TypeOK
<1>5. known' \subseteq Indices
  <2>1. view[scan.on] \subseteq Txs BY <1>0 DEF TypeOK
  <2>2. Used(view[scan.on]) \subseteq Indices BY <2>1 DEF Used, Txs
  <2> QED BY <1>0, <2>2 DEF SettleFor, Record, TypeOK
<1> DEFINE unwanted == IF InUse(ok) = main THEN scan.on ELSE main
<1>6. ASSUME NEW c \in Callers
      PROVE  /\ call'[c] \in Calls
             /\ call'[c] = call[c] \/ call'[c].at \in {"idle", "queue", "free"}
             /\ call'[c].at \in Inside <=> call[c].at \in Inside
             /\ call'[c].at # "rescanScan"
             /\ call'[c].at = "free" => call'[c].on # main'
  <2>0. call[c] \in Calls /\ call[c].job \in Jobs BY <1>0 DEF TypeOK, Calls
  <2>1. CASE At(c, "before")
    <3>1. call'[c] = Refreshed(call[c].job) BY <2>1 DEF SettleFor, At
    <3> QED BY <2>0, <2>1, <3>1, CallTypes DEF At, Inside
  <2>2. CASE At(c, "after")
    <3>1. call'[c] = NoCall BY <2>2 DEF SettleFor, At
    <3> QED BY <2>2, <3>1, CallTypes DEF At, Inside
  <2>3. CASE At(c, "rescanScan")
    <3>1. call'[c] = Call("free", "rescan", unwanted) BY <2>3 DEF SettleFor, At
    <3>2. unwanted \in Wollets /\ "free" \in Places /\ "rescan" \in Jobs
      BY <1>0 DEF Places, Inside, Jobs
    <3>3. call'[c] \in Calls /\ call'[c].at = "free" /\ call'[c].on = unwanted
      BY <3>1, <3>2, CallTypes
    <3>4. scan.on # main BY <2>3 DEF IInv, RescanHasSlot
    <3>5. unwanted # main' BY <1>1, <3>4
    <3> QED BY <2>3, <3>3, <3>5 DEF At, Inside
  <2>4. CASE ~At(c, "before") /\ ~At(c, "after") /\ ~At(c, "rescanScan")
    <3>1. call'[c] = call[c] BY <2>4 DEF SettleFor
    <3>2. At(c, "free") => call[c].on # main /\ call[c].on # scan.on BY DEF IInv, FreeIsUnwanted
    <3> QED BY <2>0, <2>4, <3>1, <3>2, <1>1 DEF At
  <2> QED BY <2>1, <2>2, <2>3, <2>4
<1>7. call' = [c \in Callers |-> call'[c]] BY DEF SettleFor
<1>8. call' \in [Callers -> Calls] BY <1>6, <1>7
<1> QED BY <1>1, <1>2, <1>3, <1>4, <1>5, <1>6, <1>8

\* The scan in the slot keeps the invariant.
LEMMA ScanningKeeps == ASSUME IInv, Scanning PROVE IInv'
<1>0. TypeOK /\ NoFreedWolletIsScanned BY DEF IInv
<1>1. /\ scan.at # "none" /\ scan.on \in alive
      /\ chain' = chain /\ handed' = handed /\ nextIndex' = nextIndex /\ memIndex' = memIndex
      /\ alive' = alive /\ holder' = holder
      /\ zombies' \subseteq zombies \union {scan.on}
  BY <1>0, ScanningShape DEF NoFreedWolletIsScanned
<1>2. zombies' \subseteq alive' /\ zombies' \subseteq Wollets
  BY <1>0, <1>1 DEF TypeOK, NoFreedWolletIsScanned
<1>3. CASE ScanGoesOn
  <2>1. PICK next \in Scans : ScanOn(next) /\ next.on = scan.on /\ next.at # "none"
    BY <1>3 DEF ScanGoesOn
  <2>2. /\ scan' \in Scans /\ scan'.on = scan.on /\ scan'.at # "none"
        /\ UNCHANGED <<main, call, synced, shown, known>>
    BY <2>1 DEF ScanOn
  <2>3. TypeOK' BY <1>0, <1>1, <1>2, <2>2, ScanningTypes DEF TypeOK
  <2>4. NoFreedWolletIsScanned' BY <1>1, <1>2, <2>2 DEF NoFreedWolletIsScanned
  <2>5. RescanHasSlot' /\ FreeIsUnwanted'
    BY <1>1, <2>2 DEF IInv, RescanHasSlot, FreeIsUnwanted, At
  <2>6. CounterIsAhead' /\ PendingIsNew' /\ AddressesAreFresh'
    BY <1>1, <2>2 DEF IInv, CounterIsAhead, PendingIsNew, AddressesAreFresh
  <2> QED BY <2>3, <2>4, <2>5, <2>6 DEF IInv
<1>4. CASE ScanEnds
  <2>1. PICK ok \in BOOLEAN : SettleFor(ok) BY <1>4 DEF ScanEnds
  <2>2. /\ main' \in {main, scan.on} /\ scan' = NoScan
        /\ synced' \in BOOLEAN /\ shown' \subseteq Txs /\ known' \subseteq Indices
        /\ call' \in [Callers -> Calls]
        /\ \A c \in Callers :
             /\ call'[c] = call[c] \/ call'[c].at \in {"idle", "queue", "free"}
             /\ call'[c].at \in Inside <=> call[c].at \in Inside
             /\ call'[c].at # "rescanScan"
             /\ call'[c].at = "free" => call'[c].on # main'
    BY <1>1, <2>1, Settled
  <2>3. scan' \in Scans /\ scan'.at = "none" BY <2>2, ScanTypes
  <2>4. main' \in alive' BY <1>0, <1>1, <2>2 DEF TypeOK
  <2>5. TypeOK' BY <1>0, <1>1, <1>2, <2>2, <2>3, <2>4, ScanningTypes DEF TypeOK
  <2>6. NoFreedWolletIsScanned' BY <1>2, <2>3 DEF NoFreedWolletIsScanned
  <2>7. RescanHasSlot' /\ FreeIsUnwanted' BY <2>2, <2>3 DEF RescanHasSlot, FreeIsUnwanted, At
  <2>8. PendingIsNew' BY <1>1, <2>2 DEF IInv, PendingIsNew
  <2>9. CounterIsAhead' /\ AddressesAreFresh'
    BY <1>1 DEF IInv, CounterIsAhead, AddressesAreFresh
  <2> QED BY <2>5, <2>6, <2>7, <2>8, <2>9 DEF IInv
<1> QED BY <1>0, <1>3, <1>4, ScanningShape

\* What the steps of a call outside the rescan have in common: they leave the
\* wollets alone, may start or join a scan, and may raise the counter.
Quiet(c, r) ==
  /\ CallStep(c, r)
  /\ UNCHANGED <<handed, memIndex, main, alive, zombies>>
  /\ scan' = scan \/ JoinOrScan
  /\ nextIndex' \in nextIndex..MaxIndex
  /\ r.at \notin {"rescanScan", "free"}
  /\ r.at \in {"count", "bump", "raise", "refresh"} => r.index >= memIndex
  /\ r.at \in {"bump", "raise", "refresh"} => r.index < nextIndex'
  /\ chain' \subseteq Txs /\ stored' \subseteq Txs /\ floor' \in 0..MaxIndex
  /\ view' \in [Wollets -> SUBSET Txs]
  /\ floorLost' \in BOOLEAN /\ faults' \in 0..MaxFaults
  /\ UNCHANGED <<synced, shown, known>>

\* Such a step keeps the invariant.
LEMMA QuietKeeps == ASSUME IInv, NEW c \in Callers, NEW r, Quiet(c, r) PROVE IInv'
<1>0. TypeOK /\ MaxIndex \in Nat /\ main \in alive /\ alive \subseteq Wollets
  BY BoundsAssumption DEF IInv, TypeOK
<1>1. /\ call' \in [Callers -> Calls] /\ holder' \in Callers \union {None}
      /\ \A d \in Callers : call'[d].at \in Inside <=> holder' = d
      /\ call'[c] = r /\ \A d \in Callers \ {c} : call'[d] = call[d]
  BY <1>0, CallStepTypes DEF Quiet
<1>2. UNCHANGED <<handed, memIndex, main, alive, zombies, synced, shown, known>> BY DEF Quiet
<1>3. \/ scan' = scan
      \/ scan.at = "none" /\ scan' \in Scans /\ scan'.on = main /\ scan'.at # "none"
  <2>1. "hint" \in ScanPlaces /\ main \in Wollets \union {None} BY <1>0 DEF ScanPlaces
  <2>2. Scan("hint", main) \in Scans /\ Scan("hint", main).on = main /\ Scan("hint", main).at = "hint"
    BY <2>1, ScanTypes
  <2> QED BY <2>2 DEF Quiet, JoinOrScan, SlotIsFree
<1>4. nextIndex \in Nat /\ memIndex \in Nat /\ nextIndex' \in 0..MaxIndex /\ nextIndex <= nextIndex'
  BY <1>0 DEF Quiet, TypeOK
<1>5. TypeOK' BY <1>0, <1>1, <1>2, <1>3, <1>4 DEF TypeOK, Quiet
<1>6. NoFreedWolletIsScanned' BY <1>0, <1>2, <1>3 DEF IInv, NoFreedWolletIsScanned
<1>7. RescanHasSlot'
  <2> SUFFICES ASSUME NEW d \in Callers, At(d, "rescanScan")' PROVE scan'.at # "none" /\ scan'.on # main'
    BY DEF RescanHasSlot
  <2>1. d # c /\ At(d, "rescanScan") BY <1>1 DEF Quiet, At
  <2>2. scan.at # "none" /\ scan.on # main BY <2>1 DEF IInv, RescanHasSlot
  <2> QED BY <2>2, <1>2, <1>3
<1>8. FreeIsUnwanted'
  <2> SUFFICES ASSUME NEW d \in Callers, At(d, "free")'
               PROVE  call'[d].on # main' /\ (scan'.at # "none" => scan'.on # call'[d].on)
    BY DEF FreeIsUnwanted
  <2>1. d # c /\ At(d, "free") /\ call'[d] = call[d] BY <1>1 DEF Quiet, At
  <2>2. call[d].on # main /\ (scan.at # "none" => scan.on # call[d].on)
    BY <2>1 DEF IInv, FreeIsUnwanted
  <2> QED BY <2>1, <2>2, <1>2, <1>3
<1>9. CounterIsAhead' BY <1>2, <1>4 DEF IInv, CounterIsAhead
<1>10. PendingIsNew'
  <2> SUFFICES ASSUME NEW d \in Callers
               PROVE  /\ call'[d].at \in {"count", "bump", "raise", "refresh"} => call'[d].index >= memIndex
                      /\ call'[d].at \in {"bump", "raise", "refresh"} => call'[d].index < nextIndex'
    BY <1>2 DEF PendingIsNew
  <2>1. CASE d = c BY <2>1, <1>1 DEF Quiet
  <2>2. CASE d # c
    <3>1. call'[d] = call[d] BY <2>2, <1>1
    <3>2. call[d].index \in Nat BY <1>0 DEF TypeOK, Calls, Indices
    <3> QED BY <3>1, <3>2, <1>4 DEF IInv, PendingIsNew
  <2> QED BY <2>1, <2>2
<1>11. AddressesAreFresh' BY <1>2 DEF IInv, AddressesAreFresh
<1> QED BY <1>5, <1>6, <1>7, <1>8, <1>9, <1>10, <1>11 DEF IInv

\* The quiet steps, one by one.
LEMMA QuietSteps ==
  ASSUME IInv, NEW c \in Callers,
         \/ Begin(c) \/ Enter(c) \/ Spend(c) \/ After(c) \/ Derive(c) \/ Count(c)
         \/ Bump(c) \/ Raise(c) \/ RescanGivesUp(c)
  PROVE  \E r : Quiet(c, r)
<1>0. /\ TypeOK /\ call[c] \in Calls /\ call[c].at \in Places /\ MaxIndex \in Nat /\ MaxFaults \in Nat
      /\ chain \in SUBSET Txs /\ stored \in SUBSET Txs /\ floor \in 0..MaxIndex
      /\ view \in [Wollets -> SUBSET Txs] /\ floorLost \in BOOLEAN /\ faults \in 0..MaxFaults
      /\ nextIndex \in nextIndex..MaxIndex
  BY BoundsAssumption DEF IInv, TypeOK, Calls
<1>1. main \in Wollets \union {None} /\ None \in Wollets \union {None} BY <1>0 DEF TypeOK
<1>2. /\ NoCall \in Calls /\ NoCall.at = "idle"
      /\ \A j \in Jobs : Refreshed(j) \in Calls /\ Refreshed(j).at \in {"idle", "queue"}
      /\ \A place \in Places, j \in Jobs, w \in Wollets \union {None} :
           /\ Call(place, j, w) \in Calls
           /\ Call(place, j, w).at = place
  BY CallTypes
<1>3. {"idle", "before", "queue", "spent", "after"} \cap Inside = {} BY DEF Inside
<1>4. \A place \in Places :
        /\ Moved(c, place) \in Calls /\ Moved(c, place).at = place
        /\ Moved(c, place).index = call[c].index
        /\ Move(c, place) => call' = [call EXCEPT ![c] = Moved(c, place)]
  BY <1>0, MovedType
<1>5. call[c].at \in Inside => call[c].index \in Nat BY <1>0 DEF Calls, Indices
<1>6. CASE \E j \in {"read", "spend", "inflow", "sync"} \cap CallKinds : BeginRefreshed(c, j)
  <2>1. PICK j \in {"read", "spend", "inflow", "sync"} : BeginRefreshed(c, j) BY <1>6
  <2> DEFINE k == IF j = "inflow" THEN "read" ELSE j
  <2>2. k \in Jobs /\ "before" \in Places BY DEF Jobs, Places
  <2>3. CASE j \in {"read", "spend"} /\ call' = [call EXCEPT ![c] = Refreshed(j)] /\ UNCHANGED scan
    <3>1. j \in Jobs BY <2>3 DEF Jobs
    <3>2. Quiet(c, Refreshed(j))
      BY <1>0, <1>1, <1>2, <1>3, <2>1, <2>3, <3>1
      DEF BeginRefreshed, Quiet, CallStep, At, outside, disk, memory, past, Inside
    <3> QED BY <3>2
  <2>4. CASE JoinOrScan /\ call' = [call EXCEPT ![c] = Call("before", k, None)]
    <3> HIDE DEF k
    <3>1. Quiet(c, Call("before", k, None))
      BY <1>0, <1>1, <1>2, <1>3, <2>1, <2>2, <2>4
      DEF BeginRefreshed, Quiet, CallStep, At, outside, disk, memory, past, Inside
    <3> QED BY <3>1
  <2> QED BY <2>1, <2>3, <2>4 DEF BeginRefreshed
<1>7. CASE \E j \in {"address", "rescan"} \cap CallKinds : BeginQueued(c, j)
  <2>1. PICK j \in {"address", "rescan"} : BeginQueued(c, j) BY <1>7
  <2>2. j \in Jobs /\ "queue" \in Places BY DEF Jobs, Places
  <2>3. Quiet(c, Call("queue", j, IF j = "address" THEN main ELSE None))
    BY <1>0, <1>1, <1>2, <1>3, <2>1, <2>2
    DEF BeginQueued, Quiet, CallStep, At, outside, disk, memory, engine, past, Inside
  <2> QED BY <2>3
<1>8. CASE Enter(c)
  <2> DEFINE place == IF call[c].job = "address" THEN "derive" ELSE "rescan"
  <2>1. place \in Places /\ place \in Inside BY DEF Places, Inside
  <2>2. Quiet(c, Moved(c, place))
    BY <1>8, <1>0, <1>4, <2>1 DEF Enter, Quiet, CallStep, outside, disk, memory, engine, past
  <2> QED BY <2>2
<1>9. CASE Spend(c)
  <2>1. CASE UNCHANGED chain /\ Return(c)
    <3>1. Quiet(c, NoCall)
      BY <1>9, <2>1, <1>0, <1>2, <1>3
      DEF Spend, Return, Quiet, CallStep, At, disk, memory, engine, past, Inside
    <3> QED BY <3>1
  <2>2. CASE \E i \in Indices :
               /\ chain' = chain \union {<<i, "out">>}
               /\ call' = [call EXCEPT ![c].at = "spent", ![c].index = i]
    <3>1. PICK i \in Indices :
             /\ chain' = chain \union {<<i, "out">>}
             /\ call' = [call EXCEPT ![c].at = "spent", ![c].index = i]
      BY <2>2
    <3> DEFINE r == [call[c] EXCEPT !.at = "spent", !.index = i]
    <3>2. r \in Calls /\ r.at = "spent" /\ call' = [call EXCEPT ![c] = r]
      BY <1>0, <3>1 DEF TypeOK, Calls, Places
    <3>3. chain' \subseteq Txs BY <1>0, <3>1 DEF Txs
    <3> HIDE DEF r
    <3>4. Quiet(c, r)
      BY <1>9, <1>0, <1>3, <3>2, <3>3
      DEF Spend, Quiet, CallStep, At, disk, memory, engine, past, Inside
    <3> QED BY <3>4
  <2> QED BY <1>9, <2>1, <2>2 DEF Spend
<1>10. CASE After(c)
  <2> DEFINE r == [call[c] EXCEPT !.at = "after", !.joined = scan.at # "none"]
  <2>1. r \in Calls /\ r.at = "after" /\ call' = [call EXCEPT ![c] = r]
    BY <1>10, <1>0 DEF After, TypeOK, Calls, Places
  <2> HIDE DEF r
  <2>2. Quiet(c, r)
    BY <1>10, <1>0, <1>3, <2>1
    DEF After, Quiet, CallStep, At, outside, disk, memory, past, Inside
  <2> QED BY <2>2
<1>11. CASE Derive(c)
  <2> DEFINE idx == Later(NextUnused(view[call[c].on]), memIndex)
             r == [Call("count", "address", None) EXCEPT !.index = idx]
  <2>1. At(c, "derive") /\ call[c].at \in Inside BY <1>11 DEF Derive, At, Inside
  <2>2. view' \in [Wollets -> SUBSET Txs] BY <1>11, <1>0 DEF Derive, Forget
  <2>3. CASE call[c].on \in alive /\ idx < MaxIndex
    <3>1. view[call[c].on] \in SUBSET Txs BY <2>3, <1>0 DEF TypeOK
    <3>2. NextUnused(view[call[c].on]) \in Nat BY <3>1, NextUnusedType
    <3>3. memIndex \in Nat BY <1>0 DEF TypeOK
    <3>4. idx \in Nat /\ idx >= memIndex BY <3>2, <3>3 DEF Later
    <3>5. idx \in Indices BY <2>3, <3>4, <1>0 DEF Indices
    <3>6. call' = [call EXCEPT ![c] = r] /\ holder' = holder BY <1>11, <2>3 DEF Derive
    <3> HIDE DEF idx
    <3>7. "count" \in Places /\ "address" \in Jobs /\ "count" \in Inside BY DEF Places, Inside, Jobs
    <3>8. r \in Calls /\ r.at = "count" /\ r.index = idx
      <4>1. Call("count", "address", None) \in Calls /\ Call("count", "address", None).at = "count"
        BY <1>1, <1>2, <3>7
      <4> QED BY <4>1, <3>5 DEF Calls
    <3> HIDE DEF r
    <3>9. Quiet(c, r)
      BY <1>11, <1>0, <2>1, <2>2, <3>4, <3>6, <3>7, <3>8
      DEF Derive, Quiet, CallStep, outside, disk, engine, past
    <3> QED BY <3>9
  <2>4. CASE ~(call[c].on \in alive /\ idx < MaxIndex)
    <3>1. Leave(c) BY <1>11, <2>4 DEF Derive
    <3>2. Quiet(c, NoCall)
      BY <1>11, <1>0, <1>2, <1>3, <2>1, <2>2, <3>1
      DEF Derive, Leave, Return, Quiet, CallStep, outside, disk, engine, past, Inside
    <3> QED BY <3>2
  <2> QED BY <2>3, <2>4
<1>12. CASE Count(c)
  <2> DEFINE next == Later(nextIndex, call[c].index + 1)
  <2>1. At(c, "count") /\ call[c].at \in Inside BY <1>12 DEF Count, At, Inside
  <2>2. call[c].index >= memIndex /\ call[c].index \in 0..(MaxIndex - 1)
    BY <2>1, <1>0 DEF IInv, PendingIsNew, At, Calls, Indices
  <2>3. next \in nextIndex..MaxIndex /\ call[c].index < next
    BY <2>2, <1>0 DEF Later, TypeOK
  <2>4. faults' \in 0..MaxFaults BY <1>12, <1>0 DEF Count, Fault, NoFault
  <2> HIDE DEF next
  <2>5. CASE nextIndex' = next /\ NoFault /\ Move(c, "bump") /\ UNCHANGED holder
    <3>1. "bump" \in Places /\ "bump" \in Inside BY DEF Places, Inside
    <3>2. Quiet(c, Moved(c, "bump"))
      BY <1>12, <2>5, <1>0, <1>4, <2>1, <2>2, <2>3, <2>4, <3>1
      DEF Count, Quiet, CallStep, outside, memory, engine, past
    <3> QED BY <3>2
  <2>6. CASE nextIndex' \in {nextIndex, next} /\ Fault /\ Leave(c)
    <3>1. Quiet(c, NoCall)
      BY <1>12, <2>6, <1>0, <1>2, <1>3, <2>1, <2>3, <2>4
      DEF Count, Leave, Return, Quiet, CallStep, outside, memory, engine, past, Inside
    <3> QED BY <3>1
  <2> QED BY <1>12, <2>5, <2>6 DEF Count, next
<1>13. CASE Bump(c)
  <2>1. At(c, "bump") /\ call[c].at \in Inside BY <1>13 DEF Bump, At, Inside
  <2>2. call[c].index >= memIndex /\ call[c].index < nextIndex
    BY <2>1 DEF IInv, PendingIsNew, At
  <2>3. PICK place \in {"raise", "refresh"} : Move(c, place) BY <1>13 DEF Bump
  <2>4. place \in Places /\ place \in Inside BY DEF Places, Inside
  <2>5. floorLost' \in BOOLEAN /\ faults' \in 0..MaxFaults
    <3>1. floorLost' = floorLost \/ floorLost' = TRUE BY <1>13, Zenon DEF Bump
    <3>2. Fault \/ NoFault BY <1>13, Zenon DEF Bump
    <3>3. floorLost' \in BOOLEAN BY <3>1, <1>0
    <3>4. faults' \in 0..MaxFaults BY <3>2, <1>0 DEF Fault, NoFault
    <3> QED BY <3>3, <3>4
  <2>6. Quiet(c, Moved(c, place))
    BY <1>13, <1>0, <1>4, <2>1, <2>2, <2>3, <2>4, <2>5
    DEF Bump, Quiet, CallStep, outside, disk, memory, engine
  <2> QED BY <2>6
<1>14. CASE Raise(c)
  <2>1. At(c, "raise") /\ call[c].at \in Inside BY <1>14 DEF Raise, At, Inside
  <2>2. call[c].index >= memIndex /\ call[c].index < nextIndex
    BY <2>1 DEF IInv, PendingIsNew, At
  <2>3. "refresh" \in Places /\ "refresh" \in Inside BY DEF Places, Inside
  <2>4. call[c].index + 1 \in 0..MaxIndex BY <1>0 DEF Calls, Indices
  <2>5. floor' \in 0..MaxIndex /\ floorLost' \in BOOLEAN BY <1>14, <1>0, <2>4 DEF Raise, WriteFloor
  <2>6. Quiet(c, Moved(c, "refresh"))
    BY <1>14, <1>0, <1>4, <2>1, <2>2, <2>3, <2>5
    DEF Raise, Quiet, CallStep, outside, memory, engine
  <2> QED BY <2>6
<1>15. CASE RescanGivesUp(c)
  <2>1. call[c].at \in Inside BY <1>15 DEF RescanGivesUp, At, Inside
  <2>2. Quiet(c, NoCall)
    BY <1>15, <1>0, <1>2, <1>3, <2>1
    DEF RescanGivesUp, Leave, Return, Quiet, CallStep, outside, disk, memory, engine, past, Inside
  <2> QED BY <2>2
<1> QED BY <1>6, <1>7, <1>8, <1>9, <1>10, <1>11, <1>12, <1>13, <1>14, <1>15 DEF Begin

\* The other steps: an address is handed out, a rescan takes the slot, a wollet is freed.
LEMMA StepKeeps == ASSUME IInv, NEW c \in Callers, Begin(c) \/ Step(c) PROVE IInv'
<1>0. /\ TypeOK /\ call[c] \in Calls /\ MaxIndex \in Nat /\ MaxFaults \in Nat
      /\ handed \in [Indices -> Nat] /\ memIndex \in Nat /\ nextIndex \in 0..MaxIndex
      /\ faults \in 0..MaxFaults /\ main \in alive /\ alive \subseteq Wollets
      /\ view \in [Wollets -> SUBSET Txs]
  BY BoundsAssumption DEF IInv, TypeOK
<1>1. \A d \in Callers : call[d].at \in Inside <=> holder = d BY <1>0 DEF TypeOK
<1>2. NoCall \in Calls /\ NoCall.at = "idle" /\ "idle" \notin Inside BY CallTypes DEF Inside
<1>3. Return(c) => call' = [call EXCEPT ![c] = NoCall] BY DEF Return
<1>4. CASE HandOut(c)
  <2>1. call[c].at = "refresh" /\ call[c].at \in Inside BY <1>4 DEF HandOut, At, Inside
  <2>2. CallStep(c, NoCall) BY <1>4, <1>2, <1>3, <2>1 DEF HandOut, Leave, CallStep
  <2>3. /\ call' \in [Callers -> Calls] /\ holder' \in Callers \union {None}
        /\ \A d \in Callers : call'[d].at \in Inside <=> holder' = d
        /\ call'[c] = NoCall /\ \A d \in Callers \ {c} : call'[d] = call[d]
    BY <1>0, <2>2, CallStepTypes
  <2>4. \A d \in Callers : call'[d].at \notin Inside
    BY <1>1, <1>2, <2>1, <2>3
  <2> DEFINE i == call[c].index
  <2>5. i \in Indices /\ i \in Nat BY <1>0 DEF Calls, Indices
  <2>6. i >= memIndex /\ i < nextIndex BY <2>1 DEF IInv, PendingIsNew
  <2> HIDE DEF i
  <2>7. handed[i] = 0 BY <1>0, <2>5, <2>6 DEF IInv, CounterIsAhead
  <2>8. \/ memIndex' = nextIndex /\ handed' = [handed EXCEPT ![i] = @ + 1] /\ NoFault
        \/ UNCHANGED <<memIndex, handed>> /\ Fault
    BY <1>4 DEF HandOut, i
  <2>9. /\ UNCHANGED <<chain, nextIndex, floor, stored, main, alive, view, scan, zombies>>
        /\ UNCHANGED <<synced, shown, known, floorLost>>
    BY <1>4 DEF HandOut, disk, memory, engine, past
  <2>10. handed' \in [Indices -> Nat] /\ memIndex' \in 0..MaxIndex /\ faults' \in 0..MaxFaults
    <3>1. memIndex \in 0..MaxIndex BY <1>0 DEF TypeOK
    <3> QED BY <1>0, <2>5, <2>8, <3>1 DEF Fault, NoFault
  <2>11. TypeOK' BY <1>0, <2>3, <2>9, <2>10 DEF TypeOK
  <2>12. NoFreedWolletIsScanned' BY <2>9 DEF IInv, NoFreedWolletIsScanned
  <2>13. RescanHasSlot' /\ FreeIsUnwanted' /\ PendingIsNew'
    BY <2>4 DEF RescanHasSlot, FreeIsUnwanted, PendingIsNew, At, Inside
  <2>14. CounterIsAhead' /\ AddressesAreFresh'
    <3>1. CASE memIndex' = nextIndex /\ handed' = [handed EXCEPT ![i] = @ + 1]
      <4>1. ASSUME NEW k \in Indices
            PROVE  handed'[k] <= 1 /\ (handed'[k] > 0 => k < memIndex')
        <5>1. handed[k] \in Nat /\ handed[k] <= 1 /\ (handed[k] > 0 => k < memIndex) /\ memIndex <= nextIndex
          BY <1>0 DEF IInv, CounterIsAhead, AddressesAreFresh
        <5>2. CASE k = i BY <5>2, <3>1, <1>0, <2>5, <2>6, <2>7
        <5>3. CASE k # i
          <6>1. handed'[k] = handed[k] BY <5>3, <3>1, <1>0
          <6>2. k \in Nat BY DEF Indices
          <6> QED BY <6>1, <6>2, <5>1, <3>1, <1>0
        <5> QED BY <5>2, <5>3
      <4> QED BY <4>1, <3>1, <2>9, <1>0 DEF CounterIsAhead, AddressesAreFresh
    <3>2. CASE UNCHANGED <<memIndex, handed>>
      BY <3>2, <2>9 DEF IInv, CounterIsAhead, AddressesAreFresh
    <3> QED BY <3>1, <3>2, <2>8
  <2> QED BY <2>11, <2>12, <2>13, <2>14 DEF IInv
<1>5. CASE RescanClaims(c)
  <2>1. call[c].at = "rescan" /\ call[c].at \in Inside /\ scan.at = "none"
    BY <1>5 DEF RescanClaims, At, Inside
  <2>2. PICK w \in Unallocated :
          /\ alive' = alive \union {w}
          /\ call' = [call EXCEPT ![c].at = "rescanScan", ![c].on = w]
          /\ scan' = Scan("clear", w)
          /\ view' = [view EXCEPT ![w] = {}]
    BY <1>5 DEF RescanClaims
  <2>3. w \in Wollets /\ w # main BY <2>2 DEF Unallocated
  <2> DEFINE r == [call[c] EXCEPT !.at = "rescanScan", !.on = w]
  <2>4. r \in Calls /\ r.at = "rescanScan" /\ call' = [call EXCEPT ![c] = r]
    BY <1>0, <2>2, <2>3 DEF TypeOK, Calls, Places, Inside
  <2> HIDE DEF r
  <2>5. /\ UNCHANGED <<chain, handed, nextIndex, floor, stored, memIndex, main, zombies, holder>>
        /\ UNCHANGED <<synced, shown, known, floorLost, faults>>
    BY <1>5 DEF RescanClaims, outside, disk, past
  <2>6. CallStep(c, r) BY <2>1, <2>4, <2>5 DEF CallStep, Inside
  <2>7. /\ call' \in [Callers -> Calls] /\ holder' \in Callers \union {None}
        /\ \A d \in Callers : call'[d].at \in Inside <=> holder' = d
        /\ call'[c] = r /\ \A d \in Callers \ {c} : call'[d] = call[d]
    BY <1>0, <2>6, CallStepTypes
  <2>8. scan' \in Scans /\ scan'.at = "clear" /\ scan'.on = w
    <3>1. "clear" \in ScanPlaces /\ w \in Wollets \union {None} BY <2>3 DEF ScanPlaces
    <3> QED BY <3>1, <2>2, ScanTypes
  <2>9. view' \in [Wollets -> SUBSET Txs] /\ alive' \subseteq Wollets /\ main' \in alive'
    BY <1>0, <2>2, <2>3, <2>5
  <2>10. TypeOK' BY <1>0, <2>5, <2>7, <2>8, <2>9 DEF TypeOK
  <2>11. NoFreedWolletIsScanned'
    BY <2>2, <2>5, <2>8 DEF IInv, NoFreedWolletIsScanned
  <2>12. \A d \in Callers \ {c} : call'[d].at \notin Inside BY <1>1, <2>1, <2>7
  <2>13. RescanHasSlot' /\ FreeIsUnwanted' /\ PendingIsNew'
    <3>1. call'[c].at = "rescanScan" BY <2>4, <2>7
    <3>2. ASSUME NEW d \in Callers, d # c PROVE call'[d].at \notin Inside BY <3>2, <2>12
    <3>3. RescanHasSlot' BY <2>3, <2>5, <2>8 DEF RescanHasSlot
    <3>4. FreeIsUnwanted' BY <3>1, <3>2 DEF FreeIsUnwanted, At, Inside
    <3>5. PendingIsNew' BY <3>1, <3>2 DEF PendingIsNew, Inside
    <3> QED BY <3>3, <3>4, <3>5
  <2>14. CounterIsAhead' /\ AddressesAreFresh' BY <2>5 DEF IInv, CounterIsAhead, AddressesAreFresh
  <2> QED BY <2>10, <2>11, <2>13, <2>14 DEF IInv
<1>6. CASE Free(c)
  <2>1. call[c].at = "free" /\ call[c].at \in Inside BY <1>6 DEF Free, At, Inside
  <2>2. CallStep(c, NoCall) BY <1>6, <1>2, <1>3, <2>1 DEF Free, Leave, CallStep
  <2>3. /\ call' \in [Callers -> Calls] /\ holder' \in Callers \union {None}
        /\ \A d \in Callers : call'[d].at \in Inside <=> holder' = d
        /\ call'[c] = NoCall /\ \A d \in Callers \ {c} : call'[d] = call[d]
    BY <1>0, <2>2, CallStepTypes
  <2>4. \A d \in Callers : call'[d].at \notin Inside BY <1>1, <1>2, <2>1, <2>3
  <2>5. /\ UNCHANGED <<chain, handed, nextIndex, floor, stored, memIndex, main, scan, zombies>>
        /\ UNCHANGED <<synced, shown, known, floorLost, faults>>
    BY <1>6 DEF Free, outside, disk, engine, past
  <2>6. alive' = IF zombies = {} THEN alive \ {call[c].on} ELSE alive BY <1>6 DEF Free
  <2>7. call[c].on # main /\ (scan.at # "none" => scan.on # call[c].on)
    BY <2>1 DEF IInv, FreeIsUnwanted, At
  <2>8. view' \in [Wollets -> SUBSET Txs] BY <1>6, <1>0 DEF Free, Forget
  <2>9. alive' \subseteq Wollets /\ main' \in alive' BY <1>0, <2>5, <2>6, <2>7
  <2>10. TypeOK' BY <1>0, <2>3, <2>5, <2>8, <2>9 DEF TypeOK
  <2>11. NoFreedWolletIsScanned' BY <2>5, <2>6, <2>7 DEF IInv, NoFreedWolletIsScanned
  <2>12. RescanHasSlot' /\ FreeIsUnwanted' /\ PendingIsNew'
    BY <2>4 DEF RescanHasSlot, FreeIsUnwanted, PendingIsNew, At, Inside
  <2>13. CounterIsAhead' /\ AddressesAreFresh' BY <2>5 DEF IInv, CounterIsAhead, AddressesAreFresh
  <2> QED BY <2>10, <2>11, <2>12, <2>13 DEF IInv
<1> QED BY <1>4, <1>5, <1>6, QuietSteps, QuietKeeps DEF Step

-----------------------------------------------------------------------------
(* The invariant                                                           *)

\* The invariant holds at the start.
LEMMA InitIInv == Init => IInv
<1> SUFFICES ASSUME Init PROVE IInv OBVIOUS
<1>0. /\ MaxIndex \in Nat /\ MaxFaults \in Nat /\ Histories \subseteq SUBSET Txs
      /\ None \notin Callers /\ 0 \in 0..MaxIndex
  BY BoundsAssumption, HistoryAssumption, NoneAssumption
<1>1. NoCall \in Calls /\ NoCall.at = "idle" /\ NoScan \in Scans /\ NoScan.at = "none"
  BY CallTypes, ScanTypes
<1>2. call \in [Callers -> Calls] /\ \A c \in Callers : call[c].at = "idle" BY <1>1 DEF Init
<1>3. \A c \in Callers : call[c].at \in Inside <=> holder = c BY <1>0, <1>2 DEF Init, Inside
<1>4. chain \subseteq Txs BY <1>0 DEF Init
<1>5. TypeOK
  <2>1. handed \in [Indices -> Nat] /\ view \in [Wollets -> SUBSET Txs] BY DEF Init
  <2>2. main \in alive /\ alive \subseteq Wollets /\ zombies \subseteq Wollets BY DEF Init
  <2>3. known \subseteq Indices /\ shown \subseteq Txs /\ stored \subseteq Txs BY DEF Init
  <2>4. nextIndex \in 0..MaxIndex /\ memIndex \in 0..MaxIndex /\ floor \in 0..MaxIndex
    BY <1>0 DEF Init
  <2>5. scan \in Scans /\ holder \in Callers \union {None} BY <1>1 DEF Init
  <2>6. synced \in BOOLEAN /\ floorLost \in BOOLEAN BY DEF Init
  <2>7. faults \in 0..MaxFaults BY <1>0 DEF Init
  <2> QED BY <1>2, <1>3, <1>4, <2>1, <2>2, <2>3, <2>4, <2>5, <2>6, <2>7 DEF TypeOK
<1>6. NoFreedWolletIsScanned /\ RescanHasSlot /\ FreeIsUnwanted /\ PendingIsNew
  BY <1>1, <1>2 DEF Init, NoFreedWolletIsScanned, RescanHasSlot, FreeIsUnwanted, PendingIsNew, At
<1>7. CounterIsAhead /\ AddressesAreFresh BY DEF Init, CounterIsAhead, AddressesAreFresh
<1> QED BY <1>5, <1>6, <1>7 DEF IInv

\* Every step, crashes included, keeps it.
LEMMA NextKeeps == IInv /\ [Next]_vars => IInv'
<1> SUFFICES ASSUME IInv, [Next]_vars PROVE IInv' OBVIOUS
<1>0. /\ TypeOK /\ MaxFaults \in Nat /\ nextIndex \in 0..MaxIndex /\ memIndex \in 0..MaxIndex
      /\ main \in alive /\ alive \subseteq Wollets /\ zombies \subseteq alive
  BY BoundsAssumption DEF IInv, TypeOK, NoFreedWolletIsScanned
<1>1. ASSUME NEW i \in Indices, Payment(i) PROVE IInv'
  <2>1. chain' \subseteq Txs BY <1>1, <1>0 DEF Payment, TypeOK, Txs
  <2>2. /\ UNCHANGED <<handed, nextIndex, floor, stored, memIndex, main, alive, view>>
        /\ UNCHANGED <<scan, zombies, holder, call, synced, shown, known, floorLost, faults>>
    BY <1>1 DEF Payment, disk, memory, engine, past
  <2>3. TypeOK' BY <1>0, <2>1, <2>2 DEF TypeOK
  <2> QED
    BY <2>2, <2>3
    DEF IInv, NoFreedWolletIsScanned, RescanHasSlot, FreeIsUnwanted, CounterIsAhead,
        PendingIsNew, AddressesAreFresh, At
<1>2. ASSUME NEW w \in zombies, ZombieSettles(w) PROVE IInv'
  <2>1. zombies' \subseteq zombies BY <1>2 DEF ZombieSettles
  <2>2. /\ UNCHANGED <<chain, handed, nextIndex, floor, stored, memIndex, main, alive, view>>
        /\ UNCHANGED <<scan, holder, call, synced, shown, known, floorLost, faults>>
    BY <1>2 DEF ZombieSettles, outside, disk, memory, past
  <2>3. TypeOK' BY <1>0, <2>1, <2>2 DEF TypeOK
  <2>4. NoFreedWolletIsScanned' BY <2>1, <2>2 DEF IInv, NoFreedWolletIsScanned
  <2> QED
    BY <2>2, <2>3, <2>4
    DEF IInv, RescanHasSlot, FreeIsUnwanted, CounterIsAhead, PendingIsNew, AddressesAreFresh, At
<1>3. CASE Crash
  <2>1. call' \in [Callers -> Calls] /\ \A c \in Callers : call'[c].at = "idle"
    BY <1>3, CallTypes DEF Crash
  <2>2. scan' \in Scans /\ scan'.at = "none" BY <1>3, ScanTypes DEF Crash
  <2>3. \A c \in Callers : call'[c].at \in Inside <=> holder' = c
    BY <1>3, <2>1, NoneAssumption DEF Crash, Inside
  <2>4. UNCHANGED <<chain, handed, nextIndex, floor, stored, main, known>>
    BY <1>3 DEF Crash, outside, disk
  <2>5. view' \in [Wollets -> SUBSET Txs] /\ faults' \in 0..MaxFaults /\ floorLost' \in BOOLEAN
    BY <1>3, <1>0 DEF Crash, Fault, TypeOK
  <2>6. TypeOK' BY <1>3, <1>0, <2>1, <2>2, <2>3, <2>4, <2>5 DEF Crash, TypeOK
  <2>7. NoFreedWolletIsScanned' BY <1>3, <2>2 DEF Crash, NoFreedWolletIsScanned
  <2>8. RescanHasSlot' /\ FreeIsUnwanted' BY <2>1 DEF RescanHasSlot, FreeIsUnwanted, At
  <2>9. PendingIsNew' BY <2>1 DEF PendingIsNew
  <2>10. CounterIsAhead'
    <3>1. memIndex' = nextIndex /\ nextIndex \in Nat /\ memIndex \in Nat
      BY <1>3, <1>0 DEF Crash
    <3>2. memIndex <= nextIndex /\ \A i \in Indices : handed[i] > 0 => i < memIndex
      BY DEF IInv, CounterIsAhead
    <3>3. \A i \in Indices : i \in Nat BY DEF Indices
    <3>4. \A i \in Indices : handed[i] > 0 => i < nextIndex BY <3>1, <3>2, <3>3
    <3> QED BY <2>4, <3>1, <3>4 DEF CounterIsAhead
  <2>11. AddressesAreFresh' BY <2>4 DEF IInv, AddressesAreFresh
  <2> QED BY <2>6, <2>7, <2>8, <2>9, <2>10, <2>11 DEF IInv
<1>4. CASE UNCHANGED vars
  <2>1. /\ UNCHANGED <<chain, handed, nextIndex, floor, stored, memIndex, main, alive, view>>
        /\ UNCHANGED <<scan, zombies, holder, call, synced, shown, known, floorLost, faults>>
    BY <1>4 DEF vars, outside, disk, memory, engine, past
  <2>2. TypeOK' BY <1>0, <2>1 DEF TypeOK
  <2> QED
    BY <2>1, <2>2
    DEF IInv, NoFreedWolletIsScanned, RescanHasSlot, FreeIsUnwanted, CounterIsAhead,
        PendingIsNew, AddressesAreFresh, At
<1> QED BY <1>1, <1>2, <1>3, <1>4, StepKeeps, ScanningKeeps DEF Next

\* So it always holds.
LEMMA Invariance == Spec => []IInv
<1> QED BY InitIInv, NextKeeps, PTL DEF Spec

\* The state is well-formed, and opMutex holds: no two calls are inside it.
THEOREM TypeCorrect == Spec => []TypeOK
<1>1. IInv => TypeOK BY DEF IInv
<1> QED BY <1>1, Invariance, PTL

\* No address is ever handed out twice, whatever fails and whoever calls.
THEOREM AddressesFresh == Spec => []AddressesAreFresh
<1>1. IInv => AddressesAreFresh BY DEF IInv
<1> QED BY <1>1, Invariance, PTL

\* No wollet is freed under a scan that borrows it.
THEOREM WolletsSafe == Spec => []NoFreedWolletIsScanned
<1>1. IInv => NoFreedWolletIsScanned BY DEF IInv
<1> QED BY <1>1, Invariance, PTL

-----------------------------------------------------------------------------
(* What scans find, and what the wollet in use shows                       *)

\* Where the floor is: a deep rescan holds it while it rewrites meta.json.
TheFloor == IF scan.at = "rewrite" THEN scan.copy ELSE floor

\* The places of a scan whose wollet has the answer.
Applied == {"cover", "raise", "persist", "metaRead", "metaWrite"}

\* The places of a scan, in the order it goes through them.
ScanFits ==
  /\ scan.at \in {"clear", "wipe", "rewrite"} => \E c \in Callers : At(c, "rescanScan")
  /\ scan.at = "wipe" => floorLost \/ scan.copy = floor
  /\ scan.changed => scan.at \in Applied
  /\ scan.at # "none" => scan.on = main \/ \E c \in Callers : At(c, "rescanScan")

\* An address a scan has just found, before the floor is raised for it.
JustFound(i) == scan.at \in {"cover", "raise"} /\ scan.changed /\ i \in Used(view[scan.on])

\* An address a scan that begins now reaches, or will once this one is over.
Covers(i) == i < TheFloor \/ JustFound(i)

\* The floor is past whatever must survive a restart.
FloorCovers ==
  /\ \A i \in Indices : handed[i] > 0 \/ i \in known \/ i \in Used(stored) => i < TheFloor
  /\ \A c \in Callers : At(c, "refresh") => call[c].index < TheFloor

\* ... and whatever the wollets in use show.
ViewsCovered ==
  /\ \A i \in Used(view[main]) : Covers(i)
  /\ scan.at # "none" => \A i \in Used(view[scan.on]) : Covers(i)
  /\ \A c \in Callers : At(c, "spent") => Covers(call[c].index) /\ <<call[c].index, "out">> \in chain

\* The calls whose own scan is in the slot, and what the scans owe: the spends
\* that were reported done, and theirs.
Waits(c) == At(c, "after") /\ ~call[c].joined
Owed == shown \union {<<call[c].index, "out">> : c \in {d \in Callers : Waits(d)}}

\* What is owed is on the chain, behind the floor.
OwedIsCovered == \A tx \in Owed : tx \in chain /\ tx[1] < TheFloor

\* The scan asks for what is owed and for what is due.
ScanReaches ==
  scan.at \in {"ask", "apply"} \union Applied /\ ~scan.changed =>
    \A i \in scan.due \union {tx[1] : tx \in Owed} : i < scan.floor

\* It gets it, and the wollet shows it.
ScanDelivers ==
  /\ scan.at = "apply" => Owed \subseteq scan.got
  /\ scan.at \in Applied => Owed \subseteq view[scan.on]
  /\ shown \subseteq view[main]

\* A call waits for a scan of the wollet in use.
WaitsForMain == \A c \in Callers : Waits(c) => scan.at # "none" /\ scan.on = main

\* All of it, while the floor is not lost.
Promised ==
  /\ ScanFits /\ WaitsForMain
  /\ \/ floorLost
     \/ FloorCovers /\ ViewsCovered /\ OwedIsCovered /\ ScanReaches /\ ScanDelivers

\* The state as these lemmas need it.
LEMMA Shapes ==
  ASSUME TypeOK
  PROVE  /\ MaxIndex \in Nat \ {0} /\ floor \in Nat /\ TheFloor \in Nat /\ floor <= MaxIndex
         /\ \A i \in Indices : i \in Nat /\ i < MaxIndex
         /\ scan \in Scans /\ scan.floor \in Nat /\ scan.floor <= MaxIndex
         /\ scan.copy \in Nat /\ scan.copy <= MaxIndex
         /\ scan.due \subseteq Indices /\ scan.got \subseteq Txs /\ scan.changed \in BOOLEAN
         /\ \A c \in Callers : call[c] \in Calls /\ call[c].index \in Indices
         /\ \A w \in Wollets : view[w] \in SUBSET Txs
         /\ floorLost \in BOOLEAN /\ main \in Wollets
         /\ Owed \subseteq Txs /\ chain \subseteq Txs /\ shown \subseteq Txs
<1>1. MaxIndex \in Nat \ {0} BY BoundsAssumption
<1>2. floor \in 0..MaxIndex /\ scan \in Scans /\ floorLost \in BOOLEAN /\ main \in Wollets
  BY DEF TypeOK
<1>3. scan.floor \in 0..MaxIndex /\ scan.copy \in 0..MaxIndex BY <1>2 DEF Scans
<1>4. scan.due \subseteq Indices /\ scan.got \subseteq Txs /\ scan.changed \in BOOLEAN
  BY <1>2 DEF Scans
<1>5. \A i \in Indices : i \in Nat /\ i < MaxIndex BY <1>1 DEF Indices
<1>6. TheFloor \in Nat BY <1>1, <1>2, <1>3 DEF TheFloor
<1>7. \A c \in Callers : call[c] \in Calls /\ call[c].index \in Indices BY DEF TypeOK, Calls
<1>8. \A w \in Wollets : view[w] \in SUBSET Txs BY DEF TypeOK
<1>9. chain \subseteq Txs /\ shown \subseteq Txs BY DEF TypeOK
<1>10. \A c \in Callers : <<call[c].index, "out">> \in Txs BY <1>7 DEF Txs
<1>11. Owed \subseteq Txs BY <1>9, <1>10 DEF Owed
<1> QED BY <1>1, <1>2, <1>3, <1>4, <1>5, <1>6, <1>7, <1>8, <1>9, <1>11

\* A transaction of the wallet is at an address.
LEMMA TxsAreAtIndices ==
  /\ \A tx \in Txs : tx[1] \in Indices
  /\ \A s \in SUBSET Txs : Used(s) \subseteq Indices /\ \A tx \in s : tx[1] \in Used(s)
  /\ Used({}) = {}
<1>1. \A tx \in Txs : tx[1] \in Indices BY DEF Txs
<1> QED BY <1>1 DEF Used

\* A degraded scan goes past the floor it was given.
LEMMA ReachIsPastTheFloor ==
  ASSUME TypeOK, NEW from \in 0..MaxIndex
  PROVE  Reach(from) \in Nat /\ from <= Reach(from)
<1>0. MaxIndex \in Nat /\ Gap \in Nat BY BoundsAssumption
<1>1. \A i \in Used(chain) : i \in Nat /\ i < MaxIndex
  BY TxsAreAtIndices, Shapes
<1>2. IsGap(MaxIndex) BY <1>0, <1>1 DEF IsGap
<1> DEFINE Gaps == {n \in from..(from + MaxIndex) : IsGap(n)}
<1>3. Gaps \subseteq Nat /\ MaxIndex \in Gaps BY <1>0, <1>2
<1>4. PICK n \in Gaps : \A m \in Gaps : n <= m
  <2> HIDE DEF Gaps
  <2> QED BY <1>3, Smallest
<1>5. \A m \in from..(n - 1) : ~IsGap(m)
  <2> SUFFICES ASSUME NEW m \in from..(n - 1), IsGap(m) PROVE FALSE OBVIOUS
  <2>1. n \in from..(from + MaxIndex) BY <1>4
  <2>2. m \in from..(from + MaxIndex) /\ m < n BY <1>0, <2>1
  <2>3. m \in Gaps BY <2>2
  <2>4. n <= m BY <1>4, <2>3
  <2> QED BY <2>1, <2>2, <2>4, <1>0
<1>6. n \in from..(from + MaxIndex) /\ IsGap(n) BY <1>4
<1>7. Reach(from) \in from..(from + MaxIndex)
  <2>1. \E k \in from..(from + MaxIndex) : IsGap(k) /\ \A m \in from..(k - 1) : ~IsGap(m)
    BY <1>5, <1>6
  <2> QED BY <2>1 DEF Reach
<1> QED BY <1>0, <1>7

\* Every answer holds what is on the chain behind that floor.
LEMMA AnswersReach ==
  ASSUME TypeOK, NEW from \in 0..MaxIndex, NEW answer \in Answers(from),
         NEW tx \in chain, tx[1] < from
  PROVE  tx \in answer
<1>1. Reach(from) \in Nat /\ from <= Reach(from) BY ReachIsPastTheFloor
<1>2. tx[1] \in Nat BY TxsAreAtIndices, Shapes
<1>3. MaxIndex \in Nat BY BoundsAssumption
<1>4. tx[1] < Reach(from) BY <1>1, <1>2, <1>3
<1> QED BY <1>4 DEF Answers

-----------------------------------------------------------------------------
(* The steps of the calls                                                  *)

\* What a step of a call does to all this: it never takes a transaction from the
\* chain or from a wollet in use, and raises the floor or loses it.
Acts(c) ==
  /\ chain \subseteq chain' /\ UNCHANGED <<stored, main, shown, known>>
  /\ view'[main] = view[main] /\ (scan.at # "none" => view'[scan.on] = view[scan.on])
  /\ floorLost => floorLost'
  /\ floor' = floor \/ (scan.at \notin {"wipe", "rewrite"} /\ scan' = scan /\ (floorLost' \/ floor <= floor'))
  /\ ~At(c, "rescanScan") /\ \A d \in Callers \ {c} : call'[d] = call[d]
  /\ \/ scan' = scan
     \/ scan.at = "none" /\ scan' = Scan("hint", main)
     \/ /\ scan.at = "none" /\ call'[c].at = "rescanScan"
        /\ scan'.at = "clear" /\ ~scan'.changed /\ view'[scan'.on] = {}
  /\ call'[c].at = "after" /\ ~call'[c].joined =>
       /\ scan.at = "none" /\ scan' = Scan("hint", main)
       /\ At(c, "spent") /\ call'[c].index = call[c].index
  /\ call'[c].at = "spent" =>
       call'[c].index \in Used(view[main]) /\ <<call'[c].index, "out">> \in chain'
  /\ call'[c].at = "refresh" =>
       scan.at # "rewrite" /\ scan' = scan /\ (floorLost' \/ call'[c].index < floor')
  /\ \A i \in Indices : handed'[i] > 0 =>
       handed[i] > 0 \/ (At(c, "refresh") /\ i = call[c].index)

\* Such a step keeps the promises.
LEMMA ActsKeep ==
  ASSUME IInv, IInv', Promised, NEW c \in Callers, Acts(c)
  PROVE  Promised'
<1>a. TypeOK /\ TypeOK' /\ (scan.at # "none" => scan.on \in Wollets)
  BY DEF IInv, TypeOK, NoFreedWolletIsScanned
<1>0. ScanFits /\ WaitsForMain BY DEF Promised
<1>1. \/ scan' = scan
      \/ scan.at = "none" /\ scan' = Scan("hint", main)
      \/ /\ scan.at = "none" /\ call'[c].at = "rescanScan"
         /\ scan'.at = "clear" /\ ~scan'.changed /\ view'[scan'.on] = {}
  BY DEF Acts
<1>2. /\ Scan("hint", main).at = "hint" /\ Scan("hint", main).on = main
      /\ Scan("hint", main).changed = FALSE
  BY DEF Scan
<1>3. \A d \in Callers : At(d, "rescanScan") => At(d, "rescanScan")'
  BY DEF Acts, At
<1>4. /\ chain \subseteq chain' /\ UNCHANGED <<stored, main, shown, known>>
      /\ view'[main] = view[main] /\ (scan.at # "none" => view'[scan.on] = view[scan.on])
      /\ floorLost => floorLost'
  BY DEF Acts
<1>5. ScanFits'
  <2>1. CASE scan' = scan
    <3>1. scan.at = "wipe" => floor' = floor BY DEF Acts
    <3> QED BY <2>1, <3>1, <1>0, <1>3, <1>4 DEF ScanFits
  <2>2. CASE scan' = Scan("hint", main) BY <2>2, <1>2, <1>4 DEF ScanFits
  <2>3. CASE call'[c].at = "rescanScan" /\ scan'.at = "clear" /\ ~scan'.changed
    BY <2>3 DEF ScanFits, At
  <2> QED BY <1>1, <2>1, <2>2, <2>3
<1>6. \A d \in Callers : Waits(d)' =>
        \/ Waits(d) /\ call'[d].index = call[d].index
        \/ /\ At(d, "spent") /\ call'[d].index = call[d].index
           /\ scan.at = "none" /\ scan' = Scan("hint", main)
  <2> TAKE d \in Callers
  <2>1. CASE d = c BY <2>1 DEF Acts, Waits, At
  <2>2. CASE d # c BY <2>2 DEF Acts, Waits, At
  <2> QED BY <2>1, <2>2
<1>7. WaitsForMain'
  <2> SUFFICES ASSUME NEW d \in Callers, Waits(d)' PROVE scan'.at # "none" /\ scan'.on = main'
    BY DEF WaitsForMain
  <2>1. CASE scan' = Scan("hint", main) BY <2>1, <1>2, <1>4
  <2>2. CASE Waits(d)
    <3>1. scan.at # "none" /\ scan.on = main BY <2>2, <1>0 DEF WaitsForMain
    <3> QED BY <3>1, <1>1, <1>4
  <2> QED BY <2>1, <2>2, <1>6
<1>8. CASE floorLost' BY <1>8, <1>5, <1>7 DEF Promised
<1>9. CASE ~floorLost'
  <2>0. /\ ~floorLost
        /\ FloorCovers /\ ViewsCovered /\ OwedIsCovered /\ ScanReaches /\ ScanDelivers
    BY <1>4, <1>9 DEF Promised
  <2>1. TheFloor <= TheFloor' /\ TheFloor \in Nat /\ TheFloor' \in Nat /\ (scan'.at # "rewrite" => TheFloor' = floor')
    <3>1. TheFloor \in Nat /\ TheFloor' \in Nat /\ floor \in Nat
      <4>1. MaxIndex \in Nat /\ floor' \in 0..MaxIndex /\ scan' \in Scans
        BY <1>a, BoundsAssumption DEF TypeOK
      <4>2. scan'.copy \in 0..MaxIndex BY <4>1 DEF Scans
      <4>3. TheFloor' \in Nat BY <4>1, <4>2 DEF TheFloor
      <4> QED BY <4>3, <1>a, Shapes
    <3>2. CASE floor' = floor
      <4>1. scan' = scan \/ (scan.at # "rewrite" /\ scan'.at # "rewrite") BY <1>1, <1>2
      <4>2. TheFloor' = TheFloor BY <4>1, <3>2 DEF TheFloor
      <4> QED BY <4>2, <3>1 DEF TheFloor
    <3>3. CASE floor' # floor
      <4>1. scan' = scan /\ scan.at # "rewrite" /\ floor <= floor' BY <3>3, <1>9 DEF Acts
      <4> QED BY <4>1, <3>1 DEF TheFloor
    <3> QED BY <3>2, <3>3
  <2>2. \A i \in Indices : i < TheFloor => (i < TheFloor)' BY <2>1, <1>a, Shapes
  <2>3. \A i \in Indices : Covers(i) => Covers(i)'
    <3> SUFFICES ASSUME NEW i \in Indices, JustFound(i) PROVE JustFound(i)' BY <2>2 DEF Covers
    <3>1. scan.at # "none" BY DEF JustFound
    <3>2. scan' = scan BY <1>1, <3>1
    <3> QED BY <3>1, <3>2, <1>4 DEF JustFound
  <2>4. scan.at = "none" => \A i : Covers(i) => i < TheFloor BY DEF Covers, JustFound
  <2>5. FloorCovers'
    <3>1. ASSUME NEW i \in Indices, handed'[i] > 0 \/ i \in known' \/ i \in Used(stored')
          PROVE  i < TheFloor'
      <4>1. handed[i] > 0 \/ i \in known \/ i \in Used(stored) \/ (At(c, "refresh") /\ i = call[c].index)
        BY <3>1, <1>4 DEF Acts
      <4>2. i < TheFloor BY <4>1, <2>0 DEF FloorCovers
      <4> QED BY <4>2, <2>2
    <3>2. ASSUME NEW d \in Callers, At(d, "refresh")' PROVE call'[d].index < TheFloor'
      <4>1. CASE d = c
        <5>1. scan' = scan /\ scan.at # "rewrite" /\ call'[c].index < floor'
          BY <3>2, <4>1, <1>9 DEF Acts, At
        <5> QED BY <5>1, <4>1, <2>1
      <4>2. CASE d # c
        <5>1. call'[d] = call[d] /\ At(d, "refresh") BY <3>2, <4>2 DEF Acts, At
        <5>2. call[d].index \in Indices /\ call[d].index < TheFloor BY <5>1, <2>0, <1>a, Shapes DEF FloorCovers
        <5> QED BY <5>1, <5>2, <2>2
      <4> QED BY <4>1, <4>2
    <3> QED BY <3>1, <3>2 DEF FloorCovers
  <2>6. ViewsCovered'
    <3>1. \A i \in Used(view[main]) : i \in Indices /\ Covers(i)
      BY <2>0, TxsAreAtIndices, <1>a, Shapes DEF ViewsCovered
    <3>2. \A i \in Used(view'[main']) : Covers(i)' BY <3>1, <2>3, <1>4
    <3>3. scan'.at # "none" => \A i \in Used(view'[scan'.on]) : Covers(i)'
      <4>1. CASE scan' = scan /\ scan.at # "none"
        <5>1. view'[scan.on] = view[scan.on] BY <4>1, <1>4
        <5>2. scan.on \in Wollets BY <4>1, <1>a
        <5>3. \A i \in Used(view[scan.on]) : i \in Indices /\ Covers(i)
          BY <4>1, <5>2, <2>0, TxsAreAtIndices, <1>a, Shapes DEF ViewsCovered
        <5> QED BY <5>1, <5>3, <2>3, <4>1
      <4>2. CASE scan' = Scan("hint", main) BY <4>2, <3>2, <1>2, <1>4
      <4>3. CASE view'[scan'.on] = {} BY <4>3, TxsAreAtIndices
      <4> QED BY <1>1, <4>1, <4>2, <4>3
    <3>4. ASSUME NEW d \in Callers, At(d, "spent")'
          PROVE  (Covers(call[d].index) /\ <<call[d].index, "out">> \in chain)'
      <4>1. CASE d = c
        <5>1. call'[c].index \in Used(view[main]) /\ <<call'[c].index, "out">> \in chain'
          BY <3>4, <4>1 DEF Acts, At
        <5> QED BY <5>1, <3>2, <4>1, <1>4
      <4>2. CASE d # c
        <5>1. call'[d] = call[d] /\ At(d, "spent") BY <3>4, <4>2 DEF Acts, At
        <5>2. Covers(call[d].index) /\ <<call[d].index, "out">> \in chain /\ call[d].index \in Indices
          BY <5>1, <2>0, <1>a, Shapes DEF ViewsCovered
        <5> QED BY <5>1, <5>2, <2>3, <1>4
      <4> QED BY <4>1, <4>2
    <3> QED BY <3>2, <3>3, <3>4 DEF ViewsCovered
  <2>7. ASSUME NEW tx \in Owed'
        PROVE  /\ tx \in Txs
               /\ \/ tx \in Owed
                  \/ /\ scan.at = "none" /\ scan' = Scan("hint", main)
                     /\ tx \in chain /\ tx[1] < TheFloor
    <3>1. CASE tx \in shown' BY <3>1, <1>4, <1>a, Shapes DEF Owed
    <3>2. CASE \E d \in Callers : Waits(d)' /\ tx = <<call'[d].index, "out">>
      <4>1. PICK d \in Callers : Waits(d)' /\ tx = <<call'[d].index, "out">> BY <3>2
      <4>2. call[d].index \in Indices /\ <<call[d].index, "out">> \in Txs BY <1>a, Shapes DEF Txs
      <4>3. CASE Waits(d) /\ call'[d].index = call[d].index
        BY <4>1, <4>2, <4>3 DEF Owed
      <4>4. CASE /\ At(d, "spent") /\ call'[d].index = call[d].index
                 /\ scan.at = "none" /\ scan' = Scan("hint", main)
        <5>1. Covers(call[d].index) /\ tx \in chain BY <4>1, <4>4, <2>0 DEF ViewsCovered
        <5>2. tx[1] = call[d].index BY <4>1, <4>4
        <5> QED BY <5>1, <5>2, <4>1, <4>2, <4>4, <2>4
      <4> QED BY <4>1, <4>3, <4>4, <1>6
    <3> QED BY <3>1, <3>2 DEF Owed
  <2>8. OwedIsCovered'
    <3>1. ASSUME NEW tx \in Owed' PROVE tx \in chain' /\ tx[1] < TheFloor'
      <4>1. tx \in Txs /\ tx[1] \in Indices BY <2>7, TxsAreAtIndices
      <4>2. tx \in chain /\ tx[1] < TheFloor BY <2>7, <2>0 DEF OwedIsCovered
      <4> QED BY <4>1, <4>2, <2>2, <1>4
    <3> QED BY <3>1 DEF OwedIsCovered
  <2>9. scan'.at \notin {"none", "hint", "clear"} => scan' = scan /\ scan.at # "none" /\ Owed' \subseteq Owed
    <3>1. scan'.at \notin {"none", "hint", "clear"} => scan' = scan BY <1>1, <1>2
    <3> QED BY <3>1, <2>7
  <2>10. ScanReaches'
    <3> SUFFICES ASSUME scan'.at \in {"ask", "apply"} \union Applied, ~scan'.changed
                 PROVE  \A i \in scan'.due \union {tx[1] : tx \in Owed'} : i < scan'.floor
      BY DEF ScanReaches, Applied
    <3>1. scan' = scan /\ Owed' \subseteq Owed BY <2>9 DEF Applied
    <3> QED BY <3>1, <2>0 DEF ScanReaches
  <2>11. ScanDelivers'
    <3>1. scan'.at = "apply" => Owed' \subseteq scan'.got BY <2>0, <2>9 DEF ScanDelivers
    <3>2. scan'.at \in Applied => Owed' \subseteq view'[scan'.on]
      BY <2>0, <2>9, <1>4 DEF ScanDelivers, Applied
    <3>3. shown' \subseteq view'[main'] BY <2>0, <1>4 DEF ScanDelivers
    <3> QED BY <3>1, <3>2, <3>3 DEF ScanDelivers, Applied
  <2> QED BY <1>5, <1>7, <2>5, <2>6, <2>8, <2>10, <2>11 DEF Promised
<1> QED BY <1>8, <1>9, <1>a, Shapes

\* The steps of a call act so: the ones that only go from place to place, ...
LEMMA PlainSteps ==
  ASSUME IInv, Promised, NEW c \in Callers,
         Begin(c) \/ Enter(c) \/ Spend(c) \/ After(c) \/ RescanGivesUp(c)
  PROVE  Acts(c)
<1>0. /\ call \in [Callers -> Calls] /\ call[c] \in Calls /\ chain \in SUBSET Txs
      /\ handed \in [Indices -> Nat]
  BY DEF IInv, TypeOK
<1>1. NoCall.at = "idle" /\ \A j \in Jobs : Refreshed(j).at \in {"idle", "queue"} BY CallTypes
<1>2. CASE \E j \in {"read", "spend", "inflow", "sync"} \cap CallKinds : BeginRefreshed(c, j)
  <2>1. PICK j \in {"read", "spend", "inflow", "sync"} : BeginRefreshed(c, j) BY <1>2
  <2> DEFINE k == IF j = "inflow" THEN "read" ELSE j
  <2>2. At(c, "idle") /\ UNCHANGED <<chain, handed, floor, stored, main, view, shown, known, floorLost>>
    BY <2>1 DEF BeginRefreshed, outside, disk, memory, past
  <2>3. \E r : call' = [call EXCEPT ![c] = r] /\ r.at \in {"idle", "queue", "before"}
    <3>1. Call("before", k, None).at = "before" BY DEF Call
    <3>2. j \in {"read", "spend"} => j \in Jobs BY DEF Jobs
    <3> QED BY <2>1, <3>1, <3>2, <1>1 DEF BeginRefreshed
  <2>4. scan' = scan \/ (scan.at = "none" /\ scan' = Scan("hint", main))
    BY <2>1 DEF BeginRefreshed, JoinOrScan, SlotIsFree
  <2>5. call'[c].at \in {"idle", "queue", "before"} /\ \A d \in Callers \ {c} : call'[d] = call[d]
    BY <2>3, <1>0
  <2> QED BY <2>2, <2>4, <2>5 DEF Acts, At
<1>3. CASE \E j \in {"address", "rescan"} \cap CallKinds : BeginQueued(c, j)
  <2>1. PICK j \in {"address", "rescan"} : BeginQueued(c, j) BY <1>3
  <2>2. /\ At(c, "idle")
        /\ UNCHANGED <<chain, handed, floor, stored, main, view, scan, shown, known, floorLost>>
    BY <2>1 DEF BeginQueued, outside, disk, memory, engine, past
  <2>3. call'[c].at = "queue" /\ \A d \in Callers \ {c} : call'[d] = call[d]
    BY <2>1, <1>0 DEF BeginQueued, Call
  <2> QED BY <2>2, <2>3 DEF Acts, At
<1>4. CASE Enter(c)
  <2>2. /\ At(c, "queue")
        /\ UNCHANGED <<chain, handed, floor, stored, main, view, scan, shown, known, floorLost>>
    BY <1>4 DEF Enter, outside, disk, memory, engine, past
  <2>3. call'[c].at \in {"derive", "rescan"} /\ \A d \in Callers \ {c} : call'[d] = call[d]
    BY <1>4, <1>0 DEF Enter, Move, Calls
  <2> QED BY <2>2, <2>3 DEF Acts, At
<1>5. CASE Spend(c)
  <2>1. /\ At(c, "queue")
        /\ UNCHANGED <<handed, floor, stored, main, view, scan, shown, known, floorLost>>
    BY <1>5 DEF Spend, disk, memory, engine, past
  <2>2. CASE UNCHANGED chain /\ Return(c)
    <3>1. call'[c].at = "idle" /\ \A d \in Callers \ {c} : call'[d] = call[d]
      BY <2>2, <1>0, <1>1 DEF Return
    <3> QED BY <2>1, <2>2, <3>1 DEF Acts, At
  <2>3. CASE \E i \in Indices :
               /\ <<i, "in">> \in view[main] /\ <<i, "out">> \notin chain
               /\ chain' = chain \union {<<i, "out">>}
               /\ call' = [call EXCEPT ![c].at = "spent", ![c].index = i]
    <3>1. PICK i \in Indices :
               /\ <<i, "in">> \in view[main] /\ <<i, "out">> \notin chain
               /\ chain' = chain \union {<<i, "out">>}
               /\ call' = [call EXCEPT ![c].at = "spent", ![c].index = i]
      BY <2>3
    <3>2. call'[c].at = "spent" /\ call'[c].index = i /\ \A d \in Callers \ {c} : call'[d] = call[d]
      BY <3>1, <1>0 DEF Calls
    <3>3. i \in Used(view[main])
      <4>1. <<i, "in">>[1] = i OBVIOUS
      <4> QED BY <4>1, <3>1 DEF Used
    <3>4. chain \subseteq chain' /\ <<call'[c].index, "out">> \in chain' BY <3>1, <3>2
    <3>5. At(c, "queue") /\ ~At(c, "rescanScan") BY <2>1 DEF At
    <3> QED BY <2>1, <3>2, <3>3, <3>4, <3>5 DEF Acts, At
  <2> QED BY <1>5, <2>2, <2>3 DEF Spend
<1>6. CASE After(c)
  <2>1. /\ At(c, "spent")
        /\ UNCHANGED <<chain, handed, floor, stored, main, view, shown, known, floorLost>>
    BY <1>6 DEF After, outside, disk, memory, past
  <2>2. /\ call'[c].at = "after" /\ call'[c].joined = (scan.at # "none")
        /\ call'[c].index = call[c].index
        /\ \A d \in Callers \ {c} : call'[d] = call[d]
    BY <1>6, <1>0 DEF After, Calls
  <2>3. \/ scan.at = "none" /\ scan' = Scan("hint", main)
        \/ scan.at # "none" /\ scan' = scan
    BY <1>6 DEF After, JoinOrScan, SlotIsFree
  <2> QED BY <2>1, <2>2, <2>3 DEF Acts, At
<1>7. CASE RescanGivesUp(c)
  <2>1. /\ At(c, "rescan")
        /\ UNCHANGED <<chain, handed, floor, stored, main, view, scan, shown, known, floorLost>>
    BY <1>7 DEF RescanGivesUp, outside, disk, memory, engine, past
  <2>2. call'[c].at = "idle" /\ \A d \in Callers \ {c} : call'[d] = call[d]
    BY <1>7, <1>0, <1>1 DEF RescanGivesUp, Leave, Return
  <2> QED BY <2>1, <2>2 DEF Acts, At
<1> QED BY <1>2, <1>3, <1>4, <1>5, <1>6, <1>7 DEF Begin

\* Nothing a call does inside opMutex touches the wollet of a scan, and a rescan
\* that clears the cache is the only one inside.
LEMMA InsideAlone ==
  ASSUME IInv, Promised, NEW c \in Callers, call[c].at \in Inside, ~At(c, "rescanScan")
  PROVE  /\ scan.at \notin {"clear", "wipe", "rewrite"}
         /\ scan.at # "none" => scan.on = main
<1>1. ASSUME NEW d \in Callers, At(d, "rescanScan") PROVE FALSE
  <2>1. call[d].at \in Inside BY <1>1 DEF At, Inside
  <2>2. holder = c /\ holder = d BY <2>1 DEF IInv, TypeOK
  <2> QED BY <1>1, <2>2
<1> QED BY <1>1 DEF Promised, ScanFits

\* ... and the ones that touch wollets, counters and the floor.
LEMMA SectionSteps ==
  ASSUME IInv, Promised, NEW c \in Callers,
         Derive(c) \/ Count(c) \/ Bump(c) \/ Raise(c) \/ HandOut(c) \/ RescanClaims(c) \/ Free(c)
  PROVE  Acts(c)
<1>0. /\ call \in [Callers -> Calls] /\ call[c] \in Calls /\ chain \in SUBSET Txs
      /\ handed \in [Indices -> Nat] /\ view \in [Wollets -> SUBSET Txs] /\ main \in Wollets
      /\ floor \in Nat /\ call[c].index \in Nat /\ call[c].index \in Indices
  BY BoundsAssumption DEF IInv, TypeOK, Calls, Indices
<1>1. NoCall.at = "idle" BY CallTypes
<1>2. CASE Derive(c)
  <2>1. At(c, "derive") /\ call[c].at \in Inside BY <1>2 DEF Derive, At, Inside
  <2>2. UNCHANGED <<chain, handed, floor, stored, main, scan, shown, known, floorLost>>
    BY <1>2 DEF Derive, outside, disk, engine, past
  <2>3. call'[c].at \in {"count", "idle"} /\ \A d \in Callers \ {c} : call'[d] = call[d]
    <3>1. Call("count", "address", None).at = "count" BY DEF Call
    <3> DEFINE idx == Later(NextUnused(view[call[c].on]), memIndex)
               r == [Call("count", "address", None) EXCEPT !.index = idx]
    <3>2. r.at = "count" BY DEF Call
    <3>3. call' = [call EXCEPT ![c] = r] \/ call' = [call EXCEPT ![c] = NoCall]
      BY <1>2 DEF Derive, Leave, Return
    <3> HIDE DEF r
    <3> QED BY <3>2, <3>3, <1>0, <1>1
  <2>4. view'[main] = view[main] BY <1>2, <1>0 DEF Derive, Forget
  <2>5. scan.at # "none" => scan.on = main BY <2>1, InsideAlone DEF At
  <2> QED BY <2>1, <2>2, <2>3, <2>4, <2>5 DEF Acts, At
<1>3. CASE Count(c)
  <2>1. /\ At(c, "count")
        /\ UNCHANGED <<chain, handed, floor, stored, main, view, scan, shown, known, floorLost>>
    BY <1>3 DEF Count, outside, memory, engine, past
  <2>2. call'[c].at \in {"bump", "idle"} /\ \A d \in Callers \ {c} : call'[d] = call[d]
    BY <1>3, <1>0, <1>1 DEF Count, Leave, Return, Move, Calls
  <2> QED BY <2>1, <2>2 DEF Acts, At
<1>4. CASE Bump(c)
  <2>1. At(c, "bump") /\ call[c].at \in Inside BY <1>4 DEF Bump, At, Inside
  <2>2. UNCHANGED <<chain, handed, floor, stored, main, view, scan, shown, known>>
    BY <1>4 DEF Bump, outside, disk, memory, engine
  <2>3. /\ call'[c].at \in {"raise", "refresh"} /\ call'[c].index = call[c].index
        /\ \A d \in Callers \ {c} : call'[d] = call[d]
    BY <1>4, <1>0 DEF Bump, Move, Calls
  <2>4. (floorLost => floorLost') /\ (call'[c].at = "refresh" => floorLost' \/ call[c].index + 1 <= floor)
    <3>1. CASE Move(c, IF call[c].index + 1 > floor THEN "raise" ELSE "refresh") /\ UNCHANGED floorLost
      <4>1. call'[c].at = IF call[c].index + 1 > floor THEN "raise" ELSE "refresh"
        BY <3>1, <1>0 DEF Move, Calls
      <4>2. call[c].index + 1 > floor \/ call[c].index + 1 <= floor BY <1>0
      <4> QED BY <4>1, <4>2, <3>1
    <3>2. CASE floorLost' = TRUE BY <3>2
    <3> QED BY <3>1, <3>2, <1>4, Zenon DEF Bump
  <2>5. scan.at \notin {"clear", "wipe", "rewrite"} BY <2>1, InsideAlone DEF At
  <2>6. call'[c].at = "refresh" => floorLost' \/ call'[c].index < floor'
    BY <2>2, <2>3, <2>4, <1>0
  <2> QED BY <2>1, <2>2, <2>3, <2>4, <2>5, <2>6 DEF Acts, At
<1>5. CASE Raise(c)
  <2>1. At(c, "raise") /\ call[c].at \in Inside BY <1>5 DEF Raise, At, Inside
  <2>2. UNCHANGED <<chain, handed, stored, main, view, scan, shown, known>>
    BY <1>5 DEF Raise, outside, memory, engine
  <2>3. /\ call'[c].at = "refresh" /\ call'[c].index = call[c].index
        /\ \A d \in Callers \ {c} : call'[d] = call[d]
    BY <1>5, <1>0 DEF Raise, Move, Calls
  <2>4. floor' = call[c].index + 1 /\ (floorLost => floorLost') /\ (floorLost' \/ ~(call[c].index + 1 < floor))
    BY <1>5, Zenon DEF Raise, WriteFloor
  <2>5. scan.at \notin {"clear", "wipe", "rewrite"} BY <2>1, InsideAlone DEF At
  <2>6. (floorLost' \/ floor <= floor') /\ call'[c].index < floor' BY <2>3, <2>4, <1>0
  <2> QED BY <2>1, <2>2, <2>3, <2>4, <2>5, <2>6 DEF Acts, At
<1>6. CASE HandOut(c)
  <2>1. /\ At(c, "refresh")
        /\ UNCHANGED <<chain, floor, stored, main, view, scan, shown, known, floorLost>>
    BY <1>6 DEF HandOut, disk, memory, engine, past
  <2>2. call'[c].at = "idle" /\ \A d \in Callers \ {c} : call'[d] = call[d]
    BY <1>6, <1>0, <1>1 DEF HandOut, Leave, Return
  <2>3. \A i \in Indices : handed'[i] > 0 => handed[i] > 0 \/ i = call[c].index
    BY <1>6, <1>0 DEF HandOut
  <2> QED BY <2>1, <2>2, <2>3 DEF Acts, At
<1>7. CASE RescanClaims(c)
  <2>1. At(c, "rescan") /\ scan.at = "none" BY <1>7 DEF RescanClaims
  <2>2. UNCHANGED <<chain, handed, floor, stored, main, shown, known, floorLost>>
    BY <1>7 DEF RescanClaims, outside, disk, past
  <2>3. PICK w \in Unallocated :
          /\ call' = [call EXCEPT ![c].at = "rescanScan", ![c].on = w]
          /\ scan' = Scan("clear", w)
          /\ view' = [view EXCEPT ![w] = {}]
    BY <1>7 DEF RescanClaims
  <2>4. w \in Wollets /\ w # main BY <2>3 DEF Unallocated
  <2>5. call'[c].at = "rescanScan" /\ \A d \in Callers \ {c} : call'[d] = call[d]
    BY <2>3, <1>0 DEF Calls
  <2>6. scan'.at = "clear" /\ ~scan'.changed /\ scan'.on = w BY <2>3 DEF Scan
  <2>7. view'[w] = {} /\ view'[main] = view[main] BY <2>3, <2>4, <1>0
  <2> QED BY <2>1, <2>2, <2>5, <2>6, <2>7 DEF Acts, At
<1>8. CASE Free(c)
  <2>1. At(c, "free") /\ call[c].at \in Inside BY <1>8 DEF Free, At, Inside
  <2>2. UNCHANGED <<chain, handed, floor, stored, main, scan, shown, known, floorLost>>
    BY <1>8 DEF Free, outside, disk, engine, past
  <2>3. call'[c].at = "idle" /\ \A d \in Callers \ {c} : call'[d] = call[d]
    BY <1>8, <1>0, <1>1 DEF Free, Leave, Return
  <2>4. call[c].on # main BY <2>1 DEF IInv, FreeIsUnwanted
  <2>5. view'[main] = view[main] BY <1>8, <2>4, <1>0 DEF Free, Forget
  <2>6. scan.at # "none" => scan.on = main BY <2>1, InsideAlone DEF At
  <2> QED BY <2>1, <2>2, <2>3, <2>5, <2>6 DEF Acts, At
<1> QED BY <1>2, <1>3, <1>4, <1>5, <1>6, <1>7, <1>8

\* So every step of a call keeps the promises.
LEMMA CallsKeepPromises ==
  ASSUME IInv, IInv', Promised, NEW c \in Callers, Begin(c) \/ Step(c)
  PROVE  Promised'
<1>1. Acts(c) BY PlainSteps, SectionSteps DEF Step
<1> QED BY <1>1, ActsKeep

-----------------------------------------------------------------------------
(* The steps of a scan                                                     *)

\* A scan that goes on: its wollet gets an answer, and the floor is raised or lost.
Goes ==
  /\ UNCHANGED <<chain, handed, main, call, shown, known>>
  /\ scan.at # "none" /\ scan'.at # "none" /\ scan'.on = scan.on
  /\ floorLost => floorLost'
  /\ \/ stored' \in {stored, {}}
     \/ stored' = view[scan.on] /\ scan.at = "persist"
  /\ \/ view' = view
     \/ /\ scan.at = "apply" /\ scan'.at = "cover" /\ scan'.changed
        /\ \A w \in Wollets \ {scan.on} : view'[w] = view[w]
  /\ floorLost' \/ TheFloor <= TheFloor'
  /\ scan.at \in {"cover", "raise"} /\ scan.changed =>
       \/ floorLost'
       \/ scan'.at = "raise" /\ scan'.changed /\ view' = view
       \/ \A i \in Used(view[scan.on]) : i < TheFloor'
  /\ scan'.at \in {"clear", "wipe", "rewrite"} => scan.at \in {"clear", "wipe", "rewrite"}
  /\ scan'.at = "wipe" => floorLost' \/ scan'.copy = floor'
  /\ scan'.changed => scan'.at \in Applied
  /\ scan'.at \in {"ask", "apply"} \union Applied /\ ~scan'.changed =>
       \/ /\ scan.at \in {"ask", "apply"} \union Applied /\ ~scan.changed
          /\ scan'.floor = scan.floor /\ scan'.due = scan.due
       \/ scan.at = "hint" /\ (floorLost' \/ scan'.floor = floor) /\ scan'.due = Due
  /\ scan'.at = "apply" => scan.at = "ask" /\ scan'.got \in Answers(scan.floor)
  /\ scan'.at \in Applied =>
       \/ scan.at \in Applied /\ view' = view
       \/ scan.at = "apply" /\ scan.got \subseteq view'[scan.on]

\* Such a step keeps the promises.
LEMMA GoesKeep == ASSUME IInv, IInv', Promised, Goes PROVE Promised'
<1>a. /\ TypeOK /\ TypeOK' /\ scan.on \in Wollets
      /\ call \in [Callers -> Calls] /\ handed \in [Indices -> Nat]
  BY DEF Goes, IInv, TypeOK, NoFreedWolletIsScanned
<1>0. ScanFits /\ WaitsForMain BY DEF Promised
<1>1. /\ UNCHANGED <<chain, handed, main, call, shown, known>>
      /\ scan.at # "none" /\ scan'.at # "none" /\ scan'.on = scan.on
      /\ floorLost => floorLost'
  BY DEF Goes
<1>2. Owed' = Owed BY <1>1 DEF Owed, Waits, At
<1>3. ScanFits'
  <2>1. scan'.at \in {"clear", "wipe", "rewrite"} => scan.at \in {"clear", "wipe", "rewrite"}
    BY DEF Goes
  <2>2. scan'.at = "wipe" => floorLost' \/ scan'.copy = floor' BY DEF Goes
  <2>3. scan'.changed => scan'.at \in Applied BY DEF Goes
  <2> QED BY <2>1, <2>2, <2>3, <1>0, <1>1 DEF ScanFits, At, Applied
<1>4. WaitsForMain' BY <1>0, <1>1 DEF WaitsForMain, Waits, At
<1>5. CASE floorLost' BY <1>5, <1>3, <1>4 DEF Promised
<1>6. CASE ~floorLost'
  <2>0. /\ ~floorLost
        /\ FloorCovers /\ ViewsCovered /\ OwedIsCovered /\ ScanReaches /\ ScanDelivers
    BY <1>1, <1>6 DEF Promised
  <2>1. TheFloor <= TheFloor' /\ TheFloor \in Nat /\ TheFloor' \in Nat
    <3>1. MaxIndex \in Nat /\ floor' \in 0..MaxIndex /\ scan' \in Scans
      BY <1>a, BoundsAssumption DEF TypeOK
    <3>2. scan'.copy \in 0..MaxIndex BY <3>1 DEF Scans
    <3>3. TheFloor' \in Nat BY <3>1, <3>2 DEF TheFloor
    <3> QED BY <3>3, <1>6, <1>a, Shapes DEF Goes
  <2>2. \A i \in Indices : i < TheFloor => i < TheFloor' BY <2>1, <1>a, Shapes
  <2>3. \A i \in Indices : Covers(i) => Covers(i)'
    <3> SUFFICES ASSUME NEW i \in Indices, JustFound(i) PROVE Covers(i)' BY <2>2 DEF Covers
    <3>1. scan.at \in {"cover", "raise"} /\ scan.changed /\ i \in Used(view[scan.on])
      BY DEF JustFound
    <3>2. \/ scan'.at = "raise" /\ scan'.changed /\ view' = view
          \/ \A k \in Used(view[scan.on]) : k < TheFloor'
      BY <3>1, <1>6 DEF Goes
    <3>3. CASE scan'.at = "raise" /\ scan'.changed /\ view' = view
      BY <3>1, <3>3, <1>1 DEF Covers, JustFound
    <3>4. CASE \A k \in Used(view[scan.on]) : k < TheFloor' BY <3>1, <3>4 DEF Covers
    <3> QED BY <3>2, <3>3, <3>4
  <2>4. Used(view[scan.on]) \subseteq Indices /\ Used(view[main]) \subseteq Indices
        /\ Used(stored) \subseteq Indices
    BY <1>a, TxsAreAtIndices, Shapes DEF TypeOK
  <2>5. FloorCovers'
    <3>1. ASSUME NEW i \in Indices, handed'[i] > 0 \/ i \in known' \/ i \in Used(stored')
          PROVE  i < TheFloor'
      <4>1. CASE handed[i] > 0 \/ i \in known \/ i \in Used(stored) BY <4>1, <2>0, <2>2 DEF FloorCovers
      <4>2. CASE i \in Used(stored') /\ i \notin Used(stored)
        <5>1. stored' = view[scan.on] /\ scan.at = "persist" BY <4>2, TxsAreAtIndices DEF Goes
        <5>2. Covers(i) BY <5>1, <4>2, <2>0 DEF ViewsCovered
        <5>3. i < TheFloor BY <5>1, <5>2 DEF Covers, JustFound
        <5> QED BY <5>3, <2>2
      <4> QED BY <3>1, <4>1, <4>2, <1>1
    <3>2. ASSUME NEW d \in Callers, At(d, "refresh")' PROVE call'[d].index < TheFloor'
      <4>1. call[d].index \in Indices /\ call[d].index < TheFloor
        BY <3>2, <1>1, <1>a, <2>0, Shapes DEF FloorCovers, At
      <4> QED BY <4>1, <1>1, <2>2
    <3> QED BY <3>1, <3>2 DEF FloorCovers
  <2>6. \A i \in Used(view'[scan.on]) : Covers(i)'
    <3>1. CASE view' = view BY <3>1, <2>0, <2>3, <2>4, <1>1 DEF ViewsCovered
    <3>2. CASE scan'.at = "cover" /\ scan'.changed BY <3>2, <1>1 DEF Covers, JustFound
    <3> QED BY <3>1, <3>2 DEF Goes
  <2>7. ViewsCovered'
    <3>1. \A i \in Used(view'[main]) : Covers(i)'
      <4>1. CASE main = scan.on BY <4>1, <2>6
      <4>2. CASE main # scan.on
        <5>1. view'[main] = view[main] BY <4>2, <1>a, Shapes DEF Goes
        <5> QED BY <5>1, <2>0, <2>3, <2>4 DEF ViewsCovered
      <4> QED BY <4>1, <4>2
    <3>2. ASSUME NEW d \in Callers, At(d, "spent")'
          PROVE  (Covers(call[d].index) /\ <<call[d].index, "out">> \in chain)'
      <4>1. Covers(call[d].index) /\ <<call[d].index, "out">> \in chain /\ call[d].index \in Indices
        BY <3>2, <1>1, <1>a, <2>0, Shapes DEF ViewsCovered, At
      <4> QED BY <4>1, <1>1, <2>3
    <3> QED BY <3>1, <3>2, <2>6, <1>1 DEF ViewsCovered
  <2>8. \A tx \in Owed : tx \in chain /\ tx[1] \in Indices /\ tx[1] < TheFloor
    BY <2>0, <1>a, Shapes, TxsAreAtIndices DEF OwedIsCovered
  <2>9. OwedIsCovered' BY <2>8, <2>2, <1>1, <1>2 DEF OwedIsCovered
  <2>10. ScanReaches'
    <3> SUFFICES ASSUME scan'.at \in {"ask", "apply"} \union Applied, ~scan'.changed
                 PROVE  \A i \in scan'.due \union {tx[1] : tx \in Owed} : i < scan'.floor
      BY <1>2 DEF ScanReaches, Applied
    <3>1. CASE /\ scan.at \in {"ask", "apply"} \union Applied /\ ~scan.changed
               /\ scan'.floor = scan.floor /\ scan'.due = scan.due
      BY <3>1, <2>0 DEF ScanReaches
    <3>2. CASE scan.at = "hint" /\ scan'.floor = floor /\ scan'.due = Due
      <4>1. TheFloor = floor BY <3>2 DEF TheFloor
      <4>2. \A i \in Due : i < TheFloor
        <5>1. \A i \in Due : i \in Indices /\ (handed[i] > 0 \/ i \in known)
          BY <1>a DEF Due, Record, TypeOK
        <5> QED BY <5>1, <2>0 DEF FloorCovers
      <4> QED BY <3>2, <4>1, <4>2, <2>8
    <3> QED BY <3>1, <3>2, <1>6 DEF Goes
  <2>11. ScanDelivers'
    <3>1. scan'.at = "apply" => Owed \subseteq scan'.got
      <4> SUFFICES ASSUME scan'.at = "apply", NEW tx \in Owed PROVE tx \in scan'.got OBVIOUS
      <4>1. scan.at = "ask" /\ scan'.got \in Answers(scan.floor) BY DEF Goes
      <4>2. ~scan.changed BY <4>1, <1>0 DEF ScanFits, Applied
      <4>3. tx[1] < scan.floor BY <4>1, <4>2, <2>0 DEF ScanReaches
      <4>4. scan.floor \in 0..MaxIndex BY <1>a DEF TypeOK, Scans
      <4> QED BY <4>1, <4>3, <4>4, <2>8, <1>a, AnswersReach
    <3>2. scan'.at \in Applied => Owed \subseteq view'[scan.on]
      <4> SUFFICES ASSUME scan'.at \in Applied PROVE Owed \subseteq view'[scan.on] OBVIOUS
      <4>1. CASE scan.at \in Applied /\ view' = view BY <4>1, <2>0 DEF ScanDelivers
      <4>2. CASE scan.at = "apply" /\ scan.got \subseteq view'[scan.on]
        BY <4>2, <2>0 DEF ScanDelivers
      <4> QED BY <4>1, <4>2 DEF Goes
    <3>3. shown \subseteq view'[main]
      <4>1. CASE view' = view BY <4>1, <2>0 DEF ScanDelivers
      <4>2. CASE scan.on # main /\ \A w \in Wollets \ {scan.on} : view'[w] = view[w]
        <5>1. view'[main] = view[main] BY <4>2, <1>a, Shapes
        <5> QED BY <5>1, <2>0 DEF ScanDelivers
      <4>3. CASE scan.on = main /\ scan'.at = "cover"
        BY <4>3, <3>2 DEF Applied, Owed
      <4> QED BY <4>1, <4>2, <4>3 DEF Goes
    <3> QED BY <3>1, <3>2, <3>3, <1>1, <1>2 DEF ScanDelivers, Applied
  <2> QED BY <1>3, <1>4, <2>5, <2>7, <2>9, <2>10, <2>11 DEF Promised
<1> QED BY <1>5, <1>6, <1>a, Shapes

\* A scan that settles: with an answer, or on the way to one.
Settles(ok) ==
  /\ SettleFor(ok) /\ scan.at # "none"
  /\ UNCHANGED <<chain, handed, stored, view>>
  /\ floorLost => floorLost'
  /\ floorLost' \/ (scan.at # "rewrite" /\ floor <= floor')
  /\ ok => scan.at \in Applied
  /\ scan.at \in {"cover", "raise"} /\ scan.changed => floorLost'

\* Such a step keeps them too.
LEMMA SettlesKeep ==
  ASSUME IInv, IInv', Promised, NEW ok \in BOOLEAN, Settles(ok) PROVE Promised'
<1>a. /\ TypeOK /\ TypeOK' /\ scan.on \in Wollets
      /\ call \in [Callers -> Calls] /\ handed \in [Indices -> Nat]
      /\ MaxIndex \in Nat /\ floor' \in 0..MaxIndex
  BY BoundsAssumption DEF Settles, IInv, TypeOK, NoFreedWolletIsScanned
<1>0. ScanFits /\ WaitsForMain BY DEF Promised
<1>1. /\ SettleFor(ok) /\ scan.at # "none"
      /\ UNCHANGED <<chain, handed, stored, view>>
      /\ floorLost => floorLost'
  BY DEF Settles
<1>2. scan' = NoScan /\ scan'.at = "none" /\ scan'.changed = FALSE
  BY <1>1 DEF SettleFor, NoScan, Scan
<1>3. \A c \in Callers : call'[c] = call[c] \/ call'[c].at \in {"idle", "queue", "free"}
  BY <1>1, Settled
<1>4. \A c \in Callers : ~(At(c, "after")')
  <2> TAKE c \in Callers
  <2>1. CASE At(c, "after")
    <3>1. call'[c] = NoCall BY <2>1, <1>1 DEF SettleFor, At
    <3> QED BY <3>1, CallTypes DEF At
  <2>2. CASE ~At(c, "after") BY <2>2, <1>3 DEF At
  <2> QED BY <2>1, <2>2
<1>5. ScanFits' BY <1>2 DEF ScanFits, Applied
<1>6. WaitsForMain' /\ Owed' = shown' BY <1>4 DEF WaitsForMain, Waits, Owed
<1>7. CASE floorLost' BY <1>7, <1>5, <1>6 DEF Promised
<1>8. CASE ~floorLost'
  <2>0. /\ ~floorLost
        /\ FloorCovers /\ ViewsCovered /\ OwedIsCovered /\ ScanReaches /\ ScanDelivers
    BY <1>1, <1>8 DEF Promised
  <2>1. TheFloor = floor /\ TheFloor' = floor' /\ floor <= floor' /\ floor \in Nat /\ floor' \in Nat
    BY <1>8, <1>2, <1>a, Shapes DEF Settles, TheFloor
  <2>2. \A i \in Indices : i < TheFloor => i < TheFloor' BY <2>1, <1>a, Shapes
  <2>3. \A i : Covers(i) => i < TheFloor
    <3>1. \A i : ~JustFound(i) BY <1>8 DEF JustFound, Settles
    <3> QED BY <3>1 DEF Covers
  <2>4. \A i \in Indices : Covers(i) => Covers(i)' BY <2>2, <2>3 DEF Covers
  <2>5. /\ \A i \in Used(view[scan.on]) : i \in Indices /\ i < TheFloor
        /\ \A i \in Used(view[main]) : i \in Indices /\ i < TheFloor
    BY <1>1, <1>a, <2>0, <2>3, TxsAreAtIndices, Shapes DEF ViewsCovered
  <2>6. main' \in {main, scan.on} /\ main' = InUse(ok) BY <1>1 DEF SettleFor, InUse
  <2>7. FloorCovers'
    <3>1. known' \subseteq known \union Used(view[scan.on]) BY <1>1 DEF SettleFor, Record
    <3>2. ASSUME NEW i \in Indices, handed'[i] > 0 \/ i \in known' \/ i \in Used(stored')
          PROVE  i < TheFloor'
      <4>1. i < TheFloor BY <3>1, <3>2, <1>1, <2>0, <2>5 DEF FloorCovers
      <4> QED BY <4>1, <2>2
    <3>3. ASSUME NEW d \in Callers, At(d, "refresh")' PROVE call'[d].index < TheFloor'
      <4>1. call'[d] = call[d] /\ At(d, "refresh") BY <3>3, <1>3 DEF At
      <4>2. call[d].index \in Indices /\ call[d].index < TheFloor
        BY <4>1, <1>a, <2>0, Shapes DEF FloorCovers
      <4> QED BY <4>1, <4>2, <2>2
    <3> QED BY <3>2, <3>3 DEF FloorCovers
  <2>8. ViewsCovered'
    <3>1. \A i \in Used(view'[main']) : Covers(i)' BY <1>1, <2>2, <2>5, <2>6 DEF Covers
    <3>2. ASSUME NEW d \in Callers, At(d, "spent")'
          PROVE  (Covers(call[d].index) /\ <<call[d].index, "out">> \in chain)'
      <4>1. call'[d] = call[d] /\ At(d, "spent") BY <3>2, <1>3 DEF At
      <4>2. Covers(call[d].index) /\ <<call[d].index, "out">> \in chain /\ call[d].index \in Indices
        BY <4>1, <1>a, <2>0, Shapes DEF ViewsCovered
      <4> QED BY <4>1, <4>2, <1>1, <2>4
    <3> QED BY <3>1, <3>2, <1>2 DEF ViewsCovered
  <2>9. shown' \subseteq IF ok THEN Owed ELSE shown
    BY <1>1 DEF SettleFor, Record, Owed, Waits
  <2>10. OwedIsCovered'
    <3>1. ASSUME NEW tx \in shown' PROVE tx \in chain' /\ tx[1] < TheFloor'
      <4>1. tx \in Owed BY <2>9 DEF Owed
      <4>2. tx \in chain /\ tx[1] < TheFloor /\ tx[1] \in Indices
        BY <4>1, <2>0, <1>a, Shapes, TxsAreAtIndices DEF OwedIsCovered
      <4> QED BY <4>2, <2>2, <1>1
    <3> QED BY <3>1, <1>6 DEF OwedIsCovered
  <2>11. shown' \subseteq view'[main']
    <3>1. CASE ok
      <4>1. Owed \subseteq view[scan.on] BY <3>1, <2>0 DEF ScanDelivers, Settles
      <4>2. main' = scan.on
        <5>1. CASE \E c \in Callers : At(c, "rescanScan") BY <5>1, <3>1, <2>6 DEF InUse
        <5>2. CASE ~ \E c \in Callers : At(c, "rescanScan") BY <5>2, <2>6, <1>0, <1>1 DEF ScanFits
        <5> QED BY <5>1, <5>2
      <4> QED BY <3>1, <4>1, <4>2, <2>9, <1>1
    <3>2. CASE ~ok
      <4>1. main' = main BY <3>2, <2>6 DEF InUse
      <4> QED BY <3>2, <4>1, <2>0, <2>9, <1>1 DEF ScanDelivers
    <3> QED BY <3>1, <3>2
  <2>12. ScanReaches' BY <1>2 DEF ScanReaches, Applied
  <2>13. ScanDelivers' BY <1>2, <2>11 DEF ScanDelivers, Applied
  <2> QED BY <1>5, <1>6, <2>7, <2>8, <2>10, <2>12, <2>13 DEF Promised
<1> QED BY <1>7, <1>8, <1>a, Shapes

\* LWK's next unused index is past every address that shows a transaction.
LEMMA NextUnusedIsPast ==
  ASSUME NEW s \in SUBSET Txs
  PROVE  NextUnused(s) \in Nat /\ \A i \in Used(s) : i < NextUnused(s)
<1>1. \E n \in 0..MaxIndex : (\A i \in Used(s) : i < n) /\ (n > 0 => n - 1 \in Used(s))
  BY NextUnusedExists
<1>2. NextUnused(s) \in 0..MaxIndex /\ \A i \in Used(s) : i < NextUnused(s)
  BY <1>1 DEF NextUnused
<1>3. MaxIndex \in Nat BY BoundsAssumption
<1> QED BY <1>2, <1>3

\* Each step of the scan in the slot goes on or settles.
ScanDoes == Goes \/ \E ok \in BOOLEAN : Settles(ok)

\* The steps of a rescan before it scans.
LEMMA ClearingSteps ==
  ASSUME IInv, Promised, Clear \/ Wipe \/ Rewrite \/ ClearFails
  PROVE  ScanDoes
<1>0. /\ TypeOK /\ scan \in Scans /\ floor \in Nat /\ ScanFits
  BY Shapes DEF IInv, Promised
<1>c. scan.changed => scan.at \in Applied BY <1>0 DEF ScanFits
<1>1. CASE Clear
  <2>1. PICK n \in 0..floor :
          FloorRead(n) /\ ScanOn([scan EXCEPT !.at = "wipe", !.copy = n])
    BY <1>1, Zenon DEF Clear
  <2>2. scan.at = "clear" /\ stored' = {} /\ UNCHANGED <<chain, handed, floor, view>>
    BY <1>1, Zenon DEF Clear, outside
  <2>3. /\ scan'.at = "wipe" /\ scan'.on = scan.on /\ scan'.copy = n /\ scan'.changed = scan.changed
        /\ UNCHANGED <<main, call, shown, known>>
    BY <2>1, <1>0 DEF ScanOn, Scans
  <2>4. (floorLost => floorLost') /\ (floorLost' \/ n = floor) BY <2>1 DEF FloorRead
  <2>5. TheFloor = floor /\ TheFloor' = floor BY <2>2, <2>3 DEF TheFloor
  <2>6. Goes BY <2>2, <2>3, <2>4, <2>5, <1>0, <1>c DEF Goes, Applied
  <2> QED BY <2>6 DEF ScanDoes
<1>2. CASE Wipe
  <2>1. scan.at = "wipe" /\ UNCHANGED <<chain, handed, stored, view, floorLost>> BY <1>2 DEF Wipe, outside
  <2>2. /\ scan'.at = "rewrite" /\ scan'.on = scan.on /\ scan'.copy = scan.copy
        /\ scan'.changed = scan.changed /\ UNCHANGED <<main, call, shown, known>>
    BY <1>2, <1>0 DEF Wipe, ScanGoto, ScanOn, Scans
  <2>3. floorLost \/ TheFloor' = TheFloor BY <2>1, <2>2, <1>0 DEF TheFloor, ScanFits
  <2>4. floorLost' \/ TheFloor <= TheFloor'
    <3>1. TheFloor \in Nat BY <1>0, Shapes
    <3> QED BY <2>1, <2>3, <3>1
  <2>5. Goes BY <2>1, <2>2, <2>4, <1>0, <1>c DEF Goes, Applied
  <2> QED BY <2>5 DEF ScanDoes
<1>3. CASE Rewrite
  <2>1. /\ scan.at = "rewrite" /\ floor' = scan.copy
        /\ UNCHANGED <<chain, handed, stored, view, floorLost>>
    BY <1>3 DEF Rewrite, outside
  <2>2. /\ scan'.at = "hint" /\ scan'.on = scan.on /\ scan'.changed = scan.changed
        /\ UNCHANGED <<main, call, shown, known>>
    BY <1>3, <1>0 DEF Rewrite, ScanOn, Scans
  <2>3. TheFloor' = TheFloor /\ TheFloor \in Nat BY <2>1, <2>2, <1>0, Shapes DEF TheFloor
  <2>4. Goes BY <2>1, <2>2, <2>3, <1>0, <1>c DEF Goes, Applied
  <2> QED BY <2>4 DEF ScanDoes
<1>4. CASE ClearFails
  <2>1. /\ scan.at \in {"clear", "wipe", "rewrite"} /\ SettleFor(FALSE)
        /\ floorLost' = (floorLost \/ scan.at = "rewrite")
        /\ UNCHANGED <<chain, handed, floor, stored, view>>
    BY <1>4 DEF ClearFails, outside, disk
  <2>2. floorLost' \/ scan.at # "rewrite" BY <2>1
  <2>3. floorLost => floorLost' BY <2>1, Zenon
  <2>5. floor <= floor' BY <2>1, <1>0
  <2>4. Settles(FALSE) BY <2>1, <2>2, <2>3, <2>5, <1>0 DEF Settles
  <2> QED BY <2>4 DEF ScanDoes
<1> QED BY <1>1, <1>2, <1>3, <1>4

\* The steps up to the answer and its application.
LEMMA AskingSteps ==
  ASSUME IInv, Promised, Hint \/ Ask \/ AskFails \/ Apply
  PROVE  ScanDoes
<1>0. /\ TypeOK /\ scan \in Scans /\ floor \in Nat /\ ScanFits
      /\ view \in [Wollets -> SUBSET Txs]
  BY Shapes DEF IInv, Promised, TypeOK
<1>c. scan.changed => scan.at \in Applied BY <1>0 DEF ScanFits
<1>1. CASE Hint
  <2>1. PICK n \in 0..floor :
          FloorRead(n) /\ ScanOn([scan EXCEPT !.at = "ask", !.floor = n, !.due = Due])
    BY <1>1, Zenon DEF Hint
  <2>2. scan.at = "hint" /\ UNCHANGED <<chain, handed, floor, stored, view>>
    BY <1>1, Zenon DEF Hint, outside, disk
  <2>3. /\ scan'.at = "ask" /\ scan'.on = scan.on /\ scan'.floor = n /\ scan'.due = Due
        /\ scan'.changed = scan.changed /\ UNCHANGED <<main, call, shown, known>>
    BY <2>1, <1>0 DEF ScanOn, Scans
  <2>4. (floorLost => floorLost') /\ (floorLost' \/ n = floor) BY <2>1 DEF FloorRead
  <2>5. TheFloor = floor /\ TheFloor' = floor BY <2>2, <2>3 DEF TheFloor
  <2>6. Goes BY <2>2, <2>3, <2>4, <2>5, <1>0, <1>c DEF Goes, Applied
  <2> QED BY <2>6 DEF ScanDoes
<1>2. CASE Ask
  <2>1. PICK answer \in Answers(scan.floor) : ScanOn([scan EXCEPT !.at = "apply", !.got = answer])
    BY <1>2, Zenon DEF Ask
  <2>2. scan.at = "ask" /\ UNCHANGED <<chain, handed, floor, stored, view, floorLost>>
    BY <1>2, Zenon DEF Ask, outside, disk
  <2>3. /\ scan'.at = "apply" /\ scan'.on = scan.on /\ scan'.got = answer /\ scan'.floor = scan.floor
        /\ scan'.due = scan.due /\ scan'.changed = scan.changed
        /\ UNCHANGED <<main, call, shown, known>>
    BY <2>1, <1>0 DEF ScanOn, Scans
  <2>4. TheFloor = floor /\ TheFloor' = floor BY <2>2, <2>3 DEF TheFloor
  <2>5. Goes BY <2>2, <2>3, <2>4, <1>0, <1>c DEF Goes, Applied
  <2> QED BY <2>5 DEF ScanDoes
<1>3. CASE AskFails
  <2>1. scan.at = "ask" /\ UNCHANGED <<chain, handed, floor, stored, view, floorLost>>
    BY <1>3 DEF AskFails, outside, disk
  <2>2. CASE SettleFor(FALSE)
    <3>0. floor <= floor' BY <2>1, <1>0
    <3>1. Settles(FALSE) BY <2>1, <2>2, <3>0 DEF Settles
    <3> QED BY <3>1 DEF ScanDoes
  <2>3. CASE ScanOn([scan EXCEPT !.at = "ask", !.copy = 0])
    <3>1. /\ scan'.at = "ask" /\ scan'.on = scan.on /\ scan'.floor = scan.floor
          /\ scan'.due = scan.due /\ scan'.changed = scan.changed
          /\ UNCHANGED <<main, call, shown, known>>
      BY <2>3, <1>0 DEF ScanOn, Scans
    <3>2. TheFloor = floor /\ TheFloor' = floor BY <2>1, <3>1 DEF TheFloor
    <3>3. Goes BY <2>1, <3>1, <3>2, <1>0, <1>c DEF Goes, Applied
    <3> QED BY <3>3 DEF ScanDoes
  <2> QED BY <1>3, <2>2, <2>3 DEF AskFails, Rotate
<1>4. CASE Apply
  <2>1. scan.at = "apply" /\ UNCHANGED <<chain, handed, floor, stored, floorLost>>
    BY <1>4 DEF Apply, outside, disk
  <2>a. ~scan.changed BY <2>1, <1>c DEF Applied
  <2>b. scan.on \in Wollets BY <2>1 DEF IInv, TypeOK, NoFreedWolletIsScanned
  <2>2. CASE /\ view' \in {[view EXCEPT ![scan.on] = scan.got], [view EXCEPT ![scan.on] = @ \union scan.got]}
             /\ ScanOn([scan EXCEPT !.at = "cover", !.got = {}, !.due = {}, !.floor = 0,
                                    !.before = view[scan.on], !.changed = TRUE])
    <3>1. /\ scan'.at = "cover" /\ scan'.on = scan.on /\ scan'.changed = TRUE
          /\ UNCHANGED <<main, call, shown, known>>
      BY <2>2, <1>0 DEF ScanOn, Scans
    <3>2. scan.got \subseteq view'[scan.on] /\ \A w \in Wollets \ {scan.on} : view'[w] = view[w]
      BY <2>2, <2>b, <1>0
    <3>3. TheFloor = floor /\ TheFloor' = floor BY <2>1, <3>1 DEF TheFloor
    <3>4. Goes BY <2>1, <3>1, <3>2, <3>3, <1>0 DEF Goes, Applied
    <3> QED BY <3>4 DEF ScanDoes
  <2>3. CASE scan.got = view[scan.on] /\ UNCHANGED view /\ ScanOn([scan EXCEPT !.at = "metaRead", !.got = {}])
    <3>1. /\ scan'.at = "metaRead" /\ scan'.on = scan.on /\ scan'.floor = scan.floor
          /\ scan'.due = scan.due /\ scan'.changed = scan.changed
          /\ UNCHANGED <<main, call, shown, known>>
      BY <2>3, <1>0 DEF ScanOn, Scans
    <3>2. TheFloor = floor /\ TheFloor' = floor BY <2>1, <3>1 DEF TheFloor
    <3>3. Goes BY <2>1, <2>3, <2>a, <3>1, <3>2, <1>0 DEF Goes, Applied
    <3> QED BY <3>3 DEF ScanDoes
  <2>4. CASE UNCHANGED view /\ ScanOn([scan EXCEPT !.at = "ask", !.got = {}])
    <3>1. /\ scan'.at = "ask" /\ scan'.on = scan.on /\ scan'.floor = scan.floor
          /\ scan'.due = scan.due /\ scan'.changed = scan.changed
          /\ UNCHANGED <<main, call, shown, known>>
      BY <2>4, <1>0 DEF ScanOn, Scans
    <3>2. TheFloor = floor /\ TheFloor' = floor BY <2>1, <3>1 DEF TheFloor
    <3>3. Goes BY <2>1, <2>4, <2>a, <3>1, <3>2, <1>0 DEF Goes, Applied
    <3> QED BY <3>3 DEF ScanDoes
  <2> QED BY <1>4, <2>2, <2>3, <2>4 DEF Apply
<1> QED BY <1>1, <1>2, <1>3, <1>4

\* Recording the coverage is over, with a floor that is high enough or lost.
LEMMA CoveredDoes ==
  ASSUME IInv, Promised, scan.at \in {"cover", "raise"}, Covered,
         UNCHANGED <<chain, handed, stored, view>>, floorLost => floorLost',
         floorLost' \/ floor <= floor',
         floorLost' \/ \A i \in Used(view[scan.on]) : i < floor'
  PROVE  ScanDoes
<1>0. TypeOK /\ scan \in Scans /\ floor \in Nat BY Shapes DEF IInv
<1>1. CASE scan.changed
  <2>1. ScanGoto("persist") BY <1>1 DEF Covered
  <2>2. /\ scan'.at = "persist" /\ scan'.on = scan.on /\ scan'.changed = scan.changed
        /\ UNCHANGED <<main, call, shown, known>>
    BY <2>1, <1>0 DEF ScanGoto, ScanOn, Scans
  <2>3. TheFloor = floor /\ TheFloor' = floor' BY <2>2 DEF TheFloor
  <2>4. Goes BY <1>1, <2>2, <2>3 DEF Goes, Applied
  <2> QED BY <2>4 DEF ScanDoes
<1>2. CASE ~scan.changed
  <2>1. SettleFor(TRUE) BY <1>2 DEF Covered
  <2>2. Settles(TRUE) BY <2>1, <1>2 DEF Settles, Applied
  <2> QED BY <2>2 DEF ScanDoes
<1> QED BY <1>1, <1>2

\* The steps after it: the floor, the link and the times.
LEMMA RecordingSteps ==
  ASSUME IInv, Promised, Cover \/ RaiseFloor \/ Persist \/ MetaRead \/ MetaWrite \/ MetaFails
  PROVE  ScanDoes
<1>0. /\ TypeOK /\ scan \in Scans /\ floor \in Nat /\ scan.copy \in Nat
      /\ view \in [Wollets -> SUBSET Txs]
  BY Shapes DEF IInv, TypeOK
<1>c. scan.at # "none" => view[scan.on] \in SUBSET Txs
  BY DEF IInv, TypeOK, NoFreedWolletIsScanned
<1>1. CASE Cover
  <2>1. scan.at = "cover" /\ UNCHANGED <<chain, handed, floor, stored, view>>
    BY <1>1 DEF Cover, outside, disk
  <2> DEFINE next == NextUnused(view[scan.on])
  <2>2. next \in Nat /\ \A i \in Used(view[scan.on]) : i \in Nat /\ i < next
    BY <2>1, <1>c, NextUnusedIsPast, TxsAreAtIndices, <1>0, Shapes
  <2>3. CASE next > floor /\ ScanGoto("raise") /\ UNCHANGED floorLost
    <3>1. /\ scan'.at = "raise" /\ scan'.on = scan.on /\ scan'.floor = scan.floor
          /\ scan'.due = scan.due /\ scan'.changed = scan.changed
          /\ UNCHANGED <<main, call, shown, known>>
      BY <2>3, <1>0 DEF ScanGoto, ScanOn, Scans
    <3>2. TheFloor = floor /\ TheFloor' = floor BY <2>1, <3>1 DEF TheFloor
    <3>3. Goes BY <2>1, <2>3, <3>1, <3>2, <1>0 DEF Goes, Applied
    <3> QED BY <3>3 DEF ScanDoes
  <2>4. CASE next <= floor /\ Covered /\ UNCHANGED floorLost
    <3>1. \A i \in Used(view[scan.on]) : i < floor' BY <2>1, <2>2, <2>4, <1>0
    <3> QED BY <2>1, <2>4, <3>1, <1>0, CoveredDoes
  <2>5. CASE floorLost' = TRUE /\ Covered BY <2>1, <2>5, CoveredDoes
  <2> QED BY <1>1, <2>3, <2>4, <2>5, Zenon DEF Cover
<1>2. CASE RaiseFloor
  <2>1. /\ scan.at = "raise" /\ Covered /\ UNCHANGED <<chain, handed, stored, view>>
        /\ floor' = NextUnused(view[scan.on])
    BY <1>2 DEF RaiseFloor, WriteFloor, outside
  <2>2. NextUnused(view[scan.on]) \in Nat /\ \A i \in Used(view[scan.on]) : i < NextUnused(view[scan.on])
    BY <2>1, <1>c, NextUnusedIsPast
  <2>3. (floorLost => floorLost') /\ (floorLost' \/ ~(NextUnused(view[scan.on]) < floor))
    BY <1>2, Zenon DEF RaiseFloor, WriteFloor
  <2>4. floorLost' \/ floor <= floor' BY <2>1, <2>2, <2>3, <1>0
  <2> QED BY <2>1, <2>2, <2>3, <2>4, CoveredDoes
<1>3. CASE Persist
  <2>1. scan.at = "persist" /\ UNCHANGED <<chain, handed, floor, view, floorLost>>
    BY <1>3 DEF Persist, outside
  <2>2. stored' \in {stored, view[scan.on]} BY <1>3 DEF Persist
  <2>3. /\ scan'.at = "metaRead" /\ scan'.on = scan.on /\ scan'.floor = scan.floor
        /\ scan'.due = scan.due /\ scan'.changed = scan.changed
        /\ UNCHANGED <<main, call, shown, known>>
    BY <1>3, <1>0 DEF Persist, ScanOn, Scans
  <2>4. TheFloor = floor /\ TheFloor' = floor BY <2>1, <2>3 DEF TheFloor
  <2>5. Goes BY <2>1, <2>2, <2>3, <2>4, <1>0 DEF Goes, Applied
  <2> QED BY <2>5 DEF ScanDoes
<1>4. CASE MetaRead
  <2>1. PICK n \in 0..floor :
          FloorRead(n) /\ ScanOn([scan EXCEPT !.at = "metaWrite", !.copy = n])
    BY <1>4, Zenon DEF MetaRead
  <2>2. scan.at = "metaRead" /\ UNCHANGED <<chain, handed, floor, stored, view>>
    BY <1>4, Zenon DEF MetaRead, outside, disk
  <2>3. /\ scan'.at = "metaWrite" /\ scan'.on = scan.on /\ scan'.floor = scan.floor
        /\ scan'.due = scan.due /\ scan'.changed = scan.changed
        /\ UNCHANGED <<main, call, shown, known>>
    BY <2>1, <1>0 DEF ScanOn, Scans
  <2>4. floorLost => floorLost' BY <2>1 DEF FloorRead
  <2>5. TheFloor = floor /\ TheFloor' = floor BY <2>2, <2>3 DEF TheFloor
  <2>6. Goes BY <2>2, <2>3, <2>4, <2>5, <1>0 DEF Goes, Applied
  <2> QED BY <2>6 DEF ScanDoes
<1>5. CASE MetaWrite
  <2>1. /\ scan.at = "metaWrite" /\ UNCHANGED <<chain, handed, stored, view>> /\ floor' = scan.copy
    BY <1>5 DEF MetaWrite, WriteFloor, outside
  <2>2. (floorLost => floorLost') /\ (floorLost' \/ ~(scan.copy < floor))
    BY <1>5, Zenon DEF MetaWrite, WriteFloor
  <2>3. floorLost' \/ floor <= floor' BY <2>1, <2>2, <1>0
  <2>4. CASE scan.changed
    <3>1. Settles(TRUE) BY <1>5, <2>1, <2>2, <2>3, <2>4 DEF MetaWrite, Settles, Applied
    <3> QED BY <3>1 DEF ScanDoes
  <2>5. CASE ~scan.changed
    <3>1. /\ scan'.at = "cover" /\ scan'.on = scan.on /\ scan'.floor = scan.floor
          /\ scan'.due = scan.due /\ scan'.changed = scan.changed
          /\ UNCHANGED <<main, call, shown, known>>
      BY <1>5, <2>5, <1>0 DEF MetaWrite, ScanGoto, ScanOn, Scans
    <3>2. TheFloor = floor /\ TheFloor' = floor' BY <2>1, <3>1 DEF TheFloor
    <3>3. Goes BY <2>1, <2>2, <2>3, <2>5, <3>1, <3>2 DEF Goes, Applied
    <3> QED BY <3>3 DEF ScanDoes
  <2> QED BY <2>4, <2>5
<1>6. CASE MetaFails
  <2>1. scan.at = "metaWrite" /\ UNCHANGED <<chain, handed, floor, stored, view, floorLost>>
    BY <1>6 DEF MetaFails, outside, disk
  <2>2. CASE \E ok \in BOOLEAN : SettleFor(ok) /\ (ok => scan.changed)
    <3>1. PICK ok \in BOOLEAN : SettleFor(ok) BY <2>2
    <3>2. Settles(ok) BY <2>1, <3>1, <1>0 DEF Settles, Applied
    <3> QED BY <3>2 DEF ScanDoes
  <2>3. CASE \E place \in {"metaRead", "ask"} :
               /\ place = "ask" => ~scan.changed
               /\ scan' \in {[scan EXCEPT !.at = place], [scan EXCEPT !.at = place, !.copy = 0]}
               /\ UNCHANGED <<main, call, shown, known>>
    <3>1. PICK place \in {"metaRead", "ask"} :
               /\ place = "ask" => ~scan.changed
               /\ scan' \in {[scan EXCEPT !.at = place], [scan EXCEPT !.at = place, !.copy = 0]}
               /\ UNCHANGED <<main, call, shown, known>>
      BY <2>3
    <3>2. /\ scan'.at = place /\ scan'.on = scan.on /\ scan'.floor = scan.floor
          /\ scan'.due = scan.due /\ scan'.changed = scan.changed
      BY <3>1, <1>0 DEF Scans
    <3>3. TheFloor = floor /\ TheFloor' = floor BY <2>1, <3>1, <3>2 DEF TheFloor
    <3>4. Goes BY <2>1, <3>1, <3>2, <3>3, <1>0 DEF Goes, Applied
    <3> QED BY <3>4 DEF ScanDoes
  <2>4. CASE scan.changed
    <3>1. SettleFor(TRUE) \/ ScanOn([scan EXCEPT !.at = "metaRead"])
      BY <1>6, <2>4 DEF MetaFails, ScanGoto
    <3> QED BY <3>1, <2>2, <2>3, <2>4 DEF ScanOn
  <2>5. CASE ~scan.changed
    <3>1. SettleFor(FALSE) \/ ScanOn([scan EXCEPT !.at = "ask", !.copy = 0])
      BY <1>6, <2>5 DEF MetaFails, Rotate
    <3> QED BY <3>1, <2>2, <2>3, <2>5 DEF ScanOn
  <2> QED BY <2>4, <2>5
<1> QED BY <1>1, <1>2, <1>3, <1>4, <1>5, <1>6

\* So every step of the scan keeps the promises.
LEMMA ScanningKeepsPromises ==
  ASSUME IInv, IInv', Promised, Scanning PROVE Promised'
<1>1. ScanDoes BY ClearingSteps, AskingSteps, RecordingSteps DEF Scanning
<1>2. CASE Goes BY <1>2, GoesKeep
<1>3. CASE \E ok \in BOOLEAN : Settles(ok) BY <1>3, SettlesKeep
<1> QED BY <1>1, <1>2, <1>3 DEF ScanDoes

-----------------------------------------------------------------------------
(* The promises                                                            *)

\* They hold at the start.
LEMMA InitPromised == Init => Promised
<1> SUFFICES ASSUME Init PROVE Promised OBVIOUS
<1>1. /\ scan.at = "none" /\ scan.changed = FALSE /\ \A c \in Callers : call[c].at = "idle"
      /\ handed = [i \in Indices |-> 0] /\ known = {} /\ stored = {} /\ shown = {}
      /\ \A w \in Wollets : view[w] = {}
      /\ main \in Wollets
  BY CallTypes DEF Init, NoScan, Scan
<1>2. ScanFits BY <1>1 DEF ScanFits
<1>3. WaitsForMain /\ Owed = {} BY <1>1 DEF WaitsForMain, Waits, Owed, At
<1>4. FloorCovers
  <2>1. Used(stored) = {} BY <1>1, TxsAreAtIndices
  <2> QED BY <1>1, <2>1 DEF FloorCovers, At
<1>5. ViewsCovered
  <2>1. Used(view[main]) = {} BY <1>1, TxsAreAtIndices
  <2> QED BY <1>1, <2>1 DEF ViewsCovered, At
<1>6. OwedIsCovered BY <1>3 DEF OwedIsCovered
<1>7. ScanReaches BY <1>1 DEF ScanReaches, Applied
<1>8. ScanDelivers BY <1>1 DEF ScanDelivers, Applied
<1> QED BY <1>2, <1>3, <1>4, <1>5, <1>6, <1>7, <1>8 DEF Promised

\* Every step keeps them.
LEMMA NextKeepsPromises == IInv /\ IInv' /\ Promised /\ [Next]_vars => Promised'
<1> SUFFICES ASSUME IInv, IInv', Promised, [Next]_vars PROVE Promised' OBVIOUS
<1>0. TypeOK /\ TypeOK' /\ ScanFits /\ WaitsForMain BY DEF IInv, Promised
<1>1. ASSUME chain \subseteq chain',
             UNCHANGED <<handed, floor, stored, main, view, scan, call, shown, known, floorLost>>
      PROVE  Promised'
  <2>1. Owed' = Owed /\ TheFloor' = TheFloor /\ \A i : Covers(i)' <=> Covers(i)
    BY <1>1 DEF Owed, Waits, At, TheFloor, Covers, JustFound
  <2>2. ScanFits' /\ WaitsForMain' BY <1>0, <1>1 DEF ScanFits, WaitsForMain, Waits, At
  <2>3. CASE floorLost BY <2>2, <2>3, <1>1 DEF Promised
  <2>4. CASE ~floorLost
    <3>0. FloorCovers /\ ViewsCovered /\ OwedIsCovered /\ ScanReaches /\ ScanDelivers
      BY <2>4 DEF Promised
    <3>1. FloorCovers' BY <3>0, <1>1, <2>1 DEF FloorCovers, At
    <3>2. ViewsCovered'
      <4>1. ASSUME NEW d \in Callers, At(d, "spent")
            PROVE  (Covers(call[d].index) /\ <<call[d].index, "out">> \in chain)'
        <5>1. Covers(call[d].index) /\ <<call[d].index, "out">> \in chain
          BY <4>1, <3>0 DEF ViewsCovered
        <5>2. Covers(call[d].index)' BY <5>1, <1>1 DEF Covers, TheFloor, JustFound
        <5> QED BY <5>1, <5>2, <1>1
      <4>2. \A i \in Used(view'[main']) : Covers(i)' BY <3>0, <1>1, <2>1 DEF ViewsCovered
      <4>3. scan'.at # "none" => \A i \in Used(view'[scan'.on]) : Covers(i)'
        BY <3>0, <1>1, <2>1 DEF ViewsCovered
      <4>4. \A d \in Callers : At(d, "spent")' => At(d, "spent") BY <1>1 DEF At
      <4> QED BY <4>1, <4>2, <4>3, <4>4 DEF ViewsCovered
    <3>3. OwedIsCovered' BY <3>0, <1>1, <2>1 DEF OwedIsCovered
    <3>4. ScanReaches' BY <3>0, <1>1, <2>1 DEF ScanReaches, Applied
    <3>5. ScanDelivers' BY <3>0, <1>1, <2>1 DEF ScanDelivers, Applied
    <3> QED BY <2>2, <3>1, <3>2, <3>3, <3>4, <3>5 DEF Promised
  <2> QED BY <2>3, <2>4, <1>0, Shapes
<1>2. CASE \E i \in Indices : Payment(i)
  <2>1. /\ chain \subseteq chain'
        /\ UNCHANGED <<handed, floor, stored, main, view, scan, call, shown, known, floorLost>>
    BY <1>2 DEF Payment, disk, memory, engine, past
  <2> QED BY <2>1, <1>1
<1>3. CASE \E w \in zombies : ZombieSettles(w)
  <2>1. /\ chain \subseteq chain'
        /\ UNCHANGED <<handed, floor, stored, main, view, scan, call, shown, known, floorLost>>
    BY <1>3 DEF ZombieSettles, outside, disk, memory, past
  <2> QED BY <2>1, <1>1
<1>4. CASE UNCHANGED vars
  <2>1. /\ chain \subseteq chain'
        /\ UNCHANGED <<handed, floor, stored, main, view, scan, call, shown, known, floorLost>>
    BY <1>4 DEF vars, outside, disk, memory, engine, past
  <2> QED BY <2>1, <1>1
<1>5. CASE Crash
  <2>1. /\ \A c \in Callers : call'[c].at = "idle"
        /\ scan'.at = "none" /\ scan'.changed = FALSE
        /\ UNCHANGED <<chain, handed, floor, stored, main, known>> /\ shown' = {}
    BY <1>5, CallTypes DEF Crash, outside, disk, NoScan, Scan
  <2>2. view'[main] = stored BY <1>5, <1>0 DEF Crash, TypeOK
  <2>3. (floorLost => floorLost') /\ (floorLost' \/ scan.at # "rewrite") BY <1>5, Zenon DEF Crash
  <2>4. ScanFits' BY <2>1 DEF ScanFits
  <2>5. WaitsForMain' /\ Owed' = {} BY <2>1 DEF WaitsForMain, Waits, Owed, At
  <2>6. CASE floorLost' BY <2>6, <2>4, <2>5 DEF Promised
  <2>7. CASE ~floorLost'
    <3>0. FloorCovers BY <2>3, <2>7 DEF Promised
    <3>1. TheFloor' = floor /\ TheFloor = floor BY <2>1, <2>3, <2>7 DEF TheFloor
    <3>2. FloorCovers' BY <3>0, <3>1, <2>1 DEF FloorCovers, At
    <3>3. \A i \in Used(stored) : i \in Indices /\ i < floor
      BY <3>0, <3>1, <1>0, TxsAreAtIndices DEF FloorCovers, TypeOK
    <3>4. ViewsCovered' BY <2>1, <2>2, <3>1, <3>3 DEF ViewsCovered, Covers, At
    <3>5. OwedIsCovered' BY <2>5 DEF OwedIsCovered
    <3>6. ScanReaches' BY <2>1 DEF ScanReaches, Applied
    <3>7. ScanDelivers' BY <2>1 DEF ScanDelivers, Applied
    <3> QED BY <2>4, <2>5, <3>2, <3>4, <3>5, <3>6, <3>7 DEF Promised
  <2> QED BY <2>6, <2>7, <1>0 DEF TypeOK
<1>6. CASE \E c \in Callers : Begin(c) \/ Step(c) BY <1>6, CallsKeepPromises
<1>7. CASE Scanning BY <1>7, ScanningKeepsPromises
<1> QED BY <1>2, <1>3, <1>4, <1>5, <1>6, <1>7 DEF Next

\* So they always hold.
LEMMA PromisesHold == Spec => [](IInv /\ Promised)
<1>1. Init => IInv /\ Promised BY InitIInv, InitPromised
<1>2. IInv /\ Promised /\ [Next]_vars => IInv' /\ Promised' BY NextKeeps, NextKeepsPromises
<1> QED BY <1>1, <1>2, PTL DEF Spec

\* The wollet in use shows every spend whose own refresh was reported done.
THEOREM SpendsAreShown == Spec => []RefreshShowsSpend
<1>1. Promised => RefreshShowsSpend BY DEF Promised, ScanDelivers, RefreshShowsSpend
<1> QED BY <1>1, PromisesHold, PTL

\* The step that answers a scan holds all that was due when it began.
LEMMA AnswersAreComplete ==
  IInv /\ Promised /\ [Next]_vars =>
    (scan.at = "ask" /\ scan'.at = "apply" =>
       floorLost \/ {tx \in chain : tx[1] \in scan.due} \subseteq scan'.got)
<1> SUFFICES ASSUME IInv, Promised, [Next]_vars, scan.at = "ask", scan'.at = "apply", ~floorLost,
                    NEW tx \in chain, tx[1] \in scan.due
             PROVE  tx \in scan'.got
  BY DEF IInv, TypeOK
<1>0. TypeOK /\ ScanFits /\ ScanReaches BY DEF IInv, Promised
<1>1. Goes
  <2>1. scan' # scan OBVIOUS
  <2>2. CASE \E c \in Callers : Begin(c) \/ Step(c)
    <3>1. PICK c \in Callers : Acts(c) BY <2>2, PlainSteps, SectionSteps DEF Step
    <3> QED BY <2>1, <3>1 DEF Acts
  <2>3. CASE Scanning
    <3>1. ScanDoes BY <2>3, ClearingSteps, AskingSteps, RecordingSteps DEF Scanning
    <3>2. ASSUME NEW ok \in BOOLEAN, Settles(ok) PROVE FALSE
      BY <3>2 DEF Settles, SettleFor, NoScan, Scan
    <3> QED BY <3>1, <3>2 DEF ScanDoes
  <2>4. CASE Crash BY <2>4 DEF Crash, NoScan, Scan
  <2>5. CASE \E i \in Indices : Payment(i) BY <2>1, <2>5 DEF Payment, engine
  <2>6. CASE \E w \in zombies : ZombieSettles(w) BY <2>1, <2>6 DEF ZombieSettles
  <2>7. CASE UNCHANGED vars BY <2>1, <2>7 DEF vars, engine
  <2> QED BY <2>2, <2>3, <2>4, <2>5, <2>6, <2>7 DEF Next
<1>2. scan'.got \in Answers(scan.floor) BY <1>1 DEF Goes
<1>3. ~scan.changed BY <1>0 DEF ScanFits, Applied
<1>4. tx[1] < scan.floor BY <1>0, <1>3 DEF ScanReaches
<1>5. scan.floor \in 0..MaxIndex BY <1>0 DEF TypeOK, Scans
<1> QED BY <1>0, <1>2, <1>4, <1>5, AnswersReach

\* Whatever provider answers and however little it walks, a scan or rescan finds
\* what is on the chain at every address handed out or found used before it began.
THEOREM ScansAreComplete == Spec => ScansMissNothing
<1>1. IInv /\ Promised /\ [Next]_vars =>
        [scan.at = "ask" /\ scan'.at = "apply" =>
           floorLost \/ {tx \in chain : tx[1] \in scan.due} \subseteq scan'.got]_vars
  BY AnswersAreComplete
<1> QED BY <1>1, PromisesHold, PTL DEF Spec, ScansMissNothing
=============================================================================
