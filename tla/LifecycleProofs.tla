-------------------------- MODULE LifecycleProofs --------------------------
(***************************************************************************)
(* Proofs about the lock file (DirLock) and about the processes that open  *)
(* the wallet behind it (Lifecycle).                                       *)
(***************************************************************************)
EXTENDS Lifecycle, TLAPS

-----------------------------------------------------------------------------
(* The lock file: without two processes acquiring at the same time, the    *)
(* data directory has one live owner.                                      *)
(*                                                                         *)
(* OneHolder is not inductive: a holder has to be safe from a process that *)
(* has already judged the lock.  Custody says that a holder's file is in   *)
(* place and names it, that no one is about to unlink while someone holds, *)
(* and that one process acquires at a time.                                *)

\* One process acquires at a time.
OneAcquires == \A p, q \in Procs : pc[p] \in Acquiring /\ pc[q] \in Acquiring => p = q

\* The owner's file is there for as long as it owns the directory, and names it.
HolderKeepsItsFile ==
  \A p \in Procs : pc[p] \in Holding =>
    lock.made /\ lock.pid = pidOf[p] /\ SameBoot(lock.boot, boot)

\* Whoever is past the check has found no owner.
NoOwnerBehindTheCheck ==
  \A p, q \in Procs : pc[p] \in {"write", "unlink"} => pc[q] \notin Holding

\* The file a process is writing is its own.
WritesItsOwn == \A p \in Procs : pc[p] = "write" => lock.made /\ lock.by = p

Custody == TypeOK /\ OneAcquires /\ HolderKeepsItsFile /\ NoOwnerBehindTheCheck /\ WritesItsOwn

USE PidsAssumption, BootAssumption, ContentionAssumption

\* What an unlink and a write leave behind the path.
LEMMA FileTypes ==
  ASSUME NEW p \in Procs, NEW pid \in Pids \union {NoPid}, NEW b \in 0..MaxBoot
  PROVE  NoFile \in Files /\ File(p, pid, b) \in Files
BY DEF Files, NoFile, File, Nobody, NoPid, UnknownBoot

LEMMA NoFileTypes == NoFile \in Files /\ NoFile.boot = 0
BY DEF Files, NoFile, Nobody, NoPid, UnknownBoot

\* Every reader of a file finds a boot.
LEMMA FileFields == \A f \in Files : f.boot \in 0..MaxBoot /\ f.pid \in Pids \union {NoPid}
BY DEF Files

LEMMA TypesAtStart == Init => TypeOK
BY DEF Init, TypeOK, Files, Places, NoFile, Nobody, NoPid, UnknownBoot

\* Types: process ids of live processes stay distinct, no lock is from a later
\* boot.
THEOREM TypeInvariance == Spec => []TypeOK
<1>1. Init => TypeOK
  BY TypesAtStart
<1>2. TypeOK /\ [Next]_vars => TypeOK'
  <2> SUFFICES ASSUME TypeOK, [Next]_vars PROVE TypeOK'
    OBVIOUS
  <2> USE DEF TypeOK, Places, Acquiring, Holding, Goto, NoFile, File, Nobody, NoPid, UnknownBoot, Alive
  <2>1. ASSUME NEW p \in Procs, NEW pid \in Pids, Spawn(p, pid) PROVE TypeOK'
    BY <2>1 DEF Spawn
  <2>2. ASSUME NEW p \in Procs, Acquire(p) PROVE TypeOK'
    BY <2>2 DEF Acquire
  <2>3. ASSUME NEW p \in Procs, Create(p) PROVE TypeOK'
    BY <2>3, FileTypes, FileFields DEF Create
  <2>4. ASSUME NEW p \in Procs, Write(p) PROVE TypeOK'
    <3>1. BootId(p) \in 0..boot
      BY DEF BootId
    <3>2. Written(p) \in Files /\ Written(p).boot <= boot
      <4>1. File(p, pidOf[p], BootId(p)) \in Files
        BY <3>1, FileTypes
      <4>2. File(p, pidOf[p], BootId(p)).boot <= boot
        BY <3>1
      <4> QED
        BY <4>1, <4>2 DEF Written
    <3> QED
      BY <2>4, <3>2 DEF Write
  <2>5. ASSUME NEW p \in Procs, WriteFails(p) PROVE TypeOK'
    <3>1. BootId(p) \in 0..boot
      BY DEF BootId
    <3>2. Written(p) \in Files /\ Written(p).boot <= boot
      <4>1. File(p, pidOf[p], BootId(p)) \in Files
        BY <3>1, FileTypes
      <4>2. File(p, pidOf[p], BootId(p)).boot <= boot
        BY <3>1
      <4> QED
        BY <4>1, <4>2 DEF Written
    <3>3. lock' \in Files /\ lock'.boot <= boot
      BY <2>5, <3>2, Zenon DEF WriteFails
    <3> QED
      BY <2>5, <3>3 DEF WriteFails
  <2>6. ASSUME NEW p \in Procs, Inspect(p) PROVE TypeOK'
    BY <2>6 DEF Inspect
  <2>7. ASSUME NEW p \in Procs, Unlink(p) PROVE TypeOK'
    BY <2>7, NoFileTypes DEF Unlink
  <2>8. ASSUME NEW p \in Procs, Release(p) \/ ReleaseUnlink(p) PROVE TypeOK'
    <3>1. CASE Release(p)
      BY <3>1 DEF Release
    <3>2. CASE ReleaseUnlink(p)
      BY <3>2, NoFileTypes DEF ReleaseUnlink
    <3> QED
      BY <2>8, <3>1, <3>2
  <2>9. ASSUME NEW p \in Procs, Die(p) PROVE TypeOK'
    BY <2>9 DEF Die
  <2>10. ASSUME NEW pid \in Pids, ForeignStarts(pid) \/ ForeignEnds(pid) PROVE TypeOK'
    BY <2>10 DEF ForeignStarts, ForeignEnds
  <2>11. CASE Reboot
    BY <2>11, FileFields DEF Reboot
  <2>12. CASE UNCHANGED vars
    BY <2>12 DEF vars
  <2> QED
    BY <2>1, <2>2, <2>3, <2>4, <2>5, <2>6, <2>7, <2>8, <2>9, <2>10, <2>11, <2>12 DEF Next
<1> QED
  BY <1>1, <1>2, PTL DEF Spec

\* Custody is kept by every step when acquisitions do not overlap.
LEMMA CustodyInvariance == ASSUME ~Contention PROVE Spec => []Custody
<1>1. Init => Custody
  BY DEF Init, Custody, TypeOK, Files, OneAcquires, HolderKeepsItsFile, NoOwnerBehindTheCheck, WritesItsOwn,
     Places, Acquiring, Holding, NoFile, Nobody, NoPid, UnknownBoot
<1>2. Custody /\ TypeOK' /\ [Next]_vars => Custody'
  <2> SUFFICES ASSUME Custody, TypeOK', [Next]_vars PROVE Custody'
    OBVIOUS
  <2> USE DEF Custody, OneAcquires, HolderKeepsItsFile, NoOwnerBehindTheCheck, WritesItsOwn,
        TypeOK, Acquiring, Holding, Goto, NoFile, File, Nobody, NoPid, UnknownBoot, SameBoot
  <2>1. ASSUME NEW p \in Procs, NEW pid \in Pids, Spawn(p, pid) PROVE Custody'
    BY <2>1 DEF Spawn
  <2>2. ASSUME NEW p \in Procs, Acquire(p) PROVE Custody'
    BY <2>2 DEF Acquire
  <2>3. ASSUME NEW p \in Procs, Create(p) PROVE Custody'
    BY <2>3 DEF Create
  <2>4. ASSUME NEW p \in Procs, Write(p) PROVE Custody'
    BY <2>4 DEF Write, Written, BootId
  <2>5. ASSUME NEW p \in Procs, WriteFails(p) PROVE Custody'
    BY <2>5 DEF WriteFails, Written, BootId
  <2>6. ASSUME NEW p \in Procs, Inspect(p) PROVE Custody'
    BY <2>6 DEF Inspect, HeldByLiveProcess, Alive, BootId
  <2>7. ASSUME NEW p \in Procs, Unlink(p) PROVE Custody'
    BY <2>7 DEF Unlink
  <2>8. ASSUME NEW p \in Procs, Release(p) \/ ReleaseUnlink(p) PROVE Custody'
    BY <2>8 DEF Release, ReleaseUnlink
  <2>9. ASSUME NEW p \in Procs, Die(p) PROVE Custody'
    BY <2>9 DEF Die
  <2>10. ASSUME NEW pid \in Pids, ForeignStarts(pid) \/ ForeignEnds(pid) PROVE Custody'
    BY <2>10 DEF ForeignStarts, ForeignEnds
  <2>11. CASE Reboot
    BY <2>11 DEF Reboot
  <2>12. CASE UNCHANGED vars
    BY <2>12 DEF vars
  <2> QED
    BY <2>1, <2>2, <2>3, <2>4, <2>5, <2>6, <2>7, <2>8, <2>9, <2>10, <2>11, <2>12 DEF Next
<1> QED
  BY <1>1, <1>2, TypeInvariance, PTL DEF Spec

\* The data directory has at most one live owner, for any number of processes,
\* crashes, reboots and reuses of ids, as long as acquisitions do not overlap.
THEOREM SingleHolder == ASSUME ~Contention PROVE Spec => []OneHolder
<1>1. Custody => OneHolder
  BY DEF Custody, TypeOK, HolderKeepsItsFile, OneHolder, Holding
<1> QED
  BY <1>1, CustodyInvariance, PTL

-----------------------------------------------------------------------------
(* The processes that open the wallet.                                     *)

USE NoneAssumption, BoundsAssumption, RunsAssumption

\* Every step of a server, of a ceremony or of the world does to the lock what
\* DirLock says, or nothing.
LEMMA LifeStepIsLockStep == ASSUME [LifeNext]_lifeVars PROVE [Next]_vars
<1> USE DEF Next
<1>1. ASSUME NEW p \in Procs, ServerStep(p) PROVE [Next]_vars
  BY <1>1 DEF ServerStep, OpenForTools, Resume, NextAddress, Shutdown
<1>2. ASSUME NEW p \in Procs, WalletStep(p) PROVE [Next]_vars
  BY <1>2, Zenon DEF WalletStep, ResolvePassphrase, LockStep, Decrypt, CloseStep
<1>3. ASSUME NEW p \in Procs, CeremonyStep(p) PROVE [Next]_vars
  BY <1>3, Zenon DEF CeremonyStep, Look, ContinueToCreate, LookUnderLock, InitializeFails, Export, Abort, ShowWords,
     HideWords, Answer, ConfirmBackup, StoreUnlockKey, TypePassphrase, NewPassphrase, TypeWords, Initialize
<1>4. ASSUME NEW p \in Procs, End(p) PROVE [Next]_vars
  BY <1>4 DEF End
<1>5. ASSUME NEW p \in Procs, NEW pid \in Pids, NEW c \in Commands, Launch(p, pid, c) PROVE [Next]_vars
  BY <1>5 DEF Launch
<1>6. CASE Elsewhere
  BY <1>6 DEF Elsewhere
<1>7. CASE Restart
  BY <1>7 DEF Restart
<1>8. CASE UNCHANGED lifeVars
  BY <1>8 DEF lifeVars
<1> QED
  BY <1>1, <1>2, <1>3, <1>4, <1>5, <1>6, <1>7, <1>8, Zenon DEF LifeNext

\* The wallet's processes use the lock as DirLock lets them: LifeSpec
\* implements DirLock's specification.
THEOREM LifeImplementsDirLock == LifeSpec => Spec
<1>1. LifeInit => Init
  BY DEF LifeInit
<1> QED
  BY <1>1, LifeStepIsLockStep, PTL DEF LifeSpec, Spec

\* TypeOK and OneHolder carry over from DirLock's specification.
LEMMA LockTypes == LifeSpec => []TypeOK
BY LifeImplementsDirLock, TypeInvariance, PTL

\* What a process works with is made of these parts.
LEMMA WorkIsARecord ==
  \A w \in Work :
    /\ w.copy \in Wallets \union {NoWallet}
    /\ w.late \in BOOLEAN
    /\ w.pass \in Passphrases \union {None}
    /\ w.words \in Seeds \union {None}
    /\ w.tries \in 0..MaxTries
    /\ w.then \in {"listen", "store", "display", "typepass", "done"}
    /\ w.screen \in BOOLEAN
    /\ [w EXCEPT !.late = TRUE] \in Work
BY DEF Work

\* What a process takes along when its wallet is closed.
LEMMA CloseFields ==
  ASSUME flow \in [Procs -> Steps], my \in [Procs -> Work], NEW p \in Procs, CloseStep(p)
  PROVE  \/ my' = my /\ flow' = flow
         \/ /\ flow[p] = "closing" /\ flow'[p] = my[p].then /\ my'[p].words = None
            /\ my[p].then = "store" => my'[p].pass = my[p].pass /\ my'[p].copy = my[p].copy
<1> DEFINE copy == IF my[p].then = "store" THEN my[p].copy ELSE NoWallet
           kept == [Fresh EXCEPT !.pass = my[p].pass, !.tries = my[p].tries, !.copy = copy]
<1>1. kept.words = None /\ kept.pass = my[p].pass /\ kept.copy = copy
  <2> HIDE DEF copy
  <2> QED
    BY DEF Fresh
<1>2. Fresh.words = None
  BY DEF Fresh
<1>3. ASSUME ~(my' = my /\ flow' = flow)
      PROVE  /\ flow[p] = "closing" /\ flow'[p] = my[p].then
             /\ my'[p] = IF my[p].then \in {"done", "listen"} THEN Fresh ELSE kept
  BY <1>3 DEF CloseStep, To
<1> QED
  <2> HIDE DEF kept
  <2> QED
    BY <1>1, <1>2, <1>3

LEMMA FreshTypes == Fresh \in Work
BY DEF Work, Fresh

\* Reading the file back keeps every process's work well-formed.
LEMMA RereadTypes ==
  ASSUME my \in [Procs -> Work], NEW p \in Procs, NEW w \in Wallets
  PROVE  Reread(p, w) \in [Procs -> Work]
<1>1. ASSUME NEW q \in Procs PROVE [my[q] EXCEPT !.late = @ \/ flow[q] \in Opening] \in Work
  BY DEF Work
<1>2. [my[p] EXCEPT !.copy = w] \in Work
  BY DEF Work
<1> QED
  BY <1>1, <1>2 DEF Reread

\* A process has a copy of wallet.json only when there is a wallet, an open
\* wallet has one, and so has the ceremony that stores its key; whoever goes on to
\* open or make a wallet has a passphrase, and whoever shows or stores something
\* of a wallet has one.
FileIsThere ==
  \A p \in Procs :
    /\ my[p].copy # NoWallet => walletFile # NoWallet
    /\ flow[p] \in Open \union {"decrypt", "store"} => my[p].copy # NoWallet
    /\ flow[p] \in {"warn", "lock", "make", "derive"} => my[p].pass # None
    /\ flow[p] = "display" => walletFile # NoWallet
    /\ flow[p] = "closing" /\ my[p].then = "store" => my[p].copy # NoWallet
    /\ flow[p] = "closing" /\ my[p].then = "display" => walletFile # NoWallet

\* One field of a process's work is set.
LEMMA FieldTypes ==
  ASSUME NEW f \in [Procs -> Work], NEW p \in Procs
  PROVE  /\ \A then \in {"store", "done"} : [f EXCEPT ![p].then = then] \in [Procs -> Work]
         /\ \A typed \in Passphrases : [f EXCEPT ![p].pass = typed] \in [Procs -> Work]
<1>1. f[p] \in Work
  OBVIOUS
<1>2. ASSUME NEW then \in {"store", "done"} PROVE [f[p] EXCEPT !.then = then] \in Work
  BY <1>1 DEF Work
<1>3. ASSUME NEW typed \in Passphrases PROVE [f[p] EXCEPT !.pass = typed] \in Work
  BY <1>1 DEF Work
<1> QED
  BY <1>2, <1>3

LEMMA ScreenTypes ==
  ASSUME NEW f \in [Procs -> Work], NEW p \in Procs, NEW c \in BOOLEAN
  PROVE  [f EXCEPT ![p].screen = c] \in [Procs -> Work]
BY DEF Work

LEMMA CopyTypes ==
  ASSUME NEW w \in Work, NEW c \in Wallets \union {NoWallet}
  PROVE  [w EXCEPT !.copy = c] \in Work
BY DEF Work

LEMMA AttemptTypes ==
  ASSUME NEW w \in Work, NEW n \in 0..MaxTries, NEW typed \in Passphrases, NEW c \in Wallets \union {NoWallet}
  PROVE  [w EXCEPT !.tries = n, !.pass = typed, !.copy = c] \in Work
BY DEF Work

LEMMA TypedWordsTypes ==
  ASSUME NEW w \in Work, NEW typed \in Passphrases, NEW seed \in Seeds
  PROVE  [w EXCEPT !.pass = typed, !.words = seed] \in Work
BY DEF Work

\* A process that closes its wallet or gives up stays well-formed.
LEMMA CloseTypes ==
  ASSUME my \in [Procs -> Work], NEW p \in Procs,
         NEW s \in {"listen", "store", "display", "typepass", "done"}, Close(p, s)
  PROVE  my' \in [Procs -> Work]
BY DEF Close, Work

LEMMA GiveUpTypes ==
  ASSUME my \in [Procs -> Work], NEW p \in Procs, GiveUp(p)
  PROVE  my' \in [Procs -> Work]
BY FreshTypes DEF GiveUp

\* A wallet that is written again is a wallet.
LEMMA WalletTypes ==
  ASSUME NEW w \in Wallets
  PROVE  /\ \A n \in 0..MaxIndex : [w EXCEPT !.next = n] \in Wallets
         /\ [w EXCEPT !.confirmed = TRUE] \in Wallets
BY DEF Wallets

\* The file an open wallet works with is there.
LEMMA OpenHasAFile ==
  ASSUME LifeTypeOK, FileIsThere, NEW p \in Procs, flow[p] \in Open \union {"decrypt"}
  PROVE  walletFile \in Wallets /\ my[p].copy \in Wallets
BY WorkIsARecord DEF LifeTypeOK, FileIsThere

LEMMA NextAddressTypes ==
  ASSUME LifeTypeOK, FileIsThere, NEW p \in Procs, NextAddress(p)
  PROVE  walletFile' \in Wallets /\ walletFile'.seed = walletFile.seed /\ my' = Reread(p, walletFile')
<1>1. walletFile \in Wallets /\ my[p].copy \in Wallets
  BY OpenHasAFile DEF NextAddress, Open
<1>2. my[p].copy.next + 1 \in 0..MaxIndex /\ walletFile.next \in 0..MaxIndex
  BY <1>1 DEF NextAddress, Wallets
<1> QED
  BY <1>1, <1>2, WalletTypes DEF NextAddress, Wallets

LEMMA ConfirmBackupTypes ==
  ASSUME LifeTypeOK, FileIsThere, NEW p \in Procs, ConfirmBackup(p)
  PROVE  /\ walletFile' \in Wallets
         /\ walletFile'.seed = walletFile.seed
         /\ my' = [Reread(p, walletFile') EXCEPT ![p].then = "store"]
<1>1. walletFile \in Wallets
  BY OpenHasAFile DEF ConfirmBackup, Open
<1> QED
  BY <1>1, WalletTypes DEF ConfirmBackup, Wallets

LEMMA InitializeTypes ==
  ASSUME LifeTypeOK, FileIsThere, NEW p \in Procs, NEW seed \in Seeds, NEW then \in {"store", "done"},
         Initialize(p, seed, then)
  PROVE  /\ walletFile' \in Wallets
         /\ walletFile'.seed = seed
         /\ walletFile'.pass = my[p].pass
         /\ walletFile'.salt = salts + 1
         /\ walletFile'.confirmed => cmd[p] = "restore"
         /\ my' = [Reread(p, walletFile') EXCEPT ![p].then = then]
<1>1. my[p].pass \in Passphrases
  BY WorkIsARecord DEF Initialize, FileIsThere, LifeTypeOK
<1>2. salts + 1 \in 1..MaxSalt
  BY DEF Initialize, LifeTypeOK
<1>3. walletFile' = [seed |-> seed, pass |-> my[p].pass, salt |-> salts + 1, confirmed |-> cmd[p] = "restore",
                     next |-> IF my[p].copy = NoWallet THEN 0 ELSE my[p].copy.next]
  BY DEF Initialize
<1>4. (IF my[p].copy = NoWallet THEN 0 ELSE my[p].copy.next) \in 0..MaxIndex
  <2>1. my[p].copy \in Wallets \union {NoWallet}
    BY WorkIsARecord DEF LifeTypeOK
  <2> QED
    BY <2>1 DEF Wallets
<1>5. my' = [Reread(p, walletFile') EXCEPT ![p].then = then]
  BY <1>3 DEF Initialize
<1> QED
  BY <1>1, <1>2, <1>3, <1>4, <1>5 DEF Wallets

\* The work of every process stays well-formed.
LEMMA WorkStaysTyped ==
  ASSUME LifeTypeOK, FileIsThere, [LifeNext]_lifeVars
  PROVE  my' \in [Procs -> Work]
<1> USE DEF LifeTypeOK
<1>1. ASSUME NEW p \in Procs, ServerStep(p) PROVE my' \in [Procs -> Work]
  <2>1. CASE OpenForTools(p)
    <3>1. [my[p] EXCEPT !.copy = walletFile] \in Work
      BY CopyTypes
    <3> QED
      BY <2>1, <3>1 DEF OpenForTools
  <2>2. CASE Resume(p)
    BY <2>2 DEF Resume
  <2>3. CASE Shutdown(p)
    BY <2>3, CloseTypes DEF Shutdown
  <2>4. CASE NextAddress(p)
    BY <2>4, NextAddressTypes, RereadTypes
  <2> QED
    BY <1>1, <2>1, <2>2, <2>3, <2>4 DEF ServerStep
<1>2. ASSUME NEW p \in Procs, WalletStep(p) PROVE my' \in [Procs -> Work]
  <2>1. CASE ResolvePassphrase(p)
    <3>1. PICK key \in (IF cmd[p] = "serve" THEN UnlockKeys ELSE {my[p].pass}) :
            IF key = None THEN GiveUp(p) ELSE my' = [my EXCEPT ![p].pass = key]
      BY <2>1 DEF ResolvePassphrase
    <3>2. key \in Passphrases \union {None}
      BY <3>1, WorkIsARecord DEF UnlockKeys
    <3>3. CASE key = None
      BY <3>1, <3>3, GiveUpTypes
    <3>4. CASE key # None
      <4>1. my' = [my EXCEPT ![p].pass = key] /\ key \in Passphrases
        BY <3>1, <3>2, <3>4
      <4> QED
        BY <4>1, FieldTypes
    <3> QED
      BY <3>3, <3>4
  <2>2. CASE LockStep(p)
    <3>1. my' = my \/ GiveUp(p)
      BY <2>2 DEF LockStep
    <3> QED
      BY <3>1, GiveUpTypes
  <2>3. CASE Decrypt(p)
    <3>1. my' = my \/ \E s \in {"listen", "typepass", "done"} : Close(p, s)
      BY <2>3, Zenon DEF Decrypt
    <3> QED
      BY <3>1, CloseTypes
  <2>4. CASE CloseStep(p)
    <3>1. my[p] \in Work
      OBVIOUS
    <3>2. [Fresh EXCEPT !.pass = my[p].pass, !.tries = my[p].tries,
                        !.copy = IF my[p].then = "store" THEN my[p].copy ELSE NoWallet] \in Work
      <4>1. /\ my[p].pass \in Passphrases \union {None} /\ my[p].tries \in 0..MaxTries
            /\ (IF my[p].then = "store" THEN my[p].copy ELSE NoWallet) \in Wallets \union {NoWallet}
        BY <3>1, WorkIsARecord
      <4>2. [Fresh EXCEPT !.tries = my[p].tries, !.pass = my[p].pass,
                          !.copy = IF my[p].then = "store" THEN my[p].copy ELSE NoWallet] \in Work
        BY <4>1, FreshTypes DEF Work
      <4>3. [Fresh EXCEPT !.pass = my[p].pass, !.tries = my[p].tries,
                          !.copy = IF my[p].then = "store" THEN my[p].copy ELSE NoWallet] =
            [Fresh EXCEPT !.tries = my[p].tries, !.pass = my[p].pass,
                          !.copy = IF my[p].then = "store" THEN my[p].copy ELSE NoWallet]
        BY DEF Fresh
      <4> QED
        BY <4>2, <4>3
    <3> QED
      BY <2>4, <3>2, FreshTypes DEF CloseStep
  <2> QED
    BY <1>2, <2>1, <2>2, <2>3, <2>4 DEF WalletStep
<1>3. ASSUME NEW p \in Procs, CeremonyStep(p) PROVE my' \in [Procs -> Work]
  <2>1. CASE Look(p) \/ ContinueToCreate(p)
    BY <2>1 DEF Look, ContinueToCreate
  <2>2. CASE InitializeFails(p) \/ Export(p) \/ Answer(p)
    <3>1. my' = my \/ \E s \in {"done", "store", "display"} : Close(p, s)
      BY <2>2, Zenon DEF InitializeFails, Export, Answer
    <3> QED
      BY <3>1, CloseTypes
  <2>11. CASE LookUnderLock(p)
    <3>1. [my[p] EXCEPT !.copy = walletFile] \in Work
      BY CopyTypes
    <3>2. my' = [my EXCEPT ![p].copy = walletFile] \/ Close(p, "done")
      BY <2>11, Zenon DEF LookUnderLock
    <3> QED
      BY <3>1, <3>2, CloseTypes
  <2>3. CASE Abort(p) \/ StoreUnlockKey(p)
    <3>1. GiveUp(p) \/ Close(p, "done")
      BY <2>3, Zenon DEF Abort, StoreUnlockKey
    <3> QED
      BY <3>1, GiveUpTypes, CloseTypes
  <2>4. CASE ShowWords(p)
    BY <2>4, ScreenTypes DEF ShowWords
  <2>5. CASE HideWords(p)
    <3>1. GiveUp(p) \/ my' = [my EXCEPT ![p].screen = FALSE]
      BY <2>5 DEF HideWords
    <3>2. [my EXCEPT ![p].screen = FALSE] \in [Procs -> Work]
      BY ScreenTypes, Zenon
    <3> QED
      BY <3>1, <3>2, GiveUpTypes
  <2>6. CASE ConfirmBackup(p)
    <3>1. walletFile' \in Wallets /\ my' = [Reread(p, walletFile') EXCEPT ![p].then = "store"]
      BY <2>6, ConfirmBackupTypes
    <3>2. Reread(p, walletFile') \in [Procs -> Work]
      BY <3>1, RereadTypes
    <3> QED
      BY <3>1, <3>2, FieldTypes
  <2>7. ASSUME NEW typed \in Passphrases, TypePassphrase(p, typed) PROVE my' \in [Procs -> Work]
    <3>0. walletFile \in Wallets \union {NoWallet}
      OBVIOUS
    <3>1. my[p] \in Work /\ my[p].tries \in 0..MaxTries
      BY WorkIsARecord
    <3>2. my[p].tries + 1 \in 0..MaxTries
      BY <2>7, <3>1 DEF TypePassphrase
    <3>3. [my[p] EXCEPT !.tries = my[p].tries + 1, !.pass = typed, !.copy = walletFile] \in Work
      BY <3>1, <3>2, <3>0, AttemptTypes, Zenon
    <3> QED
      BY <2>7, <3>3 DEF TypePassphrase
  <2>8. ASSUME NEW typed \in Passphrases, NewPassphrase(p, typed) PROVE my' \in [Procs -> Work]
    BY <2>8, FieldTypes DEF NewPassphrase
  <2>9. ASSUME NEW typed \in Passphrases, NEW seed \in Seeds, TypeWords(p, typed, seed)
        PROVE  my' \in [Procs -> Work]
    <3>0. my[p] \in Work
      OBVIOUS
    <3>1. [my[p] EXCEPT !.pass = typed, !.words = seed] \in Work
      BY TypedWordsTypes, <3>0, Zenon
    <3> QED
      BY <2>9, <3>1 DEF TypeWords
  <2>10. ASSUME NEW seed \in Seeds, NEW then \in {"store", "done"}, Initialize(p, seed, then)
         PROVE  my' \in [Procs -> Work]
    <3>1. walletFile' \in Wallets /\ my' = [Reread(p, walletFile') EXCEPT ![p].then = then]
      BY <2>10, InitializeTypes
    <3>2. Reread(p, walletFile') \in [Procs -> Work]
      BY <3>1, RereadTypes
    <3> QED
      BY <3>1, <3>2, FieldTypes
  <2> QED
    BY <1>3, <2>1, <2>2, <2>3, <2>4, <2>5, <2>6, <2>7, <2>8, <2>9, <2>10, <2>11, Zenon DEF CeremonyStep
<1>4. ASSUME NEW p \in Procs, NEW pid \in Pids, NEW c \in Commands, Launch(p, pid, c)
      PROVE  my' \in [Procs -> Work]
  BY <1>4 DEF Launch
<1>5. ASSUME NEW p \in Procs, End(p) PROVE my' \in [Procs -> Work]
  BY <1>5, FreshTypes DEF End, Forget
<1>6. CASE Elsewhere
  BY <1>6 DEF Elsewhere, life
<1>7. CASE Restart
  BY <1>7, FreshTypes DEF Restart, Forget
<1>8. CASE UNCHANGED lifeVars
  BY <1>8 DEF lifeVars, life
<1> QED
  BY <1>1, <1>2, <1>3, <1>4, <1>5, <1>6, <1>7, <1>8, Zenon DEF LifeNext
\* Where a flow has no lock, and where it works with one.
Unlocked == {"listen", "key", "inspect", "newpass", "typepass", "warn", "store", "display", "done"}
Working == Open \union {"decrypt", "make", "derive"}

\* A flow that reads the file, prompts or stores the unlock key is at no point
\* of the lock, and one that works with the wallet holds it.
Placed ==
  \A p \in Procs :
    /\ flow[p] \in Unlocked <=> pc[p] = "idle"
    /\ flow[p] \in Working => pc[p] = "held"

\* The steps of the ceremonies, and those only they go on to from a wallet that
\* is closed.
CeremonySteps == {"inspect", "newpass", "typepass", "warn", "make", "derive", "export", "ritual", "answer",
                  "confirm", "store", "display"}

\* A server makes, exports and confirms nothing: it goes for the lock with a
\* copy of the file.
Roles ==
  \A p \in Procs :
    /\ flow[p] \in CeremonySteps => cmd[p] \in Ceremonies
    /\ flow[p] = "closing" /\ my[p].then \in CeremonySteps => cmd[p] \in Ceremonies
    /\ flow[p] \in {"key", "lock"} /\ my[p].copy = NoWallet => cmd[p] \in Ceremonies

\* Every step keeps flows and lock together.
LEMMA FlowsKeepTheirPlace ==
  ASSUME LifeTypeOK, Placed, Roles, [LifeNext]_lifeVars
  PROVE  /\ flow' \in [Procs -> Steps]
         /\ \A p \in Procs : pc'[p] = "gone" <=> flow'[p] = "none"
         /\ \A p \in Procs : pc'[p] \in Acquiring <=> flow'[p] = "lock"
         /\ Placed'
<1> DEFINE Goal == /\ flow' \in [Procs -> Steps]
                   /\ \A p \in Procs : pc'[p] = "gone" <=> flow'[p] = "none"
                   /\ \A p \in Procs : pc'[p] \in Acquiring <=> flow'[p] = "lock"
                   /\ Placed'
<1>0. /\ flow \in [Procs -> Steps] /\ pc \in [Procs -> Places] /\ my \in [Procs -> Work]
      /\ \A p \in Procs : pc[p] = "gone" <=> flow[p] = "none"
      /\ \A p \in Procs : pc[p] \in Acquiring <=> flow[p] = "lock"
  BY DEF LifeTypeOK, TypeOK
<1> USE <1>0 DEF Placed, Unlocked, Working, Open, Opening, Steps, Places, Acquiring, Holding, To, Goto
<1>1. ASSUME NEW p \in Procs, ServerStep(p) PROVE Goal
  BY <1>1 DEF ServerStep, OpenForTools, Resume, NextAddress, Shutdown, Close, vars
<1>2. ASSUME NEW p \in Procs, WalletStep(p) PROVE Goal
  <2>1. CASE ResolvePassphrase(p)
    BY <2>1 DEF ResolvePassphrase, GiveUp, Acquire, vars
  <2>2. CASE LockStep(p)
    BY <2>2 DEF LockStep, GiveUp, Create, Write, WriteFails, Inspect, Unlink
  <2>3. CASE Decrypt(p)
    BY <2>3 DEF Decrypt, Close, vars
  <2>4. CASE CloseStep(p)
    <3>1. my[p].then \in {"listen", "store", "display", "typepass", "done"}
      BY WorkIsARecord
    <3> QED
      BY <2>4, <3>1 DEF CloseStep, Release, ReleaseUnlink
  <2> QED
    BY <1>2, <2>1, <2>2, <2>3, <2>4 DEF WalletStep
<1>3. ASSUME NEW p \in Procs, CeremonyStep(p) PROVE Goal
  <2>1. CASE Look(p)
    <3>1. flow'[p] \in {"newpass", "done", "typepass"} /\ flow' = [flow EXCEPT ![p] = flow'[p]] /\ pc' = pc
      BY <2>1 DEF Look, vars, Roles, CeremonySteps, Ceremonies
    <3> QED
      BY <2>1, <3>1 DEF Look
  <2>2. CASE ContinueToCreate(p)
    BY <2>2 DEF ContinueToCreate, Acquire
  <2>3. CASE LookUnderLock(p) \/ InitializeFails(p) \/ Export(p) \/ Answer(p)
    BY <2>3 DEF LookUnderLock, InitializeFails, Export, Answer, Close, vars
  <2>4. CASE Abort(p) \/ StoreUnlockKey(p)
    BY <2>4 DEF Abort, StoreUnlockKey, Close, GiveUp, vars
  <2>5. CASE ShowWords(p) \/ HideWords(p)
    BY <2>5 DEF ShowWords, HideWords, GiveUp, vars
  <2>6. CASE ConfirmBackup(p)
    BY <2>6 DEF ConfirmBackup, vars
  <2>7. ASSUME NEW typed \in Passphrases, TypePassphrase(p, typed) \/ NewPassphrase(p, typed) PROVE Goal
    BY <2>7 DEF TypePassphrase, NewPassphrase, vars
  <2>8. ASSUME NEW typed \in Passphrases, NEW seed \in Seeds, TypeWords(p, typed, seed) PROVE Goal
    BY <2>8 DEF TypeWords, Acquire
  <2>9. ASSUME NEW seed \in Seeds, NEW then \in {"store", "done"}, Initialize(p, seed, then) PROVE Goal
    BY <2>9 DEF Initialize, vars
  <2> QED
    BY <1>3, <2>1, <2>2, <2>3, <2>4, <2>5, <2>6, <2>7, <2>8, <2>9, Zenon DEF CeremonyStep
<1>4. ASSUME NEW p \in Procs, NEW pid \in Pids, NEW c \in Commands, Launch(p, pid, c) PROVE Goal
  BY <1>4 DEF Launch, Spawn
<1>5. ASSUME NEW p \in Procs, End(p) PROVE Goal
  BY <1>5 DEF End, Die, Forget
<1>6. CASE Elsewhere
  BY <1>6 DEF Elsewhere, life, ForeignStarts, ForeignEnds
<1>7. CASE Restart
  BY <1>7 DEF Restart, Reboot, Forget
<1>8. CASE UNCHANGED lifeVars
  BY <1>8 DEF lifeVars, life, vars
<1> QED
  BY <1>1, <1>2, <1>3, <1>4, <1>5, <1>6, <1>7, <1>8, Zenon DEF LifeNext
\* The steps that write wallet.json.
Writes(p) ==
  \/ NextAddress(p)
  \/ ConfirmBackup(p)
  \/ \E seed \in Seeds, then \in {"store", "done"} : Initialize(p, seed, then)

\* What reading the file back changes.
LEMMA RereadFields ==
  ASSUME my \in [Procs -> Work], NEW p \in Procs, NEW w \in Wallets, NEW q \in Procs
  PROVE  /\ Reread(p, w)[q].copy = IF q = p THEN w ELSE my[q].copy
         /\ Reread(p, w)[q].pass = my[q].pass
         /\ Reread(p, w)[q].words = my[q].words
         /\ Reread(p, w)[q].screen = my[q].screen
         /\ Reread(p, w)[q].then = my[q].then
         /\ ~Reread(p, w)[q].late => ~my[q].late /\ (q # p => flow[q] \notin Opening)
<1>1. my[q] \in Work /\ my[p] \in Work
  OBVIOUS
<1> QED
  BY <1>1, WorkIsARecord DEF Reread, Work

\* The writer works with what it wrote, and everyone else with what it had.
LEMMA WriteFields ==
  ASSUME LifeTypeOK, FileIsThere, NEW p \in Procs, Writes(p)
  PROVE  /\ walletFile' \in Wallets
         /\ \A q \in Procs :
              /\ my'[q].copy = IF q = p THEN walletFile' ELSE my[q].copy
              /\ my'[q].pass = my[q].pass
              /\ my'[q].words = my[q].words
              /\ my'[q].screen = my[q].screen
              /\ q # p => my'[q].then = my[q].then
              /\ ~my'[q].late => ~my[q].late /\ (q # p => flow[q] \notin Opening)
         /\ flow[p] \in {"serving", "confirm", "derive"}
         /\ UNCHANGED <<vars, cmd, paper>>
<1>1. /\ walletFile' \in Wallets
      /\ \/ my' = Reread(p, walletFile')
         \/ \E then \in {"store", "done"} : my' = [Reread(p, walletFile') EXCEPT ![p].then = then]
  BY NextAddressTypes, ConfirmBackupTypes, InitializeTypes DEF Writes
<1>2. my \in [Procs -> Work] /\ Reread(p, walletFile') \in [Procs -> Work]
  BY <1>1, RereadTypes DEF LifeTypeOK
<1>3. flow[p] \in {"serving", "confirm", "derive"} /\ UNCHANGED <<vars, cmd, paper>>
  BY DEF Writes, NextAddress, ConfirmBackup, Initialize
<1>4. ASSUME NEW q \in Procs
      PROVE  /\ my'[q].copy = IF q = p THEN walletFile' ELSE my[q].copy
             /\ my'[q].pass = my[q].pass
             /\ my'[q].words = my[q].words
             /\ my'[q].screen = my[q].screen
             /\ q # p => my'[q].then = my[q].then
             /\ ~my'[q].late => ~my[q].late /\ (q # p => flow[q] \notin Opening)
  <2>1. CASE my' = Reread(p, walletFile')
    BY <1>1, <1>2, <2>1, RereadFields
  <2>2. ASSUME NEW then \in {"store", "done"}, my' = [Reread(p, walletFile') EXCEPT ![p].then = then]
        PROVE  /\ my'[q].copy = IF q = p THEN walletFile' ELSE my[q].copy
               /\ my'[q].pass = my[q].pass
               /\ my'[q].words = my[q].words
               /\ my'[q].screen = my[q].screen
               /\ q # p => my'[q].then = my[q].then
               /\ ~my'[q].late => ~my[q].late /\ (q # p => flow[q] \notin Opening)
    <3>1. /\ my'[q].copy = Reread(p, walletFile')[q].copy
          /\ my'[q].pass = Reread(p, walletFile')[q].pass
          /\ my'[q].words = Reread(p, walletFile')[q].words
          /\ my'[q].screen = Reread(p, walletFile')[q].screen
          /\ my'[q].late = Reread(p, walletFile')[q].late
          /\ q # p => my'[q].then = Reread(p, walletFile')[q].then
      BY <1>2, <2>2 DEF Work
    <3> QED
      BY <1>1, <1>2, <3>1, RereadFields
  <2> QED
    BY <1>1, <2>1, <2>2
<1> QED
  BY <1>1, <1>3, <1>4

\* The file and the copies of it are there when a step needs them.
LEMMA FileStays ==
  ASSUME LifeTypeOK, FileIsThere, Placed, Roles, [LifeNext]_lifeVars
  PROVE  FileIsThere'
<1>0. /\ flow \in [Procs -> Steps] /\ my \in [Procs -> Work]
      /\ walletFile \in Wallets \union {NoWallet}
      /\ \A p \in Procs : pc[p] \in Acquiring <=> flow[p] = "lock"
  BY DEF LifeTypeOK, TypeOK
<1>1. \A w \in Wallets : w # NoWallet
  BY DEF Wallets, NoWallet
<1> USE DEF FileIsThere, Open, Opening, To
<1>2. ASSUME NEW p \in Procs, Writes(p) PROVE FileIsThere'
  <2>1. flow' = flow \/ flow' = [flow EXCEPT ![p] = "closing"] \/ flow' = [flow EXCEPT ![p] = "ritual"]
    BY <1>2 DEF Writes, NextAddress, ConfirmBackup, Initialize
  <2>2. my[p].copy # NoWallet => walletFile # NoWallet
    OBVIOUS
  <2> QED
    BY <1>0, <1>1, <1>2, <2>1, WriteFields
<1>3. ASSUME NEW p \in Procs, ServerStep(p) PROVE FileIsThere'
  <2>1. CASE OpenForTools(p)
    <3>1. my'[p].copy = walletFile /\ \A q \in Procs : q # p => my'[q] = my[q]
      BY <1>0, <2>1 DEF OpenForTools, Work
    <3> QED
      BY <1>0, <2>1, <3>1 DEF OpenForTools, disk
  <2>2. CASE Resume(p)
    BY <1>0, <2>2 DEF Resume, disk
  <2>3. CASE Shutdown(p)
    BY <1>0, <2>3 DEF Shutdown, Close, Work, disk
  <2> QED
    BY <1>2, <1>3, <2>1, <2>2, <2>3 DEF ServerStep, Writes
<1>4. ASSUME NEW p \in Procs, WalletStep(p) PROVE FileIsThere'
  <2>1. CASE ResolvePassphrase(p)
    <3>1. CASE GiveUp(p)
      BY <1>0, <2>1, <3>1 DEF ResolvePassphrase, GiveUp, Fresh, disk
    <3>2. CASE ~GiveUp(p)
      <4>1. PICK key : key # None /\ flow' = [flow EXCEPT ![p] = "lock"] /\ my' = [my EXCEPT ![p].pass = key]
        BY <2>1, <3>2 DEF ResolvePassphrase
      <4>2. /\ my'[p].copy = my[p].copy /\ my'[p].pass = key /\ \A q \in Procs : q # p => my'[q] = my[q]
            /\ UNCHANGED walletFile
        BY <1>0, <2>1, <4>1 DEF ResolvePassphrase, disk, Work
      <4> QED
        BY <1>0, <4>1, <4>2
    <3> QED
      BY <3>1, <3>2
  <2>2. CASE LockStep(p)
    <3>1. CASE my' = my
      BY <1>0, <2>2, <3>1 DEF LockStep, disk, GiveUp
    <3>2. CASE my' # my
      BY <1>0, <2>2, <3>2 DEF LockStep, disk, GiveUp, Fresh
    <3> QED
      BY <3>1, <3>2
  <2>3. CASE Decrypt(p)
    BY <1>0, <2>3 DEF Decrypt, Close, Work, disk
  <2>4. CASE CloseStep(p)
    <3>0. /\ Fresh.copy = NoWallet
          /\ \A c : [Fresh EXCEPT !.pass = my[p].pass, !.tries = my[p].tries, !.copy = c].copy = c
      BY DEF Fresh
    <3>1. \/ my' = my /\ flow' = flow
          \/ /\ my'[p].copy = (IF my[p].then = "store" THEN my[p].copy ELSE NoWallet)
             /\ flow[p] = "closing" /\ flow'[p] = my[p].then
      <4>1. CASE pc'[p] # "idle"
        BY <2>4, <4>1 DEF CloseStep
      <4>2. CASE pc'[p] = "idle"
        <5>1. flow'[p] = my[p].then /\ flow[p] = "closing"
          BY <1>0, <2>4, <4>2 DEF CloseStep
        <5>2. CASE my[p].then \in {"done", "listen"}
          <6>1. my'[p] = Fresh
            BY <1>0, <2>4, <4>2, <5>2 DEF CloseStep
          <6> QED
            BY <3>0, <5>1, <5>2, <6>1
        <5>3. CASE my[p].then \notin {"done", "listen"}
          <6> DEFINE c == IF my[p].then = "store" THEN my[p].copy ELSE NoWallet
          <6>1. my'[p] = [Fresh EXCEPT !.pass = my[p].pass, !.tries = my[p].tries, !.copy = c]
            BY <1>0, <2>4, <4>2, <5>3 DEF CloseStep
          <6> HIDE DEF c
          <6>2. my'[p].copy = c
            BY <3>0, <6>1
          <6> QED
            BY <5>1, <6>2 DEF c
        <5> QED
          BY <5>2, <5>3
      <4> QED
        BY <4>1, <4>2
    <3>2. \A q \in Procs : q # p => my'[q] = my[q] /\ flow'[q] = flow[q]
      BY <1>0, <2>4 DEF CloseStep
    <3>3. my[p].then \in {"listen", "store", "display", "typepass", "done"}
      BY <1>0, WorkIsARecord
    <3> QED
      BY <1>0, <2>4, <3>1, <3>2, <3>3 DEF CloseStep, disk
  <2> QED
    BY <1>4, <2>1, <2>2, <2>3, <2>4 DEF WalletStep
<1>5. ASSUME NEW p \in Procs, CeremonyStep(p) PROVE FileIsThere'
  <2>1. CASE Look(p)
    <3>1. /\ flow'[p] \in {"newpass", "done", "typepass"} /\ flow' = [flow EXCEPT ![p] = flow'[p]]
          /\ my' = my /\ walletFile' = walletFile
      BY <1>0, <2>1 DEF Look, Roles, CeremonySteps, Ceremonies, disk
    <3> QED
      BY <1>0, <3>1
  <2>2. CASE ContinueToCreate(p)
    BY <1>0, <2>2 DEF ContinueToCreate, disk
  <2>3. CASE LookUnderLock(p) \/ InitializeFails(p) \/ Export(p) \/ Answer(p)
    BY <1>0, <2>3 DEF LookUnderLock, InitializeFails, Export, Answer, Close, Work, disk
  <2>4. CASE Abort(p) \/ StoreUnlockKey(p)
    BY <1>0, <2>4 DEF Abort, StoreUnlockKey, Close, GiveUp, Fresh, Work, disk
  <2>5. CASE ShowWords(p) \/ HideWords(p)
    <3>1. /\ UNCHANGED walletFile /\ my'[p].copy \in {my[p].copy, NoWallet}
          /\ \A q \in Procs : q # p => my'[q] = my[q] /\ flow'[q] = flow[q]
          /\ \/ flow'[p] \in {"listen", "done"}
             \/ flow'[p] \in {flow[p], "answer"} /\ flow[p] \in {"ritual", "display"} /\ my'[p].copy = my[p].copy
                /\ (flow[p] = "display" => flow'[p] = "display")
      BY <1>0, <2>5 DEF ShowWords, HideWords, GiveUp, Fresh, Work, disk
    <3> QED
      BY <1>0, <3>1
  <2>6. ASSUME NEW typed \in Passphrases, TypePassphrase(p, typed) PROVE FileIsThere'
    BY <1>0, <2>6 DEF TypePassphrase, Work, disk
  <2>7. ASSUME NEW typed \in Passphrases, NewPassphrase(p, typed) PROVE FileIsThere'
    BY <1>0, <2>7, NoneAssumption DEF NewPassphrase, Work, disk
  <2>8. ASSUME NEW typed \in Passphrases, NEW seed \in Seeds, TypeWords(p, typed, seed) PROVE FileIsThere'
    BY <1>0, <2>8, NoneAssumption DEF TypeWords, Work, disk
  <2> QED
    BY <1>2, <1>5, <2>1, <2>2, <2>3, <2>4, <2>5, <2>6, <2>7, <2>8, Zenon DEF CeremonyStep, Writes
<1>6. ASSUME NEW p \in Procs, NEW pid \in Pids, NEW c \in Commands, Launch(p, pid, c) PROVE FileIsThere'
  BY <1>0, <1>6 DEF Launch, disk
<1>7. ASSUME NEW p \in Procs, End(p) PROVE FileIsThere'
  BY <1>0, <1>7 DEF End, Forget, Fresh, disk
<1>8. CASE Elsewhere
  BY <1>8 DEF Elsewhere, life, disk
<1>9. CASE Restart
  BY <1>9 DEF Restart, Forget, Fresh, disk
<1>10. CASE UNCHANGED lifeVars
  BY <1>10 DEF lifeVars, life, disk
<1> QED
  BY <1>3, <1>4, <1>5, <1>6, <1>7, <1>8, <1>9, <1>10, Zenon DEF LifeNext
LEMMA RolesStay ==
  ASSUME LifeTypeOK, FileIsThere, Placed, Roles, [LifeNext]_lifeVars
  PROVE  Roles'
<1>0. /\ flow \in [Procs -> Steps] /\ my \in [Procs -> Work] /\ cmd \in [Procs -> Commands]
      /\ \A p \in Procs : my[p].then \in {"listen", "store", "display", "typepass", "done"}
  BY WorkIsARecord DEF LifeTypeOK
<1> USE DEF Roles, CeremonySteps, To
<1>2. ASSUME NEW p \in Procs, Writes(p) PROVE Roles'
  <2>1. /\ \/ flow' = flow /\ flow[p] = "serving"
           \/ flow' = [flow EXCEPT ![p] = "closing"] /\ flow[p] \in CeremonySteps
           \/ flow' = [flow EXCEPT ![p] = "ritual"] /\ flow[p] \in CeremonySteps
        /\ cmd' = cmd
    BY <1>2 DEF Writes, NextAddress, ConfirmBackup, Initialize
  <2>2. \A q \in Procs : (q # p => my'[q].then = my[q].then /\ my'[q].copy = my[q].copy)
    BY <1>2, WriteFields
  <2> QED
    BY <1>0, <2>1, <2>2
<1>3. ASSUME NEW p \in Procs, ServerStep(p) PROVE Roles'
  <2>1. CASE OpenForTools(p)
    <3>1. my'[p].copy # NoWallet /\ \A q \in Procs : q # p => my'[q] = my[q]
      BY <1>0, <2>1 DEF OpenForTools, Work
    <3> QED
      BY <1>0, <2>1, <3>1 DEF OpenForTools
  <2>2. CASE Resume(p)
    BY <1>0, <2>2 DEF Resume
  <2>3. CASE Shutdown(p)
    BY <1>0, <2>3 DEF Shutdown, Close, Work
  <2> QED
    BY <1>2, <1>3, <2>1, <2>2, <2>3 DEF ServerStep, Writes
<1>4. ASSUME NEW p \in Procs, WalletStep(p) PROVE Roles'
  <2>1. CASE ResolvePassphrase(p)
    <3>1. CASE GiveUp(p)
      BY <1>0, <2>1, <3>1 DEF ResolvePassphrase, GiveUp, Fresh, Commands
    <3>2. CASE ~GiveUp(p)
      <4>1. /\ \A q \in Procs : my'[q].copy = my[q].copy /\ (q # p => my'[q] = my[q])
            /\ flow' = [flow EXCEPT ![p] = "lock"] /\ flow[p] = "key" /\ cmd' = cmd
        BY <1>0, <2>1, <3>2 DEF ResolvePassphrase, Work
      <4> QED
        BY <1>0, <4>1
    <3> QED
      BY <3>1, <3>2
  <2>2. CASE LockStep(p)
    <3>1. CASE GiveUp(p)
      BY <1>0, <2>2, <3>1 DEF LockStep, GiveUp, Fresh, Commands
    <3>2. CASE ~GiveUp(p)
      BY <1>0, <2>2, <3>2 DEF LockStep
    <3> QED
      BY <3>1, <3>2
  <2>3. CASE Decrypt(p)
    BY <1>0, <2>3 DEF Decrypt, Close, Work, Commands
  <2>4. CASE CloseStep(p)
    <3>1. (my' = my /\ flow' = flow) \/ (flow'[p] = my[p].then /\ flow[p] = "closing")
      BY <1>0, <2>4 DEF CloseStep
    <3>2. \A q \in Procs : q # p => my'[q] = my[q] /\ flow'[q] = flow[q]
      BY <1>0, <2>4 DEF CloseStep
    <3> QED
      BY <1>0, <2>4, <3>1, <3>2 DEF CloseStep
  <2> QED
    BY <1>4, <2>1, <2>2, <2>3, <2>4 DEF WalletStep
<1>5. ASSUME NEW p \in Procs, CeremonyStep(p) PROVE Roles'
  <2>1. CASE Look(p)
    <3>1. /\ flow'[p] \in {"newpass", "done", "typepass"} /\ flow' = [flow EXCEPT ![p] = flow'[p]]
          /\ my' = my /\ cmd' = cmd /\ flow[p] = "inspect"
      BY <1>0, <2>1 DEF Look, Ceremonies
    <3> QED
      BY <1>0, <3>1
  <2>2. CASE ContinueToCreate(p)
    BY <1>0, <2>2 DEF ContinueToCreate
  <2>3. CASE LookUnderLock(p) \/ InitializeFails(p) \/ Export(p) \/ Answer(p)
    BY <1>0, <2>3 DEF LookUnderLock, InitializeFails, Export, Answer, Close, Work
  <2>4. CASE Abort(p) \/ StoreUnlockKey(p)
    BY <1>0, <2>4 DEF Abort, StoreUnlockKey, Close, GiveUp, Fresh, Work, Commands
  <2>5. CASE ShowWords(p) \/ HideWords(p)
    <3>1. CASE ShowWords(p)
      BY <1>0, <3>1 DEF ShowWords, Work
    <3>2. CASE HideWords(p) /\ flow[p] = "ritual"
      BY <1>0, <3>2 DEF HideWords, Work
    <3>3. CASE HideWords(p) /\ flow[p] = "display"
      BY <1>0, <3>3 DEF HideWords, GiveUp, Fresh, Work, Commands
    <3> QED
      BY <2>5, <3>1, <3>2, <3>3 DEF HideWords
  <2>6. ASSUME NEW typed \in Passphrases, TypePassphrase(p, typed) PROVE Roles'
    BY <1>0, <2>6 DEF TypePassphrase, Work
  <2>7. ASSUME NEW typed \in Passphrases, NewPassphrase(p, typed) PROVE Roles'
    BY <1>0, <2>7 DEF NewPassphrase, Work
  <2>8. ASSUME NEW typed \in Passphrases, NEW seed \in Seeds, TypeWords(p, typed, seed) PROVE Roles'
    BY <1>0, <2>8 DEF TypeWords, Work
  <2> QED
    BY <1>2, <1>5, <2>1, <2>2, <2>3, <2>4, <2>5, <2>6, <2>7, <2>8, Zenon DEF CeremonyStep, Writes
<1>6. ASSUME NEW p \in Procs, NEW pid \in Pids, NEW c \in Commands, Launch(p, pid, c) PROVE Roles'
  <2>1. /\ flow' = [flow EXCEPT ![p] = IF c = "serve" THEN "listen" ELSE "inspect"]
        /\ cmd' = [cmd EXCEPT ![p] = c] /\ my' = my /\ flow[p] = "none"
    BY <1>6 DEF Launch, Spawn, LifeTypeOK
  <2> QED
    BY <1>0, <2>1 DEF Commands
<1>7. ASSUME NEW p \in Procs, End(p) PROVE Roles'
  BY <1>0, <1>7 DEF End, Forget
<1>8. CASE Elsewhere
  BY <1>8 DEF Elsewhere, life
<1>9. CASE Restart
  BY <1>9 DEF Restart, Forget
<1>10. CASE UNCHANGED lifeVars
  BY <1>10 DEF lifeVars, life
<1> QED
  BY <1>3, <1>4, <1>5, <1>6, <1>7, <1>8, <1>9, <1>10, Zenon DEF LifeNext

\* What is on disk, on paper and in the credential store stays well-formed.
StoresTyped ==
  /\ walletFile \in Wallets \union {NoWallet}
  /\ salts \in 0..MaxSalt
  /\ cmd \in [Procs -> Commands]
  /\ paper \subseteq Seeds
  /\ {keychain, keyFile} \subseteq Passphrases \union {None}
  /\ note \in {"nowhere", "keychain", "file"}

LEMMA StoresStayTyped ==
  ASSUME LifeTypeOK, FileIsThere, Roles, [LifeNext]_lifeVars
  PROVE  StoresTyped'
<1>0. StoresTyped /\ my \in [Procs -> Work]
  BY DEF LifeTypeOK, StoresTyped
<1> USE DEF StoresTyped, disk, unlock
<1>1. ASSUME NEW p \in Procs, Writes(p) PROVE StoresTyped'
  <2>1. walletFile' \in Wallets /\ UNCHANGED <<cmd, paper>>
    BY <1>1, WriteFields
  <2>2. /\ salts' = salts \/ (salts < MaxSalt /\ salts' = salts + 1)
        /\ UNCHANGED <<keychain, keyFile>>
    BY <1>1, Zenon DEF Writes, NextAddress, ConfirmBackup, Initialize
  <2>3. note' = note \/ note' = "nowhere"
    BY <1>1, Zenon DEF Writes, NextAddress, ConfirmBackup, Initialize
  <2>4. salts' \in 0..MaxSalt
    BY <1>0, <2>2
  <2>5. {keychain', keyFile'} \subseteq Passphrases \union {None} /\ note' \in {"nowhere", "keychain", "file"}
    BY <1>0, <2>2, <2>3
  <2> QED
    BY <1>0, <2>1, <2>4, <2>5
<1>2. ASSUME NEW p \in Procs, ServerStep(p) \/ WalletStep(p) PROVE StoresTyped'
  <2>1. CASE NextAddress(p)
    BY <1>1, <2>1 DEF Writes
  <2>2. CASE ~NextAddress(p)
    <3>1. UNCHANGED <<disk, cmd, paper, unlock>>
      BY <1>2, <2>2, Zenon DEF ServerStep, OpenForTools, Resume, Shutdown, WalletStep, ResolvePassphrase,
         LockStep, Decrypt, CloseStep
    <3> QED
      BY <1>0, <3>1
  <2> QED
    BY <2>1, <2>2
<1>3. ASSUME NEW p \in Procs, CeremonyStep(p) PROVE StoresTyped'
  <2>1. CASE UNCHANGED <<disk, cmd, paper, unlock>>
    BY <1>0, <2>1
  <2>2. CASE StoreUnlockKey(p)
    <3>1. my[p].pass \in Passphrases \union {None}
      BY <1>0, WorkIsARecord
    <3>2. {keychain', keyFile'} \subseteq Passphrases \union {None}
      BY <1>0, <2>2, <3>1 DEF StoreUnlockKey
    <3>3. UNCHANGED <<disk, cmd, paper>> /\ note' \in {"nowhere", "keychain", "file"}
      BY <2>2 DEF StoreUnlockKey, Says
    <3> QED
      BY <1>0, <3>2, <3>3
  <2>3. CASE ShowWords(p)
    <3>1. walletFile # NoWallet
      BY <2>3, WorkIsARecord DEF ShowWords, FileIsThere, Open
    <3>2. walletFile.seed \in Seeds
      BY <1>0, <3>1 DEF Wallets
    <3>3. paper' \subseteq Seeds /\ UNCHANGED <<disk, cmd, unlock>>
      BY <1>0, <2>3, <3>2 DEF ShowWords
    <3> QED
      BY <1>0, <3>3
  <2>4. ASSUME NEW typed \in Passphrases, NEW seed \in Seeds, TypeWords(p, typed, seed) PROVE StoresTyped'
    BY <1>0, <2>4 DEF TypeWords
  <2>5. ASSUME ~\E seed \in Seeds, then \in {"store", "done"} : Initialize(p, seed, then), ~ConfirmBackup(p), ~StoreUnlockKey(p), ~ShowWords(p),
               ~\E typed \in Passphrases, seed \in Seeds : TypeWords(p, typed, seed)
        PROVE  UNCHANGED <<disk, cmd, paper, unlock>>
    BY <1>3, <2>5, Zenon DEF CeremonyStep, Look, ContinueToCreate, LookUnderLock, InitializeFails, Export, Abort,
       HideWords, Answer, TypePassphrase, NewPassphrase
  <2> QED
    BY <1>1, <2>1, <2>2, <2>3, <2>4, <2>5, Zenon DEF Writes
<1>4. ASSUME NEW p \in Procs, NEW pid \in Pids, NEW c \in Commands, Launch(p, pid, c) PROVE StoresTyped'
  BY <1>0, <1>4 DEF Launch
<1>5. ASSUME NEW p \in Procs, End(p) PROVE StoresTyped'
  BY <1>0, <1>5 DEF End, Forget, Commands
<1>6. CASE Elsewhere
  BY <1>0, <1>6 DEF Elsewhere, life
<1>7. CASE Restart
  BY <1>0, <1>7 DEF Restart, Forget, Commands
<1>8. CASE UNCHANGED lifeVars
  BY <1>0, <1>8 DEF lifeVars, life
<1> QED
  BY <1>2, <1>3, <1>4, <1>5, <1>6, <1>7, <1>8, Zenon DEF LifeNext
\* wallet.json changes in a write only.
LEMMA OnlyWritesWrite ==
  ASSUME [LifeNext]_lifeVars, \A p \in Procs : ~Writes(p)
  PROVE  UNCHANGED disk
<1> USE DEF Writes
<1>1. ASSUME NEW p \in Procs, ServerStep(p) \/ WalletStep(p) PROVE UNCHANGED disk
  BY <1>1, Zenon DEF ServerStep, OpenForTools, Resume, Shutdown, WalletStep, ResolvePassphrase, LockStep,
     Decrypt, CloseStep
<1>2. ASSUME NEW p \in Procs, CeremonyStep(p) PROVE UNCHANGED disk
  BY <1>2, Zenon DEF CeremonyStep, Look, ContinueToCreate, LookUnderLock, InitializeFails, Export, Abort, ShowWords,
     HideWords, Answer, StoreUnlockKey, TypePassphrase, NewPassphrase, TypeWords
<1>3. ASSUME NEW p \in Procs, NEW pid \in Pids, NEW c \in Commands, Launch(p, pid, c) PROVE UNCHANGED disk
  BY <1>3 DEF Launch
<1>4. ASSUME NEW p \in Procs, End(p) PROVE UNCHANGED disk
  BY <1>4 DEF End, Forget
<1>5. CASE Elsewhere \/ Restart
  BY <1>5 DEF Elsewhere, Restart, Forget, life
<1>6. CASE UNCHANGED lifeVars
  BY <1>6 DEF lifeVars, life
<1> QED
  BY <1>1, <1>2, <1>3, <1>4, <1>5, <1>6, Zenon DEF LifeNext

\* What the steps of a wallet's processes keep, whoever races whom.
LifeInv == LifeTypeOK /\ FileIsThere /\ Placed /\ Roles

LEMMA LifeInvInit == LifeInit => LifeInv
<1> SUFFICES ASSUME LifeInit PROVE LifeInv
  OBVIOUS
<1>0. Init
  BY DEF LifeInit
<1>1. TypeOK
  BY <1>0, TypesAtStart
<1>2. my \in [Procs -> Work] /\ flow \in [Procs -> Steps] /\ cmd \in [Procs -> Commands]
  BY FreshTypes DEF LifeInit, Steps, Commands
<1>3. \A p \in Procs : (pc[p] = "gone" <=> flow[p] = "none") /\ (pc[p] \in Acquiring <=> flow[p] = "lock")
  BY DEF LifeInit, Init, Acquiring
<1>4. walletFile \in Wallets \union {NoWallet} /\ salts \in 0..MaxSalt /\ paper \subseteq Seeds
  BY DEF LifeInit
<1>5. {keychain, keyFile} \subseteq Passphrases \union {None} /\ note \in {"nowhere", "keychain", "file"}
  BY DEF LifeInit
<1>6. LifeTypeOK
  BY <1>1, <1>2, <1>3, <1>4, <1>5 DEF LifeTypeOK
<1>7. FileIsThere /\ Placed /\ Roles
  BY DEF LifeInit, Init, Fresh, FileIsThere, Placed, Roles, Unlocked, Working, Open, CeremonySteps
<1> QED
  BY <1>6, <1>7 DEF LifeInv

LEMMA LifeInvStep == ASSUME LifeInv, TypeOK', [LifeNext]_lifeVars PROVE LifeInv'
<1> USE DEF LifeInv
<1>1. my' \in [Procs -> Work]
  BY WorkStaysTyped
<1>2. StoresTyped'
  BY StoresStayTyped
<1>3. LifeTypeOK'
  BY <1>1, <1>2, FlowsKeepTheirPlace DEF LifeTypeOK, StoresTyped
<1> QED
  BY <1>3, FlowsKeepTheirPlace, FileStays, RolesStay

LEMMA LifeInvariance == LifeSpec => []LifeInv
<1>1. LifeInv /\ TypeOK' /\ [LifeNext]_lifeVars => LifeInv'
  BY LifeInvStep
<1> QED
  BY <1>1, LifeInvInit, LockTypes, PTL DEF LifeSpec

\* Types: the stores, the flows and what each process works with; a dead
\* process does nothing, and a flow is at the lock when DirLock is.
THEOREM LifeTypeInvariance == LifeSpec => []LifeTypeOK
<1>1. LifeInv => LifeTypeOK
  BY DEF LifeInv
<1> QED
  BY <1>1, LifeInvariance, PTL

\* No error path, abort or prompt outside a wallet keeps the data directory,
\* for any number of processes, and whether or not acquisitions overlap.
THEOREM OnlyAWalletHolds == LifeSpec => []HeldOnlyByAWallet
<1>1. LifeInv => HeldOnlyByAWallet
  BY DEF LifeInv, LifeTypeOK, TypeOK, Placed, HeldOnlyByAWallet, Holding, Unlocked, Steps, Acquiring
<1> QED
  BY <1>1, LifeInvariance, PTL

\* Of two wallet processes that hold the directory, one is the other: OneHolder
\* of LifeSpec, as long as acquisitions do not overlap.
THEOREM WalletsHaveOneHolder == ASSUME ~Contention PROVE LifeSpec => []OneHolder
BY LifeImplementsDirLock, SingleHolder, PTL
-----------------------------------------------------------------------------
(* The seed.                                                               *)

\* Whoever makes, opens, works with or closes a wallet is alone with it.
LEMMA AloneWithTheFile ==
  ASSUME LifeInv, OneHolder, NEW p \in Procs, NEW q \in Procs,
         flow[p] \in Working \union {"closing"}, flow[q] \in Working \union {"closing"}
  PROVE  p = q
<1>1. ASSUME NEW r \in Procs, flow[r] \in Working \union {"closing"} PROVE pc[r] \in Holding
  BY <1>1 DEF LifeInv, LifeTypeOK, TypeOK, Placed, Working, Open, Unlocked, Places, Acquiring, Holding
<1> QED
  BY <1>1 DEF OneHolder

\* Every copy has the seed of the file, and what the check under the lock has
\* found is still so when the key is derived.
SameSeed == \A p \in Procs : my[p].copy # NoWallet => my[p].copy.seed = walletFile.seed
Checked == \A p \in Procs : flow[p] = "derive" => MayInitialize(p)
Sealed == SameSeed /\ Checked

\* A write keeps the seed as long as the check still counts.
LEMMA WriteKeepsTheSeed ==
  ASSUME LifeInv, Checked, NEW p \in Procs, Writes(p), walletFile # NoWallet
  PROVE  walletFile'.seed = walletFile.seed
<1>1. ASSUME NEW seed \in Seeds, NEW then \in {"store", "done"}, Initialize(p, seed, then)
      PROVE  walletFile'.seed = walletFile.seed
  <2>1. walletFile'.seed = seed /\ flow[p] = "derive" /\ (cmd[p] = "restore" => seed = my[p].words)
    BY <1>1, InitializeTypes DEF LifeInv, Initialize
  <2> QED
    BY <2>1 DEF Checked, MayInitialize
<1> QED
  BY <1>1, NextAddressTypes, ConfirmBackupTypes DEF Writes, LifeInv

\* Without a write, a copy stays, is dropped or is read from the file, and only
\* the check leads to the key derivation.
LEMMA OtherStepsRead ==
  ASSUME LifeInv, [LifeNext]_lifeVars, \A p \in Procs : ~Writes(p), NEW q \in Procs
  PROVE  /\ my'[q].copy \in {my[q].copy, NoWallet, walletFile}
         /\ flow'[q] = "derive" =>
              cmd'[q] = cmd[q] /\ my'[q].words = my[q].words /\ (flow[q] = "derive" \/ MayInitialize(q))
<1> DEFINE Goal == /\ my'[q].copy \in {my[q].copy, NoWallet, walletFile}
                   /\ flow'[q] = "derive" =>
                        cmd'[q] = cmd[q] /\ my'[q].words = my[q].words /\ (flow[q] = "derive" \/ MayInitialize(q))
<1>0. /\ flow \in [Procs -> Steps] /\ my \in [Procs -> Work] /\ cmd \in [Procs -> Commands]
      /\ \A p \in Procs : my[p].then \in {"listen", "store", "display", "typepass", "done"}
      /\ \A p \in Procs : pc[p] = "gone" <=> flow[p] = "none"
  BY WorkIsARecord DEF LifeInv, LifeTypeOK
<1> USE DEF To
<1>1. ASSUME NEW p \in Procs, ServerStep(p) PROVE Goal
  <2>1. CASE OpenForTools(p)
    BY <1>0, <2>1 DEF OpenForTools, Work
  <2>2. CASE Resume(p)
    BY <1>0, <2>2 DEF Resume
  <2>3. CASE Shutdown(p)
    BY <1>0, <2>3 DEF Shutdown, Close, Work
  <2> QED
    BY <1>1, <2>1, <2>2, <2>3 DEF ServerStep, Writes
<1>2. ASSUME NEW p \in Procs, WalletStep(p) PROVE Goal
  <2>1. CASE ResolvePassphrase(p)
    <3>1. CASE GiveUp(p)
      BY <1>0, <2>1, <3>1 DEF ResolvePassphrase, GiveUp, Fresh
    <3>2. CASE ~GiveUp(p)
      BY <1>0, <2>1, <3>2 DEF ResolvePassphrase, Work
    <3> QED
      BY <3>1, <3>2
  <2>2. CASE LockStep(p)
    <3>1. CASE GiveUp(p)
      BY <1>0, <2>2, <3>1 DEF LockStep, GiveUp, Fresh
    <3>2. CASE ~GiveUp(p)
      BY <1>0, <2>2, <3>2 DEF LockStep
    <3> QED
      BY <3>1, <3>2
  <2>3. CASE Decrypt(p)
    BY <1>0, <2>3 DEF Decrypt, Close, Work
  <2>4. CASE CloseStep(p)
    <3>0. /\ Fresh.copy = NoWallet
          /\ \A c : [Fresh EXCEPT !.pass = my[p].pass, !.tries = my[p].tries, !.copy = c].copy = c
      BY DEF Fresh
    <3>1. \/ my' = my /\ flow' = flow
          \/ /\ my'[p].copy = (IF my[p].then = "store" THEN my[p].copy ELSE NoWallet)
             /\ flow'[p] = my[p].then
      BY <1>0, <2>4, <3>0 DEF CloseStep
    <3>2. /\ \A r \in Procs : r # p => my'[r] = my[r] /\ flow'[r] = flow[r]
          /\ cmd' = cmd
      BY <1>0, <2>4 DEF CloseStep
    <3> QED
      BY <1>0, <3>1, <3>2
  <2> QED
    BY <1>2, <2>1, <2>2, <2>3, <2>4 DEF WalletStep
<1>3. ASSUME NEW p \in Procs, CeremonyStep(p) PROVE Goal
  <2>1. CASE Look(p)
    <3>1. flow'[p] \in {"newpass", "done", "typepass"} /\ flow' = [flow EXCEPT ![p] = flow'[p]]
          /\ UNCHANGED <<my, cmd>>
      BY <1>0, <2>1 DEF Look, LifeInv, Roles, CeremonySteps, Ceremonies
    <3> QED
      BY <1>0, <3>1
  <2>2. CASE ContinueToCreate(p)
    BY <1>0, <2>2 DEF ContinueToCreate
  <2>3. CASE LookUnderLock(p)
    <3>1. CASE Close(p, "done")
      BY <1>0, <2>3, <3>1 DEF LookUnderLock, Close, Work
    <3>2. CASE ~Close(p, "done")
      <4>1. /\ MayInitialize(p) /\ flow' = [flow EXCEPT ![p] = "derive"]
            /\ my' = [my EXCEPT ![p].copy = walletFile] /\ cmd' = cmd
        BY <2>3, <3>2 DEF LookUnderLock
      <4>2. my'[p].copy = walletFile /\ my'[p].words = my[p].words /\ \A r \in Procs : r # p => my'[r] = my[r]
        BY <1>0, <4>1 DEF Work
      <4> QED
        BY <1>0, <4>1, <4>2
    <3> QED
      BY <3>1, <3>2
  <2>4. CASE InitializeFails(p) \/ Export(p) \/ Answer(p)
    BY <1>0, <2>4 DEF InitializeFails, Export, Answer, Close, Work
  <2>5. CASE Abort(p) \/ StoreUnlockKey(p)
    BY <1>0, <2>5 DEF Abort, StoreUnlockKey, Close, GiveUp, Fresh, Work
  <2>6. CASE ShowWords(p) \/ HideWords(p)
    <3>1. CASE GiveUp(p)
      BY <1>0, <2>6, <3>1 DEF ShowWords, HideWords, GiveUp, Fresh
    <3>2. CASE ~GiveUp(p)
      <4>1. /\ \E b \in BOOLEAN : my' = [my EXCEPT ![p].screen = b]
            /\ flow' = flow \/ flow' = [flow EXCEPT ![p] = "answer"]
        BY <2>6, <3>2 DEF ShowWords, HideWords
      <4>2. my'[q].copy = my[q].copy /\ my'[q].words = my[q].words
        BY <1>0, <4>1 DEF Work
      <4>3. flow'[q] # "derive" \/ (flow'[q] = flow[q] /\ cmd' = cmd)
        BY <1>0, <2>6, <4>1 DEF ShowWords, HideWords
      <4> QED
        BY <4>2, <4>3
    <3> QED
      BY <3>1, <3>2
  <2>7. ASSUME NEW typed \in Passphrases, TypePassphrase(p, typed) PROVE Goal
    BY <1>0, <2>7 DEF TypePassphrase, Work
  <2>8. ASSUME NEW typed \in Passphrases, NewPassphrase(p, typed) PROVE Goal
    BY <1>0, <2>8 DEF NewPassphrase, Work
  <2>9. ASSUME NEW typed \in Passphrases, NEW seed \in Seeds, TypeWords(p, typed, seed) PROVE Goal
    BY <1>0, <2>9 DEF TypeWords, Work
  <2> QED
    BY <1>3, <2>1, <2>2, <2>3, <2>4, <2>5, <2>6, <2>7, <2>8, <2>9, Zenon DEF CeremonyStep, Writes
<1>4. ASSUME NEW p \in Procs, NEW pid \in Pids, NEW c \in Commands, Launch(p, pid, c) PROVE Goal
  BY <1>0, <1>4 DEF Launch, Spawn
<1>5. ASSUME NEW p \in Procs, End(p) PROVE Goal
  BY <1>0, <1>5 DEF End, Forget, Fresh
<1>6. CASE Elsewhere
  BY <1>6 DEF Elsewhere, life
<1>7. CASE Restart
  BY <1>7 DEF Restart, Forget, Fresh
<1>8. CASE UNCHANGED lifeVars
  BY <1>8 DEF lifeVars, life
<1> QED
  BY <1>1, <1>2, <1>3, <1>4, <1>5, <1>6, <1>7, <1>8, Zenon DEF LifeNext

\* A write finds nobody else between the check and the write: the writer holds
\* the directory, and so does whoever derives a key.
LEMMA SealedStep ==
  ASSUME LifeInv, OneHolder, Sealed, [LifeNext]_lifeVars
  PROVE  Sealed'
<1> USE DEF Sealed, SameSeed, Checked
<1>1. ASSUME NEW p \in Procs, Writes(p) PROVE Sealed'
  <2>1. /\ \A q \in Procs : my'[q].copy = IF q = p THEN walletFile' ELSE my[q].copy
        /\ flow[p] \in {"serving", "confirm", "derive"}
    BY <1>1, WriteFields DEF LifeInv
  <2>2. \A q \in Procs : my[q].copy # NoWallet => walletFile # NoWallet
    BY DEF LifeInv, FileIsThere
  <2>3. SameSeed'
    BY <1>1, <2>1, <2>2, WriteKeepsTheSeed
  <2>4. ASSUME NEW q \in Procs, flow'[q] = "derive" PROVE FALSE
    <3>1. q # p => flow'[q] = flow[q]
      BY <1>1 DEF Writes, NextAddress, ConfirmBackup, Initialize, To, LifeInv, LifeTypeOK
    <3>2. flow'[p] # "derive"
      BY <1>1 DEF Writes, NextAddress, ConfirmBackup, Initialize, To, LifeInv, LifeTypeOK
    <3> QED
      BY <2>1, <2>4, <3>1, <3>2, AloneWithTheFile DEF Working, Open
  <2> QED
    BY <2>3, <2>4
<1>2. CASE \A p \in Procs : ~Writes(p)
  <2>1. walletFile' = walletFile
    BY <1>2, OnlyWritesWrite DEF disk
  <2>2. ASSUME NEW q \in Procs
        PROVE  /\ my'[q].copy # NoWallet => my'[q].copy.seed = walletFile'.seed
               /\ flow'[q] = "derive" => MayInitialize(q)'
    BY <1>2, <2>1, <2>2, OtherStepsRead DEF MayInitialize
  <2> QED
    BY <2>2
<1> QED
  BY <1>1, <1>2

LEMMA SealedInvariance == ASSUME ~Contention PROVE LifeSpec => []Sealed
<1>1. LifeInit => Sealed
  BY DEF LifeInit, Sealed, SameSeed, Checked, Fresh
<1>2. LifeInv /\ OneHolder /\ Sealed /\ [LifeNext]_lifeVars => Sealed'
  BY SealedStep
<1> QED
  BY <1>1, <1>2, LifeInvariance, WalletsHaveOneHolder, PTL DEF LifeSpec

\* A wallet once made keeps its seed, whatever starts, stops, fails and crashes
\* between a ceremony's check and its write: as long as acquisitions do not
\* overlap, nobody else is there.
THEOREM SeedIsKept == ASSUME ~Contention PROVE LifeSpec => SeedIsNeverReplaced
<1>1. ASSUME LifeInv, Sealed, [LifeNext]_lifeVars
      PROVE  [walletFile # NoWallet => walletFile'.seed = walletFile.seed]_lifeVars
  <2>1. ASSUME NEW p \in Procs, Writes(p), walletFile # NoWallet
        PROVE  walletFile'.seed = walletFile.seed
    BY <1>1, <2>1, WriteKeepsTheSeed DEF Sealed
  <2>2. CASE \A p \in Procs : ~Writes(p)
    <3>1. walletFile' = walletFile
      BY <1>1, <2>2, OnlyWritesWrite DEF disk
    <3> QED
      BY <3>1
  <2> QED
    BY <2>1, <2>2
<1> QED
  BY <1>1, LifeInvariance, SealedInvariance, PTL DEF LifeSpec, SeedIsNeverReplaced

-----------------------------------------------------------------------------
(* The receive gate.                                                       *)

\* The words typed to restore are on paper, the challenge is answered with the
\* words off the screen, and whoever is about to confirm has answered it.
OnPaper ==
  /\ \A p \in Procs :
       /\ my[p].words # None => my[p].words \in paper
       /\ flow[p] = "answer" => ~my[p].screen
       /\ flow[p] = "confirm" => walletFile.seed \in paper
  /\ ConfirmedMeansOnPaper

\* What a write says of the words.
LEMMA WriteConfirms ==
  ASSUME LifeInv, NEW p \in Procs, Writes(p), walletFile'.confirmed
  PROVE  \/ walletFile # NoWallet /\ walletFile.confirmed
         \/ flow[p] = "confirm"
         \/ walletFile'.seed = my[p].words
<1>1. CASE NextAddress(p)
  <2>1. walletFile \in Wallets
    BY <1>1, OpenHasAFile DEF NextAddress, Open, LifeInv
  <2> QED
    BY <1>1, <2>1 DEF NextAddress, Wallets, NoWallet
<1>2. CASE ConfirmBackup(p)
  BY <1>2 DEF ConfirmBackup
<1>3. ASSUME NEW seed \in Seeds, NEW then \in {"store", "done"}, Initialize(p, seed, then)
      PROVE  walletFile'.seed = my[p].words
  <2>1. cmd[p] = "restore" /\ walletFile'.seed = seed
    BY <1>3, InitializeTypes DEF LifeInv
  <2> QED
    BY <1>3, <2>1 DEF Initialize
<1> QED
  BY <1>1, <1>2, <1>3 DEF Writes

LEMMA OnPaperStep == ASSUME LifeInv, Sealed, OnPaper, [LifeNext]_lifeVars PROVE OnPaper'
<1>0. /\ flow \in [Procs -> Steps] /\ my \in [Procs -> Work]
      /\ walletFile \in Wallets \union {NoWallet}
      /\ paper \subseteq Seeds
  BY DEF LifeInv, LifeTypeOK
<1> USE DEF OnPaper, ConfirmedMeansOnPaper, To
<1>1. ASSUME NEW p \in Procs, Writes(p) PROVE OnPaper'
  <2>1. /\ paper' = paper
        /\ \A q \in Procs : my'[q].words = my[q].words /\ my'[q].screen = my[q].screen
        /\ walletFile # NoWallet => walletFile'.seed = walletFile.seed
        /\ walletFile' \in Wallets
    BY <1>1, WriteFields, WriteKeepsTheSeed DEF LifeInv, Sealed
  <2>2. flow' = flow \/ flow' = [flow EXCEPT ![p] = "closing"] \/ flow' = [flow EXCEPT ![p] = "ritual"]
    BY <1>1 DEF Writes, NextAddress, ConfirmBackup, Initialize
  <2>3. ASSUME NEW q \in Procs, flow[q] = "confirm" PROVE walletFile # NoWallet
    BY <2>3 DEF LifeInv, FileIsThere, Open
  <2>4. walletFile'.confirmed => walletFile'.seed \in paper
    <3> SUFFICES ASSUME walletFile'.confirmed PROVE walletFile'.seed \in paper
      OBVIOUS
    <3>1. CASE walletFile # NoWallet /\ walletFile.confirmed
      BY <2>1, <3>1
    <3>2. CASE flow[p] = "confirm"
      BY <2>1, <2>3, <3>2
    <3>3. CASE walletFile'.seed = my[p].words
      <4>1. walletFile'.seed \in Seeds
        BY <2>1 DEF Wallets
      <4> QED
        BY <3>3, <4>1, NoneAssumption
    <3> QED
      BY <1>1, <3>1, <3>2, <3>3, WriteConfirms
  <2> QED
    BY <1>0, <2>1, <2>2, <2>3, <2>4
<1>2. ASSUME NEW p \in Procs, ServerStep(p) PROVE OnPaper'
  <2>1. CASE OpenForTools(p)
    BY <1>0, <2>1 DEF OpenForTools, Work, disk
  <2>2. CASE Resume(p)
    BY <1>0, <2>2 DEF Resume, disk
  <2>3. CASE Shutdown(p)
    BY <1>0, <2>3 DEF Shutdown, Close, Work, disk
  <2> QED
    BY <1>1, <1>2, <2>1, <2>2, <2>3 DEF ServerStep, Writes
<1>3. ASSUME NEW p \in Procs, WalletStep(p) PROVE OnPaper'
  <2>1. CASE ResolvePassphrase(p)
    <3>1. CASE GiveUp(p)
      BY <1>0, <2>1, <3>1 DEF ResolvePassphrase, GiveUp, Fresh, disk
    <3>2. CASE ~GiveUp(p)
      BY <1>0, <2>1, <3>2 DEF ResolvePassphrase, Work, disk
    <3> QED
      BY <3>1, <3>2
  <2>2. CASE LockStep(p)
    BY <1>0, <2>2 DEF LockStep, GiveUp, Fresh, disk
  <2>3. CASE Decrypt(p)
    BY <1>0, <2>3 DEF Decrypt, Close, Work, disk
  <2>4. CASE CloseStep(p)
    <3>1. (my' = my /\ flow' = flow) \/ (my'[p].words = None /\ flow'[p] = my[p].then)
      BY <1>0, <2>4, CloseFields
    <3>2. \A q \in Procs : q # p => my'[q] = my[q] /\ flow'[q] = flow[q]
      BY <1>0, <2>4 DEF CloseStep
    <3>3. my[p].then \in {"listen", "store", "display", "typepass", "done"}
      BY <1>0, WorkIsARecord
    <3> QED
      BY <1>0, <2>4, <3>1, <3>2, <3>3 DEF CloseStep, disk
  <2> QED
    BY <1>3, <2>1, <2>2, <2>3, <2>4 DEF WalletStep
<1>4. ASSUME NEW p \in Procs, CeremonyStep(p) PROVE OnPaper'
  <2>1. CASE Look(p)
    <3>1. /\ flow'[p] \in {"newpass", "done", "typepass"} /\ flow' = [flow EXCEPT ![p] = flow'[p]]
          /\ UNCHANGED <<my, walletFile, paper>>
      BY <1>0, <2>1 DEF Look, LifeInv, Roles, CeremonySteps, Ceremonies, disk
    <3> QED
      BY <1>0, <3>1
  <2>2. CASE ContinueToCreate(p)
    BY <1>0, <2>2 DEF ContinueToCreate, disk
  <2>3. CASE LookUnderLock(p) \/ InitializeFails(p) \/ Export(p)
    BY <1>0, <2>3 DEF LookUnderLock, InitializeFails, Export, Close, Work, disk
  <2>4. CASE Answer(p)
    <3>1. CASE flow' = [flow EXCEPT ![p] = "closing"]
      BY <1>0, <2>4, <3>1 DEF Answer, Close, Work, disk
    <3>2. CASE flow' # [flow EXCEPT ![p] = "closing"]
      <4>1. flow' = [flow EXCEPT ![p] = "confirm"] /\ UNCHANGED <<my, walletFile, paper>>
        BY <2>4, <3>2 DEF Answer, Close, disk
      <4>2. my[p].copy.seed \in paper
        BY <2>4, <3>2 DEF Answer, Close
      <4>3. my[p].copy.seed = walletFile.seed
        BY <2>4 DEF LifeInv, FileIsThere, Sealed, SameSeed, Open, Answer
      <4> QED
        BY <1>0, <4>1, <4>2, <4>3
    <3> QED
      BY <3>1, <3>2
  <2>5. CASE Abort(p) \/ StoreUnlockKey(p)
    BY <1>0, <2>5 DEF Abort, StoreUnlockKey, Close, GiveUp, Fresh, Work, disk
  <2>6. CASE ShowWords(p)
    <3>1. /\ \A q \in Procs : my'[q].words = my[q].words /\ (q # p => my'[q].screen = my[q].screen)
          /\ flow' = flow /\ flow[p] # "answer" /\ walletFile' = walletFile /\ paper \subseteq paper'
      BY <1>0, <2>6 DEF ShowWords, Work, disk
    <3> QED
      BY <1>0, <3>1
  <2>7. CASE HideWords(p)
    <3>1. CASE GiveUp(p)
      BY <1>0, <2>7, <3>1 DEF HideWords, GiveUp, Fresh, disk
    <3>2. CASE ~GiveUp(p)
      <4>1. /\ my' = [my EXCEPT ![p].screen = FALSE] /\ flow' = [flow EXCEPT ![p] = "answer"]
            /\ UNCHANGED <<walletFile, paper>>
        BY <2>7, <3>2 DEF HideWords, disk
      <4>2. ~my'[p].screen /\ \A q \in Procs : my'[q].words = my[q].words /\ (q # p => my'[q] = my[q])
        BY <1>0, <4>1 DEF Work
      <4> QED
        BY <1>0, <4>1, <4>2
    <3> QED
      BY <3>1, <3>2
  <2>8. ASSUME NEW typed \in Passphrases, TypePassphrase(p, typed) PROVE OnPaper'
    BY <1>0, <2>8 DEF TypePassphrase, Work, disk
  <2>9. ASSUME NEW typed \in Passphrases, NewPassphrase(p, typed) PROVE OnPaper'
    BY <1>0, <2>9 DEF NewPassphrase, Work, disk
  <2>10. ASSUME NEW typed \in Passphrases, NEW seed \in Seeds, TypeWords(p, typed, seed) PROVE OnPaper'
    BY <1>0, <2>10 DEF TypeWords, Work, disk
  <2> QED
    BY <1>1, <1>4, <2>1, <2>2, <2>3, <2>4, <2>5, <2>6, <2>7, <2>8, <2>9, <2>10, Zenon DEF CeremonyStep, Writes
<1>5. ASSUME NEW p \in Procs, NEW pid \in Pids, NEW c \in Commands, Launch(p, pid, c) PROVE OnPaper'
  BY <1>0, <1>5 DEF Launch, disk
<1>6. ASSUME NEW p \in Procs, End(p) PROVE OnPaper'
  BY <1>0, <1>6 DEF End, Forget, Fresh, disk
<1>7. CASE Elsewhere
  BY <1>7 DEF Elsewhere, life, disk
<1>8. CASE Restart
  BY <1>8 DEF Restart, Forget, Fresh, disk
<1>9. CASE UNCHANGED lifeVars
  BY <1>9 DEF lifeVars, life, disk
<1> QED
  BY <1>2, <1>3, <1>4, <1>5, <1>6, <1>7, <1>8, <1>9, Zenon DEF LifeNext

\* The receive gate opens only for a wallet whose words are on paper, for any
\* number of processes and ceremonies, as long as acquisitions do not overlap.
THEOREM ConfirmedIsOnPaper == ASSUME ~Contention PROVE LifeSpec => []ConfirmedMeansOnPaper
<1>1. LifeInit => OnPaper
  BY DEF LifeInit, OnPaper, ConfirmedMeansOnPaper, Fresh
<1>2. LifeInv /\ Sealed /\ OnPaper /\ [LifeNext]_lifeVars => OnPaper'
  BY OnPaperStep
<1>3. OnPaper => ConfirmedMeansOnPaper
  BY DEF OnPaper
<1> QED
  BY <1>1, <1>2, <1>3, LifeInvariance, SealedInvariance, PTL DEF LifeSpec
-----------------------------------------------------------------------------
(* The unlock key.                                                         *)

\* A ceremony that opened or made the wallet knows its passphrase for as long as
\* it holds the directory, and then until the wallet is encrypted anew: the salt
\* tells.
KnownKey ==
  /\ \A p \in Procs :
       flow[p] \in {"export", "ritual", "answer", "confirm"} \/ (flow[p] = "closing" /\ my[p].then = "store")
         => my[p].pass = walletFile.pass
  /\ \A p \in Procs : flow[p] = "store" /\ my[p].copy.salt = walletFile.salt => my[p].pass = walletFile.pass
  /\ \A p \in Procs : my[p].copy # NoWallet => my[p].copy.salt <= salts
  /\ walletFile # NoWallet => walletFile.salt <= salts
  /\ KeyOpensTheWallet

\* Only a ceremony that makes the wallet changes its passphrase, and then its salt.
LEMMA WriteKeepsThePassphrase ==
  ASSUME LifeInv, NEW p \in Procs, Writes(p)
  PROVE  \/ /\ walletFile # NoWallet /\ walletFile'.pass = walletFile.pass /\ walletFile'.salt = walletFile.salt
            /\ UNCHANGED <<unlock, salts>> /\ flow[p] # "derive"
         \/ /\ walletFile'.pass = my[p].pass /\ walletFile'.salt = salts' /\ salts' = salts + 1
            /\ note' = "nowhere" /\ flow[p] = "derive"
<1>1. CASE NextAddress(p)
  <2>1. walletFile \in Wallets
    BY <1>1, OpenHasAFile DEF NextAddress, Open, LifeInv
  <2> QED
    BY <1>1, <2>1 DEF NextAddress, Wallets, NoWallet
<1>2. CASE ConfirmBackup(p)
  <2>1. walletFile \in Wallets
    BY <1>2, OpenHasAFile DEF ConfirmBackup, Open, LifeInv
  <2> QED
    BY <1>2, <2>1 DEF ConfirmBackup, Wallets, NoWallet
<1>3. ASSUME NEW seed \in Seeds, NEW then \in {"store", "done"}, Initialize(p, seed, then)
      PROVE  /\ walletFile'.pass = my[p].pass /\ walletFile'.salt = salts' /\ salts' = salts + 1
             /\ note' = "nowhere" /\ flow[p] = "derive"
  BY <1>3, InitializeTypes DEF LifeInv, Initialize
<1> QED
  BY <1>1, <1>2, <1>3 DEF Writes

\* Salts are handed out in order.
LEMMA SaltsStayKnown ==
  ASSUME LifeInv, KnownKey, [LifeNext]_lifeVars
  PROVE  /\ \A q \in Procs : my'[q].copy # NoWallet => my'[q].copy.salt <= salts'
         /\ walletFile' # NoWallet => walletFile'.salt <= salts'
<1>0. /\ salts \in 0..MaxSalt
      /\ walletFile \in Wallets \union {NoWallet}
      /\ \A q \in Procs : my[q].copy \in Wallets \union {NoWallet}
      /\ \A w \in Wallets : w.salt \in Nat
  <2>1. \A w \in Wallets : w.salt \in Nat
    BY BoundsAssumption DEF Wallets
  <2>2. \A q \in Procs : my[q].copy \in Wallets \union {NoWallet}
    BY WorkIsARecord DEF LifeInv, LifeTypeOK
  <2> QED
    BY <2>1, <2>2 DEF LifeInv, LifeTypeOK
<1>1. ASSUME NEW p \in Procs, Writes(p)
      PROVE  /\ \A q \in Procs : my'[q].copy # NoWallet => my'[q].copy.salt <= salts'
             /\ walletFile' # NoWallet => walletFile'.salt <= salts'
  <2>1. \A q \in Procs : my'[q].copy = IF q = p THEN walletFile' ELSE my[q].copy
    BY <1>1, WriteFields DEF LifeInv
  <2>2. salts <= salts' /\ walletFile'.salt <= salts'
    BY <1>0, <1>1, WriteKeepsThePassphrase DEF KnownKey
  <2>3. ASSUME NEW q \in Procs, my[q].copy # NoWallet PROVE my[q].copy.salt <= salts'
    <3>1. my[q].copy.salt \in Nat /\ my[q].copy.salt <= salts /\ salts' \in Nat
      BY <1>0, <1>1, <2>3, WriteKeepsThePassphrase DEF KnownKey
    <3> QED
      BY <1>0, <2>2, <3>1
  <2> QED
    BY <2>1, <2>2, <2>3
<1>2. CASE \A p \in Procs : ~Writes(p)
  BY <1>2, OnlyWritesWrite, OtherStepsRead DEF disk, KnownKey
<1> QED
  BY <1>1, <1>2

LEMMA KnownKeyStep == ASSUME LifeInv, OneHolder, KnownKey, [LifeNext]_lifeVars PROVE KnownKey'
<1>0. /\ flow \in [Procs -> Steps] /\ my \in [Procs -> Work] /\ cmd \in [Procs -> Commands]
      /\ walletFile \in Wallets \union {NoWallet}
      /\ salts \in 0..MaxSalt
      /\ \A p \in Procs : my[p].then \in {"listen", "store", "display", "typepass", "done"}
      /\ \A p \in Procs : my[p].copy \in Wallets \union {NoWallet}
      /\ \A p \in Procs : pc[p] = "gone" <=> flow[p] = "none"
  BY WorkIsARecord DEF LifeInv, LifeTypeOK
<1> DEFINE Keys ==
      /\ \A p \in Procs :
           flow[p] \in {"export", "ritual", "answer", "confirm"} \/ (flow[p] = "closing" /\ my[p].then = "store")
             => my[p].pass = walletFile.pass
      /\ \A p \in Procs : flow[p] = "store" /\ my[p].copy.salt = walletFile.salt => my[p].pass = walletFile.pass
      /\ KeyOpensTheWallet
<1>k. Keys
  BY DEF KnownKey
<1> SUFFICES Keys'
  BY SaltsStayKnown DEF KnownKey
<1> USE <1>k DEF KeyOpensTheWallet, To
<1>1. ASSUME NEW p \in Procs, Writes(p) PROVE Keys'
  <2>1. /\ \A q \in Procs : my'[q].pass = my[q].pass /\ (q # p => my'[q].then = my[q].then /\ my'[q].copy = my[q].copy)
        /\ walletFile' \in Wallets
    BY <1>1, WriteFields DEF LifeInv
  <2>2. /\ flow' = flow \/ flow' = [flow EXCEPT ![p] = "closing"] \/ flow' = [flow EXCEPT ![p] = "ritual"]
        /\ flow[p] \in {"serving", "confirm", "derive"} /\ (flow[p] = "serving" => flow' = flow)
    BY <1>1 DEF Writes, NextAddress, ConfirmBackup, Initialize
  <2>3. CASE /\ walletFile # NoWallet /\ walletFile'.pass = walletFile.pass /\ walletFile'.salt = walletFile.salt
             /\ UNCHANGED <<unlock, salts>> /\ flow[p] # "derive"
    BY <1>0, <2>1, <2>2, <2>3 DEF unlock, UnlockKey
  <2>4. CASE /\ walletFile'.pass = my[p].pass /\ walletFile'.salt = salts' /\ salts' = salts + 1
             /\ note' = "nowhere" /\ flow[p] = "derive"
    <3>1. ASSUME NEW q \in Procs, q # p, flow[q] \in {"export", "ritual", "answer", "confirm", "closing"} PROVE FALSE
      BY <2>4, <3>1, AloneWithTheFile DEF Working, Open
    <3>2. ASSUME NEW q \in Procs, q # p, flow[q] = "store" PROVE my[q].copy.salt # walletFile'.salt
      <4>1. my[q].copy \in Wallets
        BY <1>0, <3>2 DEF LifeInv, FileIsThere
      <4>2. my[q].copy.salt <= salts /\ my[q].copy.salt \in Nat
        <5>1. my[q].copy # NoWallet
          BY <3>2 DEF LifeInv, FileIsThere
        <5> QED
          BY <4>1, <5>1 DEF KnownKey, Wallets
      <4> QED
        BY <1>0, <2>4, <4>2
    <3> QED
      BY <1>0, <2>1, <2>2, <2>4, <3>1, <3>2
  <2> QED
    BY <1>1, <2>3, <2>4, WriteKeepsThePassphrase
<1>2. ASSUME NEW p \in Procs, ServerStep(p) PROVE Keys'
  <2>1. CASE OpenForTools(p)
    BY <1>0, <2>1 DEF OpenForTools, Work, disk, unlock, UnlockKey
  <2>2. CASE Resume(p)
    BY <1>0, <2>2 DEF Resume, disk, unlock, UnlockKey
  <2>3. CASE Shutdown(p)
    BY <1>0, <2>3 DEF Shutdown, Close, Work, disk, unlock, UnlockKey
  <2> QED
    BY <1>1, <1>2, <2>1, <2>2, <2>3 DEF ServerStep, Writes
<1>3. ASSUME NEW p \in Procs, WalletStep(p) PROVE Keys'
  <2>0. UNCHANGED <<walletFile, note, keychain>> /\ UnlockKey' = UnlockKey
    <3>1. UNCHANGED <<disk, unlock>>
      BY <1>3, Zenon DEF WalletStep, ResolvePassphrase, LockStep, Decrypt, CloseStep
    <3> QED
      BY <3>1 DEF disk, unlock, UnlockKey
  <2>1. CASE ResolvePassphrase(p)
    <3>1. CASE GiveUp(p)
      BY <1>0, <2>0, <2>1, <3>1 DEF ResolvePassphrase, GiveUp, Fresh
    <3>2. CASE ~GiveUp(p)
      <4>1. flow' = [flow EXCEPT ![p] = "lock"] /\ \A q \in Procs : q # p => my'[q] = my[q]
        BY <1>0, <2>1, <3>2 DEF ResolvePassphrase
      <4> QED
        BY <1>0, <2>0, <4>1
    <3> QED
      BY <3>1, <3>2
  <2>2. CASE LockStep(p)
    <3>1. CASE GiveUp(p)
      BY <1>0, <2>0, <2>2, <3>1 DEF LockStep, GiveUp, Fresh
    <3>2. CASE ~GiveUp(p)
      BY <1>0, <2>0, <2>2, <3>2 DEF LockStep
    <3> QED
      BY <3>1, <3>2
  <2>3. CASE Decrypt(p)
    <3>1. CASE my[p].pass = walletFile.pass
      BY <1>0, <2>0, <2>3, <3>1 DEF Decrypt
    <3>2. CASE my[p].pass # walletFile.pass
      <4>1. /\ flow' = [flow EXCEPT ![p] = "closing"] /\ my'[p].then # "store"
            /\ \A q \in Procs : q # p => my'[q] = my[q]
        BY <1>0, <2>3, <3>2 DEF Decrypt, Close, Work
      <4> QED
        BY <1>0, <2>0, <4>1
    <3> QED
      BY <3>1, <3>2
  <2>4. CASE CloseStep(p)
    <3>1. \/ my' = my /\ flow' = flow
          \/ /\ flow'[p] = my[p].then /\ flow[p] = "closing"
             /\ my[p].then = "store" => my'[p].pass = my[p].pass /\ my'[p].copy = my[p].copy
      BY <1>0, <2>4, CloseFields
    <3>2. \A q \in Procs : q # p => my'[q] = my[q] /\ flow'[q] = flow[q]
      BY <1>0, <2>4 DEF CloseStep
    <3> QED
      BY <1>0, <2>0, <3>1, <3>2
  <2> QED
    BY <1>3, <2>1, <2>2, <2>3, <2>4 DEF WalletStep
<1>4. ASSUME NEW p \in Procs, CeremonyStep(p) PROVE Keys'
  <2> USE DEF disk, unlock, UnlockKey
  <2>1. CASE Look(p)
    <3>1. /\ flow'[p] \in {"newpass", "done", "typepass"} /\ flow' = [flow EXCEPT ![p] = flow'[p]]
          /\ UNCHANGED <<my, walletFile, unlock>>
      BY <1>0, <2>1 DEF Look, LifeInv, Roles, CeremonySteps, Ceremonies
    <3> QED
      BY <1>0, <3>1
  <2>2. CASE ContinueToCreate(p)
    BY <1>0, <2>2 DEF ContinueToCreate
  <2>3. CASE LookUnderLock(p) \/ InitializeFails(p)
    <3>1. /\ flow' = [flow EXCEPT ![p] = flow'[p]] /\ flow'[p] \in {"derive", "closing"}
          /\ flow'[p] = "closing" => my'[p].then = "done"
          /\ \A q \in Procs : q # p => my'[q] = my[q]
          /\ UNCHANGED <<walletFile, unlock>>
      BY <1>0, <2>3 DEF LookUnderLock, InitializeFails, Close, Work
    <3> QED
      BY <1>0, <3>1
  <2>4. CASE Export(p) \/ Answer(p)
    <3>1. /\ flow[p] \in {"export", "answer"} /\ my'[p].pass = my[p].pass
          /\ \A q \in Procs : q # p => my'[q] = my[q] /\ flow'[q] = flow[q]
          /\ flow'[p] \in {"ritual", "confirm", "closing"} /\ UNCHANGED <<walletFile, unlock>>
      BY <1>0, <2>4 DEF Export, Answer, Close, Work
    <3> QED
      BY <1>0, <3>1
  <2>5. CASE Abort(p)
    <3>1. /\ flow'[p] \in {"listen", "done", "closing"} /\ (flow'[p] = "closing" => my'[p].then = "done")
          /\ \A q \in Procs : q # p => my'[q] = my[q] /\ flow'[q] = flow[q]
          /\ UNCHANGED <<walletFile, unlock>>
      BY <1>0, <2>5 DEF Abort, Close, GiveUp, Work
    <3> QED
      BY <1>0, <3>1
  <2>6. CASE StoreUnlockKey(p)
    <3>1. flow[p] = "store" /\ walletFile # NoWallet
      BY <2>6 DEF StoreUnlockKey, LifeInv, FileIsThere
    <3>2. walletFile.pass # None
      BY <1>0, <3>1, NoneAssumption DEF Wallets
    <3>3. walletFile' = walletFile /\ flow'[p] \in {"listen", "done"}
          /\ \A q \in Procs : q # p => flow'[q] = flow[q] /\ my'[q] = my[q]
      BY <1>0, <2>6 DEF StoreUnlockKey, GiveUp
    <3>4. note' # "nowhere" => my[p].pass = walletFile.pass
      BY <2>6, <3>1 DEF StoreUnlockKey, Says
    <3>5. KeyOpensTheWallet'
      BY <2>6, <3>2, <3>3, <3>4 DEF StoreUnlockKey, Says
    <3> QED
      BY <1>0, <3>1, <3>3, <3>5
  <2>7. CASE ShowWords(p)
    <3>1. /\ \A q \in Procs : my'[q].pass = my[q].pass /\ my'[q].then = my[q].then /\ my'[q].copy = my[q].copy
          /\ UNCHANGED <<flow, walletFile, unlock>>
      BY <1>0, <2>7 DEF ShowWords, Work
    <3> QED
      BY <1>0, <3>1
  <2>8. CASE HideWords(p)
    <3>1. CASE flow[p] = "ritual"
      BY <1>0, <2>8, <3>1 DEF HideWords, GiveUp, Work
    <3>2. CASE flow[p] # "ritual"
      BY <1>0, <2>8, <3>2 DEF HideWords, GiveUp, Fresh
    <3> QED
      BY <3>1, <3>2
  <2>9. ASSUME NEW typed \in Passphrases, TypePassphrase(p, typed) PROVE Keys'
    BY <1>0, <2>9 DEF TypePassphrase, Work
  <2>10. ASSUME NEW typed \in Passphrases, NewPassphrase(p, typed) PROVE Keys'
    BY <1>0, <2>10 DEF NewPassphrase, Work
  <2>11. ASSUME NEW typed \in Passphrases, NEW seed \in Seeds, TypeWords(p, typed, seed) PROVE Keys'
    BY <1>0, <2>11 DEF TypeWords, Work
  <2> QED
    BY <1>1, <1>4, <2>1, <2>2, <2>3, <2>4, <2>5, <2>6, <2>7, <2>8, <2>9, <2>10, <2>11, Zenon
       DEF CeremonyStep, Writes
<1>5. ASSUME NEW p \in Procs, NEW pid \in Pids, NEW c \in Commands, Launch(p, pid, c) PROVE Keys'
  BY <1>0, <1>5 DEF Launch, disk, unlock, UnlockKey
<1>6. ASSUME NEW p \in Procs, End(p) PROVE Keys'
  BY <1>0, <1>6 DEF End, Forget, Fresh, disk, unlock, UnlockKey
<1>7. CASE Elsewhere
  BY <1>7 DEF Elsewhere, life, disk, unlock, UnlockKey
<1>8. CASE Restart
  BY <1>8 DEF Restart, Forget, Fresh, disk, unlock, UnlockKey
<1>9. CASE UNCHANGED lifeVars
  BY <1>9 DEF lifeVars, life, disk, unlock, UnlockKey
<1> QED
  BY <1>2, <1>3, <1>4, <1>5, <1>6, <1>7, <1>8, <1>9, Zenon DEF LifeNext

\* The key a server finds first opens the wallet the last ceremony to end worked
\* on, wherever the store commands fail and however ceremonies cross, unless an
\* older key is read before it.
THEOREM TheKeyOpens == ASSUME ~Contention PROVE LifeSpec => []KeyOpensTheWallet
<1>1. LifeInit => KnownKey
  BY BoundsAssumption DEF LifeInit, KnownKey, KeyOpensTheWallet, Fresh
<1>2. LifeInv /\ OneHolder /\ KnownKey /\ [LifeNext]_lifeVars => KnownKey'
  BY KnownKeyStep
<1>3. KnownKey => KeyOpensTheWallet
  BY DEF KnownKey
<1> QED
  BY <1>1, <1>2, <1>3, LifeInvariance, WalletsHaveOneHolder, PTL DEF LifeSpec
-----------------------------------------------------------------------------
(* The copy of wallet.json.                                                *)

\* From the read of the file on, a copy is the file unless another process
\* wrote before this one had the lock; whoever is about to make a wallet has read
\* none.
CopiesAreCurrent ==
  \A p \in Procs :
    /\ flow[p] \in Opening \union Open /\ my[p].copy # NoWallet /\ ~my[p].late => my[p].copy = walletFile
    /\ flow[p] \in {"none", "inspect", "newpass", "warn"} => my[p].copy = NoWallet

\* Writers hold the directory, so nobody else's wallet is open.
LEMMA CopiesAreCurrentStep ==
  ASSUME LifeInv, OneHolder, CopiesAreCurrent, [LifeNext]_lifeVars
  PROVE  CopiesAreCurrent'
<1>0. /\ flow \in [Procs -> Steps] /\ my \in [Procs -> Work]
      /\ walletFile \in Wallets \union {NoWallet}
      /\ \A p \in Procs : pc[p] = "gone" <=> flow[p] = "none"
      /\ \A p \in Procs : my[p].then \in {"listen", "store", "display", "typepass", "done"}
  BY WorkIsARecord DEF LifeInv, LifeTypeOK
<1> USE DEF CopiesAreCurrent, Opening, Open, To, disk
<1>1. ASSUME NEW p \in Procs, Writes(p) PROVE CopiesAreCurrent'
  <2>1. /\ flow[p] \in {"serving", "confirm", "derive"}
        /\ \A q \in Procs : /\ my'[q].copy = IF q = p THEN walletFile' ELSE my[q].copy
                            /\ ~my'[q].late => ~my[q].late /\ (q # p => flow[q] \notin Opening)
    BY <1>1, WriteFields DEF LifeInv
  <2>2. flow'[p] \in {"serving", "closing", "ritual"} /\ \A q \in Procs : q # p => flow'[q] = flow[q]
    BY <1>0, <1>1 DEF Writes, NextAddress, ConfirmBackup, Initialize
  <2>3. ASSUME NEW q \in Procs, q # p PROVE flow[q] \notin Open
    BY <2>1, <2>3 DEF LifeInv, Placed, Working, OneHolder, Holding
  <2> QED
    BY <2>1, <2>2, <2>3
<1>2. ASSUME NEW p \in Procs, ServerStep(p) PROVE CopiesAreCurrent'
  <2>1. CASE OpenForTools(p)
    <3>1. my'[p].copy = walletFile /\ \A q \in Procs : q # p => my'[q] = my[q] /\ flow'[q] = flow[q]
      BY <1>0, <2>1 DEF OpenForTools, Work
    <3> QED
      BY <2>1, <3>1 DEF OpenForTools
  <2>2. CASE Resume(p)
    BY <1>0, <2>2 DEF Resume
  <2>3. CASE Shutdown(p)
    BY <1>0, <2>3 DEF Shutdown, Close, Work
  <2> QED
    BY <1>1, <1>2, <2>1, <2>2, <2>3 DEF ServerStep, Writes
<1>3. ASSUME NEW p \in Procs, WalletStep(p) PROVE CopiesAreCurrent'
  <2>0. walletFile' = walletFile
    BY <1>3, Zenon DEF WalletStep, ResolvePassphrase, LockStep, Decrypt, CloseStep
  <2>1. CASE ResolvePassphrase(p)
    <3>1. CASE GiveUp(p)
      BY <1>0, <2>0, <2>1, <3>1 DEF ResolvePassphrase, GiveUp, Fresh
    <3>2. CASE ~GiveUp(p)
      BY <1>0, <2>0, <2>1, <3>2 DEF ResolvePassphrase, Work
    <3> QED
      BY <3>1, <3>2
  <2>2. CASE LockStep(p)
    BY <1>0, <2>0, <2>2 DEF LockStep, GiveUp, Fresh
  <2>3. CASE Decrypt(p)
    BY <1>0, <2>0, <2>3 DEF Decrypt, Close, Work
  <2>4. CASE CloseStep(p)
    <3>1. (my' = my /\ flow' = flow) \/ flow'[p] = my[p].then
      BY <1>0, <2>4 DEF CloseStep
    <3>2. \A q \in Procs : q # p => my'[q] = my[q] /\ flow'[q] = flow[q]
      BY <1>0, <2>4 DEF CloseStep
    <3> QED
      BY <1>0, <2>0, <3>1, <3>2
  <2> QED
    BY <1>3, <2>1, <2>2, <2>3, <2>4 DEF WalletStep
<1>4. ASSUME NEW p \in Procs, CeremonyStep(p) PROVE CopiesAreCurrent'
  <2>1. CASE Look(p)
    <3>1. /\ flow'[p] \in {"newpass", "done", "typepass"} /\ flow' = [flow EXCEPT ![p] = flow'[p]]
          /\ flow[p] = "inspect" /\ UNCHANGED <<my, walletFile>>
      BY <1>0, <2>1 DEF Look, LifeInv, Roles, CeremonySteps, Ceremonies
    <3> QED
      BY <1>0, <3>1
  <2>2. CASE ContinueToCreate(p)
    <3>1. flow[p] = "warn" /\ my[p].copy = NoWallet
      BY <2>2 DEF ContinueToCreate
    <3> QED
      BY <1>0, <2>2, <3>1 DEF ContinueToCreate
  <2>3. CASE LookUnderLock(p) \/ InitializeFails(p) \/ Export(p) \/ Answer(p)
    BY <1>0, <2>3 DEF LookUnderLock, InitializeFails, Export, Answer, Close, Work
  <2>4. CASE Abort(p) \/ StoreUnlockKey(p)
    BY <1>0, <2>4 DEF Abort, StoreUnlockKey, Close, GiveUp, Fresh, Work
  <2>5. CASE ShowWords(p) \/ HideWords(p)
    BY <1>0, <2>5 DEF ShowWords, HideWords, GiveUp, Fresh, Work
  <2>6. ASSUME NEW typed \in Passphrases, TypePassphrase(p, typed) PROVE CopiesAreCurrent'
    <3>1. my'[p].copy = walletFile /\ \A q \in Procs : q # p => my'[q] = my[q] /\ flow'[q] = flow[q]
      BY <1>0, <2>6 DEF TypePassphrase, Work
    <3> QED
      BY <1>0, <2>6, <3>1 DEF TypePassphrase
  <2>7. ASSUME NEW typed \in Passphrases, NewPassphrase(p, typed) PROVE CopiesAreCurrent'
    BY <1>0, <2>7 DEF NewPassphrase, Work
  <2>8. ASSUME NEW typed \in Passphrases, NEW seed \in Seeds, TypeWords(p, typed, seed) PROVE CopiesAreCurrent'
    <3>1. flow[p] = "newpass" /\ my[p].copy = NoWallet
      BY <2>8 DEF TypeWords
    <3> QED
      BY <1>0, <2>8, <3>1 DEF TypeWords, Work
  <2> QED
    BY <1>1, <1>4, <2>1, <2>2, <2>3, <2>4, <2>5, <2>6, <2>7, <2>8, Zenon DEF CeremonyStep, Writes
<1>5. ASSUME NEW p \in Procs, NEW pid \in Pids, NEW c \in Commands, Launch(p, pid, c) PROVE CopiesAreCurrent'
  BY <1>0, <1>5 DEF Launch, Spawn
<1>6. ASSUME NEW p \in Procs, End(p) PROVE CopiesAreCurrent'
  BY <1>0, <1>6 DEF End, Forget, Fresh
<1>7. CASE Elsewhere
  BY <1>7 DEF Elsewhere, life
<1>8. CASE Restart
  BY <1>8 DEF Restart, Forget, Fresh
<1>9. CASE UNCHANGED lifeVars
  BY <1>9 DEF lifeVars, life
<1> QED
  BY <1>2, <1>3, <1>4, <1>5, <1>6, <1>7, <1>8, <1>9, Zenon DEF LifeNext

\* An open wallet works with what is on disk, unless it was late: in any number
\* of processes, as long as acquisitions do not overlap.
THEOREM TheCacheIsTheFile == ASSUME ~Contention PROVE LifeSpec => []CacheIsTheFile
<1>1. LifeInit => CopiesAreCurrent
  BY DEF LifeInit, CopiesAreCurrent, Fresh
<1>2. LifeInv /\ OneHolder /\ CopiesAreCurrent /\ [LifeNext]_lifeVars => CopiesAreCurrent'
  BY CopiesAreCurrentStep
<1>3. LifeInv /\ CopiesAreCurrent => CacheIsTheFile
  BY DEF CopiesAreCurrent, CacheIsTheFile, LifeInv, FileIsThere
<1> QED
  BY <1>1, <1>2, <1>3, LifeInvariance, WalletsHaveOneHolder, PTL DEF LifeSpec
=============================================================================
