----------------------------- MODULE Lifecycle -----------------------------
(***************************************************************************)
(* The processes that open a wallet and the file they open: the server     *)
(* (stdio.ts, unified.ts) and the ceremonies init, init --restore and      *)
(* backup (init-flow.ts, backup-flow.ts, backup-ritual.ts), over           *)
(* DepixWallet's open, create, restore and close (wallet.ts), wallet.json  *)
(* (seed-store.ts), the unlock key (unlock-store.ts) and the lock file.    *)
(*                                                                         *)
(* flow[p] is where process p stands.  Every action is an action of        *)
(* DirLock together with what it does to the rest, or leaves the lock      *)
(* alone.                                                                  *)
(***************************************************************************)
EXTENDS DirLock

CONSTANTS
  Seeds,        \* mnemonics; a wallet's descriptor is a function of its seed
  Passphrases,  \* passphrases the operator may type or generate
  Runs,         \* the commands each process slot may run
  MaxTries,     \* MAX_PROMPT_ATTEMPTS, MAX_PASSPHRASE_ATTEMPTS
  MaxSalt,      \* bound: times wallet.json is encrypted anew
  MaxIndex,     \* bound: receive addresses
  None

ASSUME NoneAssumption == None \notin Seeds \union Passphrases
ASSUME BoundsAssumption == MaxSalt \in Nat \ {0} /\ MaxTries \in Nat /\ MaxIndex \in Nat

Ceremonies == {"init", "restore", "backup"}
Commands == Ceremonies \union {"serve"}

ASSUME RunsAssumption == Runs \in [Procs -> SUBSET Commands]

\* What wallet.json says.
Wallets == [seed: Seeds, pass: Passphrases, salt: 1..MaxSalt,
            confirmed: BOOLEAN, next: 0..MaxIndex]
NoWallet == [seed |-> None]

VARIABLES
  walletFile, \* wallet.json
  salts,      \* how often it was encrypted
  cmd,        \* the command of a process
  flow,       \* where it stands
  my,         \* what it works with
  paper,      \* the seeds the operator has on paper
  keychain,   \* the unlock key in the OS credential store
  keyFile,    \* the unlock key in the fallback file
  note        \* where the last ceremony to end said the unlock key of this file is

disk == <<walletFile, salts>>
unlock == <<keychain, keyFile, note>>
life == <<disk, cmd, flow, my, paper, unlock>>
lifeVars == <<vars, life>>

\* The steps of DepixWallet.open, and those at which a wallet is open.
Opening == {"key", "lock", "decrypt"}
Open == {"resume", "serving", "export", "ritual", "answer", "confirm"}
Steps == Opening \union Open \union
  {"none", "listen", "inspect", "newpass", "typepass", "warn", "make", "derive",
   "closing", "store", "display", "done"}

\* What a process works with: its copy of wallet.json (DepixWallet.file, or the
\* record a maker found), whether the file changed between that copy and the lock, the passphrase, the words
\* typed to restore, the passphrases tried, where it goes when its wallet is
\* closed, and whether the words are readable in its terminal.
Fresh == [copy |-> NoWallet, late |-> FALSE, pass |-> None, words |-> None,
          tries |-> 0, then |-> "done", screen |-> FALSE]
Work == [copy: Wallets \union {NoWallet}, late: BOOLEAN,
         pass: Passphrases \union {None}, words: Seeds \union {None},
         tries: 0..MaxTries, then: {"listen", "store", "display", "typepass", "done"},
         screen: BOOLEAN]

LifeTypeOK ==
  /\ TypeOK
  /\ walletFile \in Wallets \union {NoWallet}
  /\ salts \in 0..MaxSalt
  /\ cmd \in [Procs -> Commands]
  /\ flow \in [Procs -> Steps]
  /\ my \in [Procs -> Work]
  /\ paper \subseteq Seeds
  /\ {keychain, keyFile} \subseteq Passphrases \union {None}
  /\ note \in {"nowhere", "keychain", "file"}
  \* A dead process does nothing, and a flow is at the lock when DirLock is.
  /\ \A p \in Procs : pc[p] = "gone" <=> flow[p] = "none"
  /\ \A p \in Procs : pc[p] \in Acquiring <=> flow[p] = "lock"

To(p, step) == flow' = [flow EXCEPT ![p] = step]
Close(p, step) == To(p, "closing") /\ my' = [my EXCEPT ![p].then = step]

\* The call has failed or the ceremony is over: nothing is kept.
GiveUp(p) == To(p, IF cmd[p] = "serve" THEN "listen" ELSE "done") /\ my' = [my EXCEPT ![p] = Fresh]

\* Faulty variant: the file is written, the wallet's copy is not refreshed.
RereadNot(p, w) == [q \in Procs |->
  IF q = p THEN my[p] ELSE [my[q] EXCEPT !.late = @ \/ flow[q] \in Opening]]

\* A durable write of wallet.json, after which the writer reads it back
\* (refreshFile, or the read before the constructor).  Others that have read the
\* file and have no lock yet are late.
Reread(p, w) == [q \in Procs |->
  IF q = p THEN [my[p] EXCEPT !.copy = w] ELSE [my[q] EXCEPT !.late = @ \/ flow[q] \in Opening]]

LifeInit ==
  /\ Init
  /\ walletFile = NoWallet
  /\ salts = 0
  /\ cmd = [p \in Procs |-> "serve"]
  /\ flow = [p \in Procs |-> "none"]
  /\ my = [p \in Procs |-> Fresh]
  /\ paper = {}
  /\ keychain = None
  /\ keyFile = None
  /\ note = "nowhere"

-----------------------------------------------------------------------------
(* Processes                                                               *)

\* runCli: a server, or a ceremony of the operator, who may have several
\* terminals.
Launch(p, pid, c) ==
  /\ c \in Runs[p]
  /\ Spawn(p, pid)
  /\ cmd' = [cmd EXCEPT ![p] = c]
  /\ To(p, IF c = "serve" THEN "listen" ELSE "inspect")
  /\ UNCHANGED <<disk, my, paper, unlock>>

\* What ends with processes.
Forget(dead) ==
  /\ flow' = [p \in Procs |-> IF p \in dead THEN "none" ELSE flow[p]]
  /\ my' = [p \in Procs |-> IF p \in dead THEN Fresh ELSE my[p]]
  /\ cmd' = [p \in Procs |-> IF p \in dead THEN "serve" ELSE cmd[p]]
  /\ UNCHANGED <<disk, paper, unlock>>

\* A process is killed, or ends; also the watchdog of a shutdown that hangs and
\* a shutdown that finds the wallet still being opened.
End(p) == Die(p) /\ Forget({p})

Restart == Reboot /\ Forget(Procs)

\* Other programs come and go.
Elsewhere ==
  /\ \E pid \in Pids : ForeignStarts(pid) \/ ForeignEnds(pid)
  /\ UNCHANGED life

-----------------------------------------------------------------------------
(* Opening and closing                                                     *)

\* readUnlockKey: the credential store first, then the file.  Either read can
\* fail, and is then "not here".
UnlockKey == IF keychain # None THEN keychain ELSE keyFile
UnlockKeys == {keychain, keyFile, None}

\* A wallet tool is called: getWallet() opens the wallet once, open() reads the
\* file; WALLET_NOT_FOUND is answered as "no wallet here".
OpenForTools(p) ==
  /\ cmd[p] = "serve"
  /\ flow[p] = "listen"
  /\ walletFile # NoWallet
  /\ my' = [my EXCEPT ![p].copy = walletFile]
  /\ To(p, "key")
  /\ UNCHANGED <<vars, disk, cmd, paper, unlock>>

\* A passphrase is typed and open() reads the file; up to MaxTries times.
TypePassphrase(p, typed) ==
  /\ flow[p] = "typepass"
  /\ my[p].tries < MaxTries
  /\ my' = [my EXCEPT ![p].tries = @ + 1, ![p].pass = typed, ![p].copy = walletFile]
  /\ To(p, "key")
  /\ UNCHANGED <<vars, disk, cmd, paper, unlock>>

\* The passphrase is resolved; without one the call fails, with one it goes for
\* the lock.
ResolvePassphrase(p) ==
  /\ flow[p] = "key"
  /\ \E key \in IF cmd[p] = "serve" THEN UnlockKeys ELSE {my[p].pass} :
       IF key = None
         THEN GiveUp(p) /\ UNCHANGED vars
         ELSE Acquire(p) /\ To(p, "lock") /\ my' = [my EXCEPT ![p].pass = key]
  /\ UNCHANGED <<disk, cmd, paper, unlock>>

\* One step of acquireDirLock; it ends with the lock, or with
\* WALLET_DIR_LOCKED or a failed write.
LockStep(p) ==
  /\ flow[p] = "lock"
  /\ Create(p) \/ Write(p) \/ WriteFails(p) \/ Inspect(p) \/ Unlink(p)
  /\ CASE pc'[p] = "held" ->
            To(p, IF my[p].copy = NoWallet THEN "make" ELSE "decrypt") /\ UNCHANGED my
       [] pc'[p] = "idle" -> GiveUp(p)
       [] OTHER -> UNCHANGED <<flow, my>>
  /\ UNCHANGED <<disk, cmd, paper, unlock>>

\* Faulty variant: the error of a wrong passphrase leaves the lock behind.
DecryptKeepsLock(p) ==
  /\ flow[p] = "decrypt"
  /\ IF my[p].pass = walletFile.pass
       THEN To(p, IF cmd[p] = "serve" THEN "resume" ELSE "export") /\ UNCHANGED my
       ELSE GiveUp(p)
  /\ UNCHANGED <<vars, disk, cmd, paper, unlock>>

\* decryptMnemonic, on the file as it is now: the wallet is open, or the lock
\* is given back and WRONG_PASSPHRASE is thrown.
Decrypt(p) ==
  /\ flow[p] = "decrypt"
  /\ IF my[p].pass = walletFile.pass
       THEN To(p, IF cmd[p] = "serve" THEN "resume" ELSE "export") /\ UNCHANGED my
       ELSE Close(p, IF cmd[p] = "serve" THEN "listen"
                     ELSE IF my[p].tries < MaxTries THEN "typepass" ELSE "done")
  /\ UNCHANGED <<vars, disk, cmd, paper, unlock>>

\* The two crash-resume passes of the server's only open.
Resume(p) ==
  /\ flow[p] = "resume"
  /\ To(p, "serving")
  /\ UNCHANGED <<vars, disk, cmd, my, paper, unlock>>

\* getReceiveAddress: the counter is read from the wallet's copy, and moved in
\* the file, where it never moves back.
NextAddress(p) ==
  /\ flow[p] = "serving"
  /\ my[p].copy.confirmed
  /\ my[p].copy.next < MaxIndex
  /\ LET wanted == my[p].copy.next + 1
         moved == [walletFile EXCEPT !.next = IF wanted > @ THEN wanted ELSE @]
     IN walletFile' = moved /\ my' = Reread(p, moved)
  /\ UNCHANGED <<vars, salts, cmd, flow, paper, unlock>>

\* The host closes stdin, or a signal: server.close(), then runtime.close().
Shutdown(p) ==
  /\ flow[p] = "serving"
  /\ Close(p, "done")
  /\ UNCHANGED <<vars, disk, cmd, paper, unlock>>

\* DepixWallet.close, and the release on the error paths.
CloseStep(p) ==
  /\ flow[p] = "closing"
  /\ Release(p) \/ ReleaseUnlink(p)
  /\ IF pc'[p] # "idle"
       THEN UNCHANGED <<flow, my>>
       ELSE /\ To(p, my[p].then)
            /\ my' = [my EXCEPT ![p] = IF @.then \in {"done", "listen"} THEN Fresh
                                       ELSE [Fresh EXCEPT !.pass = my[p].pass, !.tries = my[p].tries,
                                                          !.copy = IF my[p].then = "store" THEN my[p].copy
                                                                   ELSE NoWallet]]
  /\ UNCHANGED <<disk, cmd, paper, unlock>>

-----------------------------------------------------------------------------
(* Ceremonies                                                              *)

\* runWalletInit and runWalletBackup look at the plaintext of wallet.json.
Look(p) ==
  /\ flow[p] = "inspect"
  /\ To(p, CASE cmd[p] = "restore" -> "newpass"
             [] cmd[p] = "init" /\ walletFile = NoWallet -> "newpass"
             [] cmd[p] = "init" /\ walletFile # NoWallet -> IF walletFile.confirmed THEN "done" ELSE "typepass"
             [] cmd[p] = "backup" -> IF walletFile = NoWallet THEN "done" ELSE "typepass")
  /\ UNCHANGED <<vars, disk, cmd, my, paper, unlock>>

\* promptNewPassphrase of init.
NewPassphrase(p, typed) ==
  /\ flow[p] = "newpass"
  /\ cmd[p] = "init"
  /\ my' = [my EXCEPT ![p].pass = typed]
  /\ To(p, "warn")
  /\ UNCHANGED <<vars, disk, cmd, paper, unlock>>

\* promptNewPassphrase and promptMnemonic of init --restore: whoever types the
\* words has them.
TypeWords(p, typed, seed) ==
  /\ flow[p] = "newpass"
  /\ cmd[p] = "restore"
  /\ my' = [my EXCEPT ![p].pass = typed, ![p].words = seed]
  /\ paper' = paper \union {seed}
  /\ Acquire(p)
  /\ To(p, "lock")
  /\ UNCHANGED <<disk, cmd, unlock>>

\* confirmSeedDisplay before the seed exists: "continue".
ContinueToCreate(p) ==
  /\ flow[p] = "warn"
  /\ Acquire(p)
  /\ To(p, "lock")
  /\ UNCHANGED <<disk, cmd, my, paper, unlock>>

\* create() wants no wallet.json, restore() none of another descriptor; both
\* look under the lock.
MayInitialize(p) ==
  \/ walletFile = NoWallet
  \/ cmd[p] = "restore" /\ walletFile.seed = my[p].words

\* Faulty variant: init relies on the look it took before it had the lock.
LookTrusted(p) ==
  /\ flow[p] = "make"
  /\ IF cmd[p] = "init" \/ MayInitialize(p)
       THEN To(p, "derive") /\ my' = [my EXCEPT ![p].copy = walletFile]
       ELSE Close(p, "done")
  /\ UNCHANGED <<vars, disk, cmd, paper, unlock>>

\* The read of wallet.json before initialize() and the one it begins with; else
\* WALLET_ALREADY_EXISTS or DESCRIPTOR_MISMATCH.
LookUnderLock(p) ==
  /\ flow[p] = "make"
  /\ IF MayInitialize(p)
       THEN To(p, "derive") /\ my' = [my EXCEPT ![p].copy = walletFile]
       ELSE Close(p, "done")
  /\ UNCHANGED <<vars, disk, cmd, paper, unlock>>

\* The rest of SeedStore.initialize, once the key is derived: a fresh salt, and
\* the receive counter of the record that was read; what other stores hold under
\* the old key stays as it is.  When the directory cannot be synced the file is
\* there and the ceremony is over ("done").
Initialize(p, seed, then) ==
  /\ flow[p] = "derive"
  /\ cmd[p] = "restore" => seed = my[p].words
  /\ salts < MaxSalt
  /\ salts' = salts + 1
  /\ LET made == [seed |-> seed, pass |-> my[p].pass, salt |-> salts + 1,
                  confirmed |-> cmd[p] = "restore",
                  next |-> IF my[p].copy = NoWallet THEN 0 ELSE my[p].copy.next]
     IN /\ walletFile' = made
        /\ my' = [Reread(p, made) EXCEPT ![p].then = then]
  /\ note' = "nowhere"
  /\ To(p, IF cmd[p] = "restore" \/ then = "done" THEN "closing" ELSE "ritual")
  /\ UNCHANGED <<vars, cmd, paper, keychain, keyFile>>

\* The write fails; the lock is given back.
InitializeFails(p) ==
  /\ flow[p] = "derive"
  /\ Close(p, "done")
  /\ UNCHANGED <<vars, disk, cmd, paper, unlock>>

\* The wallet a ceremony opened: backup takes the words and closes it, init
\* takes up the ritual unless its copy says confirmed.
Export(p) ==
  /\ flow[p] = "export"
  /\ \/ cmd[p] = "backup" /\ Close(p, "display")
     \/ cmd[p] = "init" /\ my[p].copy.confirmed /\ Close(p, "store")
     \/ cmd[p] = "init" /\ ~my[p].copy.confirmed /\ To(p, "ritual") /\ UNCHANGED my
  /\ UNCHANGED <<vars, disk, cmd, paper, unlock>>

\* The operator aborts at a prompt: Ctrl-C, no "continue", no more attempts; or
\* confirmBackup cannot write.
Abort(p) ==
  /\ \/ flow[p] \in {"newpass", "warn", "typepass", "display"} /\ GiveUp(p)
     \/ flow[p] \in {"ritual", "answer", "confirm"} /\ Close(p, "done")
  /\ UNCHANGED <<vars, disk, cmd, paper, unlock>>

\* displayMnemonic: the words are on the screen, the operator may copy them.
ShowWords(p) ==
  /\ flow[p] \in {"ritual", "display"}
  /\ ~my[p].screen
  /\ my' = [my EXCEPT ![p].screen = TRUE]
  /\ paper' \in {paper, paper \union {walletFile.seed}}
  /\ UNCHANGED <<vars, disk, cmd, flow, unlock>>

\* Faulty variant: the challenge begins with the words still on the screen.
HideNothing(p) ==
  /\ flow[p] = "ritual"
  /\ my[p].screen
  /\ To(p, "answer")
  /\ UNCHANGED <<vars, disk, cmd, my, paper, unlock>>

\* "Press Enter to HIDE them and prove it": screen and scrollback are cleared;
\* backup ends with it.
HideWords(p) ==
  /\ my[p].screen
  /\ \/ flow[p] = "ritual" /\ To(p, "answer") /\ my' = [my EXCEPT ![p].screen = FALSE]
     \/ flow[p] = "display" /\ GiveUp(p)
  /\ UNCHANGED <<vars, disk, cmd, paper, unlock>>

\* The challenged words are answered, from the paper or from the screen; or the
\* rounds are used up and the wallet stays unconfirmed.
Answer(p) ==
  /\ flow[p] = "answer"
  /\ \/ /\ my[p].copy.seed \in paper \/ my[p].screen
        /\ To(p, "confirm")
        /\ UNCHANGED my
     \/ Close(p, "store")
  /\ UNCHANGED <<vars, disk, cmd, paper, unlock>>

\* confirmBackup.
ConfirmBackup(p) ==
  /\ flow[p] = "confirm"
  /\ LET confirmed == [walletFile EXCEPT !.confirmed = TRUE]
     IN walletFile' = confirmed /\ my' = [Reread(p, confirmed) EXCEPT ![p].then = "store"]
  /\ To(p, "closing")
  /\ UNCHANGED <<vars, salts, cmd, paper, unlock>>

\* unlockNote; of a file that has been encrypted anew since, it says nothing.
Says(p, where) == note' = IF my[p].copy.salt = walletFile.salt THEN where ELSE "nowhere"

\* Faulty variant: an entry that exists is taken for this one.
StoreIfAbsent(p) ==
  /\ flow[p] = "store"
  /\ \/ Says(p, "keychain") /\ keychain' = (IF keychain = None THEN my[p].pass ELSE keychain) /\ UNCHANGED keyFile
     \/ Says(p, "file") /\ keyFile' = my[p].pass /\ UNCHANGED keychain
     \/ Says(p, "nowhere") /\ UNCHANGED <<keychain, keyFile>>
  /\ GiveUp(p)
  /\ UNCHANGED <<vars, disk, cmd, paper>>

\* storeUnlockKey, after the lock is given back: the command of the credential
\* store succeeds and replaces the entry; or fails, and the key goes to the file
\* or nowhere, while an older entry stays.  Limits, the operator's token and the
\* hosts follow.
StoreUnlockKey(p) ==
  /\ flow[p] = "store"
  /\ \/ Says(p, "keychain") /\ keychain' = my[p].pass /\ UNCHANGED keyFile
     \/ Says(p, "file") /\ keyFile' = my[p].pass /\ UNCHANGED keychain
     \/ Says(p, "nowhere") /\ UNCHANGED <<keychain, keyFile>>
  /\ GiveUp(p)
  /\ UNCHANGED <<vars, disk, cmd, paper>>

ServerStep(p) == OpenForTools(p) \/ Resume(p) \/ NextAddress(p) \/ Shutdown(p)

WalletStep(p) == ResolvePassphrase(p) \/ LockStep(p) \/ Decrypt(p) \/ CloseStep(p)

CeremonyStep(p) ==
  \/ Look(p) \/ ContinueToCreate(p) \/ LookUnderLock(p) \/ InitializeFails(p) \/ Export(p) \/ Abort(p)
  \/ ShowWords(p) \/ HideWords(p) \/ Answer(p) \/ ConfirmBackup(p) \/ StoreUnlockKey(p)
  \/ \E typed \in Passphrases : TypePassphrase(p, typed) \/ NewPassphrase(p, typed)
  \/ \E typed \in Passphrases, seed \in Seeds : TypeWords(p, typed, seed)
  \/ \E seed \in Seeds, then \in {"store", "done"} : Initialize(p, seed, then)

LifeNext ==
  \/ \E p \in Procs :
       \/ ServerStep(p) \/ WalletStep(p) \/ CeremonyStep(p) \/ End(p)
       \/ \E pid \in Pids, c \in Commands : Launch(p, pid, c)
  \/ Elsewhere
  \/ Restart

LifeSpec == LifeInit /\ [][LifeNext]_lifeVars

-----------------------------------------------------------------------------
(* Properties                                                              *)

\* Whatever ceremonies and servers start, stop, race and crash, a wallet once
\* made keeps its seed: create() never writes over one, restore() only with the
\* same words, though each looks, derives a key and writes in steps of its own,
\* and init looked a first time before it had the lock.
SeedIsNeverReplaced ==
  [][walletFile # NoWallet => walletFile'.seed = walletFile.seed]_lifeVars

\* The receive gate opens only for a wallet whose words the operator has on
\* paper: the challenge cannot be answered from the screen, and no abort,
\* restart or second ceremony confirms without it.
ConfirmedMeansOnPaper ==
  walletFile # NoWallet /\ walletFile.confirmed => walletFile.seed \in paper

\* An open wallet works with what is on disk (its salt, its receive counter,
\* its gate), unless another process wrote wallet.json after this one's open
\* had read it and before it had the lock: open() reads first and locks later.
CacheIsTheFile ==
  \A p \in Procs : flow[p] \in Open /\ ~my[p].late => my[p].copy = walletFile

\* When the last ceremony to end worked on the wallet.json there is, the unlock
\* key a server finds first opens it: if the ceremony said that the key is in the
\* credential store, or that it is in the file and the credential store holds no
\* older one, which is read before.
KeyOpensTheWallet ==
  note = "keychain" \/ (note = "file" /\ keychain = None) => UnlockKey = walletFile.pass

\* The data directory is held only by a wallet that is open, being opened or
\* being closed: no error path, abort or prompt outside one keeps it, and the
\* words of a backup are shown with the directory free.
HeldOnlyByAWallet ==
  \A p \in Procs : pc[p] \in Holding => flow[p] \in Opening \union Open \union {"make", "derive", "closing"}
=============================================================================
