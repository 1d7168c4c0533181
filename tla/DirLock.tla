------------------------------ MODULE DirLock ------------------------------
(***************************************************************************)
(* The lock file of a wallet's data directory (store/dir-lock.ts).         *)
(*                                                                         *)
(* A process owns the directory once it has created <dataDir>/.lock with   *)
(* O_EXCL and written its pid and boot id into it.  A process that finds   *)
(* the file reads it: no readable pid, a dead pid or another boot make the *)
(* lock stale, and it is unlinked and the creation tried once more.        *)
(* Creating, writing, reading and unlinking are four awaits, and any       *)
(* process may run or die between two of them.                             *)
(***************************************************************************)
EXTENDS Naturals, FiniteSets

CONSTANTS
  Procs,      \* the processes that open the wallet
  Pids,       \* process ids the system hands out
  Sandboxed,  \* the processes that cannot tell their boot
  Contention, \* TRUE: two processes may be acquiring at the same time
  MaxBoot     \* bound: boots of the machine

ASSUME PidsAssumption == Pids \subseteq Nat \ {0}
ASSUME BootAssumption == MaxBoot \in Nat \ {0}
ASSUME ContentionAssumption == Contention \in BOOLEAN

NoPid == 0        \* the file is empty
UnknownBoot == 0  \* BOOT_ID_UNKNOWN
Nobody == "nobody"
NoFile == [made |-> FALSE, by |-> Nobody, pid |-> NoPid, boot |-> UnknownBoot]
File(p, pid, b) == [made |-> TRUE, by |-> p, pid |-> pid, boot |-> b]

\* What the path names.
Files == [made: BOOLEAN, by: Procs \union {Nobody}, pid: Pids \union {NoPid}, boot: 0..MaxBoot]

VARIABLES
  lock,     \* the lock file; "by" names the process that created this file
  pc,       \* where each process stands in acquireDirLock and release
  attempt,  \* the pass of acquireDirLock's loop
  pidOf,    \* its process id
  foreign,  \* ids of other live programs
  boot      \* the machine's current boot

vars == <<lock, pc, attempt, pidOf, foreign, boot>>

Acquiring == {"create", "write", "inspect", "unlink"}
Holding == {"held", "release"}
Places == {"gone", "idle"} \union Acquiring \union Holding

TypeOK ==
  /\ lock \in Files
  /\ pc \in [Procs -> Places]
  /\ attempt \in [Procs -> 0..1]
  /\ pidOf \in [Procs -> Pids \union {NoPid}]
  /\ foreign \subseteq Pids
  /\ boot \in 1..MaxBoot
  \* Live processes have ids of their own, and no lock is from a later boot.
  /\ \A p, q \in Procs : pc[p] # "gone" /\ pc[q] # "gone" /\ p # q => pidOf[p] # pidOf[q]
  /\ \A p \in Procs : pc[p] # "gone" => pidOf[p] \notin foreign
  /\ lock.boot <= boot

\* process.kill(pid, 0)
Alive == {pidOf[p] : p \in {q \in Procs : pc[q] # "gone"}} \union foreign

BootId(p) == IF p \in Sandboxed THEN UnknownBoot ELSE boot
\* Faulty variant: a boot that cannot be told is another boot.
SameBootOnlyIfKnown(a, b) == a = b

\* sameBoot: only two known ids can differ.
SameBoot(a, b) == a = b \/ UnknownBoot \in {a, b}

\* The lock names a live process of this boot, as far as p can tell.
HeldByLiveProcess(p) == lock.made /\ lock.pid \in Alive /\ SameBoot(lock.boot, BootId(p))

Goto(p, place) == pc' = [pc EXCEPT ![p] = place]

Init ==
  /\ lock = NoFile
  /\ pc = [p \in Procs |-> "gone"]
  /\ attempt = [p \in Procs |-> 0]
  /\ pidOf = [p \in Procs |-> NoPid]
  /\ foreign = {}
  /\ boot = 1

\* The system starts a process, with any id that is free.
Spawn(p, pid) ==
  /\ pc[p] = "gone"
  /\ pid \notin Alive
  /\ Goto(p, "idle")
  /\ pidOf' = [pidOf EXCEPT ![p] = pid]
  /\ UNCHANGED <<lock, attempt, foreign, boot>>

\* acquireDirLock is called.
Acquire(p) ==
  /\ pc[p] = "idle"
  /\ ~Contention => \A q \in Procs : pc[q] \notin Acquiring
  /\ attempt' = [attempt EXCEPT ![p] = 0]
  /\ Goto(p, "create")
  /\ UNCHANGED <<lock, pidOf, foreign, boot>>

\* open(lockPath, "wx"): a new empty file, or EEXIST.
Create(p) ==
  /\ pc[p] = "create"
  /\ IF lock.made
       THEN Goto(p, "inspect") /\ UNCHANGED lock
       ELSE Goto(p, "write") /\ lock' = File(p, NoPid, UnknownBoot)
  /\ UNCHANGED <<attempt, pidOf, foreign, boot>>

\* What writeFile leaves: it writes into the file p created, wherever that is
\* now; a file another process has put in its place keeps its content.
Written(p) ==
  IF lock.made /\ lock.by = p THEN File(p, pidOf[p], BootId(p)) ELSE lock

\* writeFile and sync succeed: p holds the directory.
Write(p) ==
  /\ pc[p] = "write"
  /\ lock' = Written(p)
  /\ Goto(p, "held")
  /\ attempt' = [attempt EXCEPT ![p] = 0]
  /\ UNCHANGED <<pidOf, foreign, boot>>

\* writeFile or sync throws: the caller gets the error, the file stays.
WriteFails(p) ==
  /\ pc[p] = "write"
  /\ lock' \in {lock, Written(p)}
  /\ Goto(p, "idle")
  /\ UNCHANGED <<attempt, pidOf, foreign, boot>>

\* The file is read and judged; a file that is gone by now is stale too.
Inspect(p) ==
  /\ pc[p] = "inspect"
  /\ IF HeldByLiveProcess(p) THEN Goto(p, "idle") ELSE Goto(p, "unlink")
  /\ UNCHANGED <<lock, attempt, pidOf, foreign, boot>>

\* unlink, errors swallowed, whatever the path names by now; then the second
\* pass, and after it WALLET_DIR_LOCKED.
Unlink(p) ==
  /\ pc[p] = "unlink"
  /\ lock' = NoFile
  /\ IF attempt[p] = 0
       THEN attempt' = [attempt EXCEPT ![p] = 1] /\ Goto(p, "create")
       ELSE UNCHANGED attempt /\ Goto(p, "idle")
  /\ UNCHANGED <<pidOf, foreign, boot>>

\* release reads the file: its pid is this process's, or there is nothing to do.
Release(p) ==
  /\ pc[p] = "held"
  /\ Goto(p, IF lock.made /\ lock.pid = pidOf[p] THEN "release" ELSE "idle")
  /\ UNCHANGED <<lock, attempt, pidOf, foreign, boot>>

ReleaseUnlink(p) ==
  /\ pc[p] = "release"
  /\ lock' = NoFile
  /\ Goto(p, "idle")
  /\ UNCHANGED <<attempt, pidOf, foreign, boot>>

\* A process dies anywhere; its file stays.
Die(p) ==
  /\ pc[p] # "gone"
  /\ Goto(p, "gone")
  /\ attempt' = [attempt EXCEPT ![p] = 0]
  /\ pidOf' = [pidOf EXCEPT ![p] = NoPid]
  /\ UNCHANGED <<lock, foreign, boot>>

\* Another program starts, perhaps with the id of a dead holder, or ends.
ForeignStarts(pid) ==
  /\ pid \notin Alive
  /\ foreign' = foreign \union {pid}
  /\ UNCHANGED <<lock, pc, attempt, pidOf, boot>>

ForeignEnds(pid) ==
  /\ foreign' = foreign \ {pid}
  /\ UNCHANGED <<lock, pc, attempt, pidOf, boot>>

\* The machine restarts: every process is gone, the file is not.
Reboot ==
  /\ boot < MaxBoot
  /\ boot' = boot + 1
  /\ pc' = [p \in Procs |-> "gone"]
  /\ attempt' = [p \in Procs |-> 0]
  /\ pidOf' = [p \in Procs |-> NoPid]
  /\ foreign' = {}
  /\ UNCHANGED lock

Next ==
  \/ \E p \in Procs :
       \/ Acquire(p) \/ Create(p) \/ Write(p) \/ WriteFails(p)
       \/ Inspect(p) \/ Unlink(p) \/ Release(p) \/ ReleaseUnlink(p) \/ Die(p)
       \/ \E pid \in Pids : Spawn(p, pid)
  \/ \E pid \in Pids : ForeignStarts(pid) \/ ForeignEnds(pid)
  \/ Reboot

Spec == Init /\ [][Next]_vars

-----------------------------------------------------------------------------
(* Properties                                                              *)

\* "Throws WALLET_DIR_LOCKED when another live process holds it": the data
\* directory has one live owner, through crashes, reused ids and reboots.
OneHolder == \A p, q \in Procs : pc[p] \in Holding /\ pc[q] \in Holding => p = q

=============================================================================
