--------------------------- MODULE WithdrawProofs ---------------------------
(***************************************************************************)
(* Proofs about Withdraw: when recovery does not overlap with calls or     *)
(* other recoveries, one transaction at most pays a withdrawal, for any    *)
(* number of withdrawals, coins, keys, crashes and lost or edited records. *)
(*                                                                         *)
(* NoDoublePay alone is not inductive: what stops a second transaction is  *)
(* spread over the file, the threads and what a recovery has read.  Pledge *)
(* says that whatever may still pay a withdrawal (a record, a thread, an   *)
(* item read by recovery) agrees with what is already published.           *)
(*                                                                         *)
(* Whatever recovery overlaps with, a withdrawal is booked under the key   *)
(* it was first posted with (KeyInv).                                      *)
(*                                                                         *)
(* When recovery runs alone Withdraw implements PayoutLedger: what was     *)
(* refused is closed for good (RefusalInv).                                *)
(*                                                                         *)
(* The sections of Withdraw exclude each other because they run on opMutex *)
(* (OpMutex), which is a mutex: whoever is inside a section is the head of *)
(* its chain.                                                              *)
(***************************************************************************)
EXTENDS Withdraw, OpMutex, SequenceTheorems, TLAPS

\* Before the signed bytes exist, and while they may go out.
Unsigned == {"post", "process", "wait", "sign", "mark"}
Sending == {"broadcast", "rebroadcast"}

\* A recovery works alone.
Alone == \A t, u \in Threads : Working(t) /\ Working(u) /\ t \in Recoveries => t = u

\* Which thread can be where, and what it is about.
Roles ==
  /\ \A w \in Withdrawals : pc[w] \notin {"next", "drop", "rebroadcast", "clear"}
  /\ \A r \in Recoveries : pc[r] # "done"
  /\ \A r \in Recoveries : todo[r] # {} => Working(r)

\* A withdrawal that was not asked for has left no trace.
Untouched == \A w \in Withdrawals : pc[w] = "idle" => file[w] = NoRecord /\ ~Paid(w)

\* ... and nobody is about to drive it.
Undriven ==
  \A w \in Withdrawals : pc[w] = "idle" =>
    /\ \A t \in Threads : pc[t] \in Busy => job[t] # w
    /\ \A r \in Recoveries, x \in Records : <<w, x>> \notin todo[r]

\* What is published agrees with the record of w.
FileAgrees ==
  \A w \in Withdrawals :
    /\ file[w] = Requested => ~Paid(w)
    /\ \A c, d \in Coins : file[w] = Signed(c) /\ <<w, d>> \in published => c = d

\* Nothing but this transaction can pay w.
Only(w, c) ==
  /\ file[w] \in {NoRecord, Tampered, Signed(c)}
  /\ \A d \in Coins : <<w, d>> \in published => d = c

ThreadsAgree ==
  \A t \in Threads :
    /\ pc[t] \in Unsigned => ~Paid(job[t])
    /\ pc[t] \in Sending => Only(job[t], coin[t])

ItemsAgree ==
  \A r \in Recoveries : \A w \in Withdrawals, x \in Records : <<w, x>> \in todo[r] =>
    /\ x = Requested \/ \E c \in Coins : x = Signed(c)
    /\ x = Requested => ~Paid(w)
    /\ \A c \in Coins : x = Signed(c) => Only(w, c)
    /\ pc[r] \in Busy => job[r] # w
    /\ \A y \in Records : <<w, y>> \in todo[r] => y = x

Pledge == NoDoublePay /\ Alone /\ Roles /\ Untouched /\ Undriven /\ FileAgrees /\ ThreadsAgree /\ ItemsAgree

USE ThreadsAssumption, KeysAssumption, OverlapAssumption, NoneAssumption

\* The records are told apart.
LEMMA RecordFacts ==
  /\ NoRecord # Requested /\ NoRecord # Tampered /\ Requested # Tampered
  /\ \A c \in Coins : Signed(c) \notin {NoRecord, Requested, Tampered} /\ Signed(c).state = "signed" /\ Signed(c).coin = c
  /\ \A c, d \in Coins : Signed(c) = Signed(d) => c = d
  /\ NoRecord.state = "none" /\ Requested.state = "requested" /\ Tampered.state = "tampered"
BY DEF NoRecord, Requested, Tampered, Signed

\* What recovery tells apart by state.
LEMMA RecordStates ==
  \A x \in Records :
    /\ x.state = "requested" => x = Requested
    /\ x.state = "signed" => \E c \in Coins : x = Signed(c) /\ x.coin = c
BY RecordFacts DEF Records

\* Types, and opMutex is held exactly by the thread that is inside its section.
THEOREM TypeCorrect == Spec => []TypeOK
<1>1. Init => TypeOK
  BY DEF Init, TypeOK, Places, Busy, Records, Threads
<1>2. TypeOK /\ [Next]_vars => TypeOK'
  <2> SUFFICES ASSUME TypeOK, [Next]_vars PROVE TypeOK'
    OBVIOUS
  <2> USE DEF TypeOK, Places, Busy, Goto, Finish, PutRecord, RemoveRecord, Records, Threads, server, chain
  <2>1. ASSUME NEW w \in Withdrawals, Request(w) PROVE TypeOK'
    BY <2>1 DEF Request
  <2>2. ASSUME NEW t \in Threads, PostAnswered(t) \/ PostLost(t) \/ PostRetried(t) PROVE TypeOK'
    BY <2>2 DEF PostAnswered, PostLost, PostRetried, Book
  <2>3. ASSUME NEW t \in Threads, PostRejected(t) \/ PostTurnedAway(t) \/ Validate(t) \/ Check(t) PROVE TypeOK'
    BY <2>3 DEF PostRejected, PostTurnedAway, GiveUp, Validate, Check
  <2>4. ASSUME NEW t \in Threads, Sandbox(t) \/ Remove(t) PROVE TypeOK'
    BY <2>4 DEF Sandbox, Remove
  <2>5. ASSUME NEW t \in Threads, Enter(t) \/ RefuseInside(t) PROVE TypeOK'
    BY <2>5 DEF Enter, RefuseInside
  <2>6. ASSUME NEW t \in Threads, Sign(t) PROVE TypeOK'
    BY <2>6 DEF Sign
  <2>7. ASSUME NEW t \in Threads, MarkSigned(t) PROVE TypeOK'
    BY <2>7 DEF MarkSigned
  <2>8. ASSUME NEW t \in Threads, Broadcast(t) \/ BroadcastFails(t) PROVE TypeOK'
    <3>1. <<job[t], coin[t]>> \in Withdrawals \X Coins
      BY <2>8 DEF Broadcast, BroadcastFails
    <3>2. published' \subseteq Withdrawals \X Coins
      BY <2>8, <3>1 DEF Broadcast, BroadcastFails, Publish
    <3>3. CASE Broadcast(t)
      BY <3>2, <3>3 DEF Broadcast
    <3>4. CASE BroadcastFails(t)
      BY <3>2, <3>4 DEF BroadcastFails
    <3> QED
      BY <2>8, <3>3, <3>4
  <2>9. ASSUME NEW t \in Threads, Discard(t) PROVE TypeOK'
    BY <2>9 DEF Discard
  <2>10. ASSUME NEW r \in Recoveries, Recover(r) PROVE TypeOK'
    <3>1. todo' \in [Recoveries -> SUBSET (Withdrawals \X Records)]
      <4> DEFINE read == {<<w, file[w]>> : w \in {v \in Withdrawals : file[v].state \in {"requested", "signed"}}}
      <4>1. read \subseteq Withdrawals \X Records
        OBVIOUS
      <4>2. todo' = [todo EXCEPT ![r] = read]
        BY <2>10 DEF Recover
      <4> HIDE DEF read
      <4> QED
        BY <4>1, <4>2
    <3> QED
      BY <2>10, <3>1 DEF Recover
  <2>11. ASSUME NEW r \in Recoveries, TakeSigned(r) \/ TakeRequested(r) PROVE TypeOK'
    <3>1. CASE TakeSigned(r)
      <4>1. PICK item \in todo[r] :
              /\ item[2].state = "signed"
              /\ todo' = [todo EXCEPT ![r] = @ \ {item}]
              /\ job' = [job EXCEPT ![r] = item[1]]
              /\ coin' = [coin EXCEPT ![r] = item[2].coin]
        BY <3>1 DEF TakeSigned
      <4>2. item[1] \in Withdrawals /\ item[2].coin \in Coins
        BY <4>1, RecordStates, RecordFacts
      <4> QED
        BY <3>1, <4>1, <4>2 DEF TakeSigned
    <3>2. CASE TakeRequested(r)
      <4>1. PICK item \in todo[r] :
              /\ todo' = [todo EXCEPT ![r] = @ \ {item}]
              /\ job' = [job EXCEPT ![r] = item[1]]
              /\ under' = [under EXCEPT ![r] = active]
              /\ Goto(r, IF Replays(item[1]) THEN "post" ELSE "next")
        BY <3>2 DEF TakeRequested
      <4>2. item[1] \in Withdrawals
        BY <4>1
      <4> QED
        BY <3>2, <4>1, <4>2 DEF TakeRequested, Replays
    <3> QED
      BY <2>11, <3>1, <3>2
  <2>12. ASSUME NEW r \in Recoveries, Drop(r) \/ Clear(r) \/ RecoverEnds(r) PROVE TypeOK'
    BY <2>12 DEF Drop, Clear, RecoverEnds
  <2>13. CASE Sync \/ SwitchKey
    BY <2>13 DEF Sync, SwitchKey
  <2>14. CASE Crash
    BY <2>14 DEF Crash
  <2>15. CASE FileChanges
    BY <2>15 DEF FileChanges
  <2>16. CASE UNCHANGED vars
    BY <2>16 DEF vars
  <2> QED
    BY <2>1, <2>2, <2>3, <2>4, <2>5, <2>6, <2>7, <2>8, <2>9, <2>10, <2>11, <2>12, <2>13, <2>14, <2>15, <2>16 DEF Next
<1> QED
  BY <1>1, <1>2, PTL DEF Spec

\* No record appears: the file keeps it, loses it or has it spoiled.
RecordsOnlyGo ==
  \A w \in Withdrawals :
    file'[w] = file[w] \/ file'[w] = NoRecord \/ (file'[w] = Tampered /\ file[w] # NoRecord)

LEMMA OnlyStays ==
  ASSUME RecordsOnlyGo, published' = published, NEW w \in Withdrawals, NEW c \in Coins, Only(w, c)
  PROVE  Only(w, c)'
BY RecordFacts DEF RecordsOnlyGo, Only

\* A step of thread t that publishes nothing, puts no record in the file and
\* brings no one closer to sending keeps the pledge.
LEMMA QuietStep ==
  ASSUME TypeOK, Pledge, NEW t \in Threads, NEW place \in Places,
         pc[t] \in Busy, pc' = [pc EXCEPT ![t] = place],
         place \in Unsigned => pc[t] \in Unsigned,
         place \notin Sending \union {"idle"},
         t \in Withdrawals => place \notin {"next", "drop", "clear"},
         t \in Recoveries => place # "done",
         published' = published, job' = job, todo' = todo,
         \A u \in Threads \ {t} : coin'[u] = coin[u],
         RecordsOnlyGo
  PROVE  Pledge'
<1>1. \A u \in Threads : pc'[u] = IF u = t THEN place ELSE pc[u]
  BY DEF TypeOK
<1>2. Withdrawals \subseteq Threads /\ Recoveries \subseteq Threads /\ \A w \in Withdrawals : w \notin Recoveries
  BY DEF Threads
<1> USE DEF Pledge
<1>3. NoDoublePay'
  BY DEF NoDoublePay
<1>4. Alone'
  BY <1>1 DEF Alone, Working
<1>5. Roles'
  BY <1>1, <1>2 DEF Roles, Working, Sending, Places
<1>6. Untouched'
  BY <1>1, <1>2, RecordFacts DEF Untouched, Paid, RecordsOnlyGo
<1>7. FileAgrees'
  BY RecordFacts DEF FileAgrees, Paid, RecordsOnlyGo
<1>8. ThreadsAgree'
  <2> SUFFICES ASSUME NEW u \in Threads
               PROVE  /\ pc'[u] \in Unsigned => ~Paid(job[u])'
                      /\ pc'[u] \in Sending => Only(job[u], coin[u])'
    BY DEF ThreadsAgree
  <2>1. pc'[u] \in Unsigned => ~Paid(job[u])'
    BY <1>1 DEF ThreadsAgree, Paid
  <2>2. ASSUME pc'[u] \in Sending PROVE Only(job[u], coin[u])'
    <3>1. u # t /\ pc[u] \in Sending /\ coin'[u] = coin[u]
      BY <1>1, <2>2
    <3>2. Only(job[u], coin[u]) /\ job[u] \in Withdrawals /\ coin[u] \in Coins
      BY <3>1 DEF ThreadsAgree, TypeOK, Sending, Busy
    <3>3. Only(job[u], coin[u])' = (file'[job[u]] \in {NoRecord, Tampered, Signed(coin[u])} /\ \A d \in Coins : <<job[u], d>> \in published' => d = coin[u])
      BY <3>1 DEF Only
    <3> QED
      BY <3>2, <3>3, RecordFacts DEF Only, RecordsOnlyGo
  <2> QED
    BY <2>1, <2>2
<1>9. ItemsAgree'
  BY <1>1, <1>2, OnlyStays DEF ItemsAgree, Paid
<1>10. Undriven'
  BY <1>1, <1>2 DEF Undriven
<1> QED
  BY <1>3, <1>4, <1>5, <1>6, <1>7, <1>8, <1>9, <1>10

\* A step that moves no thread, publishes nothing and puts no record in the file.
LEMMA IdleStep ==
  ASSUME TypeOK, Pledge, UNCHANGED <<pc, job, coin, todo, published>>,
         RecordsOnlyGo
  PROVE  Pledge'
<1> USE DEF Pledge
<1>1. NoDoublePay' /\ Alone' /\ Roles' /\ Undriven'
  BY DEF NoDoublePay, Alone, Roles, Working, Undriven
<1>2. Untouched' /\ FileAgrees'
  BY RecordFacts DEF Untouched, FileAgrees, Paid, RecordsOnlyGo
<1>3. ThreadsAgree'
  BY RecordFacts DEF ThreadsAgree, TypeOK, Sending, Busy, Paid, Only, RecordsOnlyGo
<1>4. ItemsAgree'
  BY OnlyStays DEF ItemsAgree, Paid
<1> QED
  BY <1>1, <1>2, <1>3, <1>4

\* A withdrawal is requested: nothing else is about it, for no recovery is at work.
LEMMA RequestKeeps ==
  ASSUME ~Overlap, TypeOK, Pledge, NEW w \in Withdrawals, Request(w)
  PROVE  Pledge'
<1> USE DEF Pledge
<1>1. /\ \A u \in Threads : pc'[u] = IF u = w THEN "post" ELSE pc[u]
      /\ \A v \in Withdrawals : file'[v] = IF v = w THEN Requested ELSE file[v]
      /\ UNCHANGED <<published, job, coin, todo>>
      /\ \A r \in Recoveries : ~Working(r) /\ todo[r] = {}
      /\ pc[w] = "idle" /\ ~Paid(w)
  BY DEF Request, Goto, PutRecord, TypeOK, Threads, chain, Roles, Untouched
<1>2. Withdrawals \subseteq Threads /\ Recoveries \subseteq Threads /\ \A v \in Withdrawals : v \notin Recoveries
  BY DEF Threads
<1>3. NoDoublePay'
  BY <1>1 DEF NoDoublePay
<1>4. Alone' /\ Roles'
  BY <1>1, <1>2 DEF Alone, Roles, Working
<1>5. Untouched' /\ FileAgrees'
  BY <1>1, <1>2, RecordFacts DEF Untouched, FileAgrees, Paid
<1>6. ThreadsAgree'
  <2> SUFFICES ASSUME NEW u \in Threads
               PROVE  /\ pc'[u] \in Unsigned => ~Paid(job[u])'
                      /\ pc'[u] \in Sending => Only(job[u], coin[u])'
    BY DEF ThreadsAgree
  <2>1. CASE u = w
    BY <1>1, <2>1 DEF TypeOK, Paid, Sending
  <2>2. CASE u # w
    <3>1. pc[u] \in Busy => job[u] # w
      BY <1>1, <1>2, <2>2 DEF TypeOK, Threads, Working
    <3>2. pc'[u] \in Unsigned => ~Paid(job[u])'
      BY <1>1, <2>2 DEF ThreadsAgree, Paid
    <3>3. ASSUME pc[u] \in Sending PROVE Only(job[u], coin[u])'
      BY <1>1, <2>2, <3>1, <3>3 DEF ThreadsAgree, Only, Sending, Busy, TypeOK
    <3> QED
      BY <1>1, <2>2, <3>2, <3>3
  <2> QED
    BY <2>1, <2>2
<1>7. ItemsAgree'
  BY <1>1 DEF ItemsAgree
<1>8. Undriven'
  BY <1>1, <1>2 DEF Undriven, TypeOK, Threads, Working
<1> QED
  BY <1>3, <1>4, <1>5, <1>6, <1>7, <1>8

\* A thread at work shares its withdrawal with no other thread and no item.
LEMMA WorksAlone ==
  ASSUME TypeOK, Pledge, NEW t \in Threads, pc[t] \in Busy
  PROVE  /\ \A u \in Threads \ {t} : pc[u] \in Busy => job[u] # job[t]
         /\ \A r \in Recoveries, x \in Records : <<job[t], x>> \notin todo[r]
<1> USE DEF Pledge
<1>1. \A u \in Threads \ {t} : pc[u] \in Busy => job[u] # job[t]
  BY DEF TypeOK, Threads, Alone, Working
<1>2. ASSUME NEW r \in Recoveries, NEW x \in Records, <<job[t], x>> \in todo[r] PROVE FALSE
  <2>1. Working(r) /\ Working(t) /\ r \in Threads
    BY <1>2 DEF Roles, Working, Threads
  <2>2. r = t
    BY <2>1 DEF Alone
  <2> QED
    BY <1>2, <2>2 DEF ItemsAgree, TypeOK
<1> QED
  BY <1>1, <1>2

\* The signed bytes go into the record: they are the only ones there are.
LEMMA MarkSignedKeeps ==
  ASSUME TypeOK, Pledge, NEW t \in Threads, MarkSigned(t)
  PROVE  Pledge'
<1> USE DEF Pledge
<1> DEFINE w == job[t]
<1>1. /\ \A u \in Threads : pc'[u] = IF u = t THEN "broadcast" ELSE pc[u]
      /\ \A v \in Withdrawals \ {w} : file'[v] = file[v]
      /\ UNCHANGED <<published, job, coin, todo>>
      /\ pc[t] = "mark" /\ w \in Withdrawals /\ coin[t] \in Coins /\ ~Paid(w)
      /\ file'[w] \in {NoRecord, Signed(coin[t])}
      /\ file[w] = NoRecord => file'[w] = NoRecord
  BY DEF MarkSigned, Goto, PutRecord, TypeOK, Busy, chain, ThreadsAgree, Unsigned
<1>2. Withdrawals \subseteq Threads /\ Recoveries \subseteq Threads /\ \A v \in Withdrawals : v \notin Recoveries
  BY DEF Threads
<1>3. /\ \A u \in Threads \ {t} : pc[u] \in Busy => job[u] # w
      /\ \A r \in Recoveries, x \in Records : <<w, x>> \notin todo[r]
  BY <1>1, WorksAlone DEF Busy
<1> HIDE DEF w
<1>4. NoDoublePay'
  BY <1>1 DEF NoDoublePay
<1>5. Alone' /\ Roles'
  BY <1>1, <1>2 DEF Alone, Roles, Working, Busy
<1>6. Untouched' /\ FileAgrees'
  BY <1>1, <1>2, RecordFacts DEF Untouched, FileAgrees, Paid
<1>7. ThreadsAgree'
  <2> SUFFICES ASSUME NEW u \in Threads
               PROVE  /\ pc'[u] \in Unsigned => ~Paid(job[u])'
                      /\ pc'[u] \in Sending => Only(job[u], coin[u])'
    BY DEF ThreadsAgree
  <2>1. CASE u = t
    BY <1>1, <2>1 DEF Paid, Sending, Unsigned, Only, w
  <2>2. CASE u # t
    <3>2. pc'[u] \in Unsigned => ~Paid(job[u])'
      BY <1>1, <2>2 DEF ThreadsAgree, Paid
    <3>3. ASSUME pc[u] \in Sending PROVE Only(job[u], coin[u])'
      BY <1>1, <1>3, <2>2, <3>3 DEF ThreadsAgree, Only, Sending, Busy, TypeOK
    <3> QED
      BY <1>1, <2>2, <3>2, <3>3
  <2> QED
    BY <2>1, <2>2
<1>8. ItemsAgree'
  <2>1. \A r \in Recoveries, v \in Withdrawals, x \in Records : <<v, x>> \in todo[r] => v # w
    BY <1>3
  <2>2. \A v \in Withdrawals, c \in Coins : v # w /\ Only(v, c) => Only(v, c)'
    BY <1>1 DEF Only
  <2>3. \A r \in Recoveries : pc'[r] \in Busy => pc[r] \in Busy
    BY <1>1, <1>2 DEF Busy
  <2> QED
    BY <1>1, <2>1, <2>2, <2>3 DEF ItemsAgree, Paid
<1>9. Undriven'
  BY <1>1, <1>2 DEF Undriven, Busy
<1> QED
  BY <1>4, <1>5, <1>6, <1>7, <1>8, <1>9

\* A broadcast, whether it succeeds or not, publishes the only transaction
\* there is for its withdrawal.
LEMMA BroadcastKeeps ==
  ASSUME TypeOK, Pledge, NEW t \in Threads, Broadcast(t) \/ BroadcastFails(t)
  PROVE  Pledge'
<1> USE DEF Pledge
<1> DEFINE w == job[t]
<1>1. /\ pc[t] \in Sending
      /\ \E place \in {"remove", "clear", "check", "next"} :
           /\ \A u \in Threads : pc'[u] = IF u = t THEN place ELSE pc[u]
           /\ t \in Withdrawals => place \in {"remove", "check"}
      /\ published' \in {published, published \union {<<w, coin[t]>>}}
      /\ UNCHANGED <<file, job, coin, todo>>
  BY DEF Broadcast, BroadcastFails, Publish, Goto, TypeOK, Sending, Roles
<1>2. Withdrawals \subseteq Threads /\ Recoveries \subseteq Threads /\ \A v \in Withdrawals : v \notin Recoveries
  BY DEF Threads
<1>3. /\ \A u \in Threads \ {t} : pc[u] \in Busy => job[u] # w
      /\ \A r \in Recoveries, x \in Records : <<w, x>> \notin todo[r]
  BY <1>1, WorksAlone DEF Busy, Sending
<1>4. w \in Withdrawals /\ coin[t] \in Coins /\ Only(w, coin[t])
  BY <1>1 DEF TypeOK, ThreadsAgree, Sending, Busy
<1>5. \A v \in Withdrawals \ {w}, c \in Coins : <<v, c>> \in published' <=> <<v, c>> \in published
  BY <1>1
<1>6. \A c \in Coins : <<w, c>> \in published' => c = coin[t]
  BY <1>1, <1>4 DEF Only
<1>7. \A v \in Withdrawals \ {w} : /\ Paid(v)' <=> Paid(v)
                                  /\ \A c \in Coins : Only(v, c) => Only(v, c)'
  BY <1>1, <1>5 DEF Paid, Only
<1>8. pc[t] # "idle" /\ file[w] # Requested
  BY <1>1, <1>4, RecordFacts DEF Sending, Only
<1>9. \A u \in Threads :
        (u # t /\ pc'[u] = pc[u]) \/ (u = t /\ pc'[u] \notin Unsigned \union Sending \union {"idle"})
  <2>1. PICK place \in {"remove", "clear", "check", "next"} :
          \A u \in Threads : pc'[u] = IF u = t THEN place ELSE pc[u]
    BY <1>1
  <2>2. place \notin Unsigned \union Sending \union {"idle"}
    BY DEF Unsigned, Sending
  <2>3. pc'[t] \notin Unsigned \union Sending \union {"idle"}
    BY <2>1, <2>2
  <2>4. \A u \in Threads : u # t => pc'[u] = pc[u]
    BY <2>1
  <2> QED
    BY <2>3, <2>4
<1> HIDE DEF w
<1>10. NoDoublePay'
  BY <1>5, <1>6 DEF NoDoublePay
<1>11. Alone' /\ Roles'
  BY <1>1, <1>2 DEF Alone, Roles, Working, Busy, Sending
<1>12. \A v \in Withdrawals : pc'[v] = "idle" => v # t /\ pc[v] = "idle" /\ v # w
  BY <1>1, <1>2, <1>9 DEF Undriven, w, Sending, Busy
<1>13. Untouched' /\ FileAgrees'
  <2>1. Untouched'
    BY <1>1, <1>7, <1>12 DEF Untouched
  <2>2. \A v \in Withdrawals \ {w} :
          /\ file'[v] = Requested => ~Paid(v)'
          /\ \A c, d \in Coins : file'[v] = Signed(c) /\ <<v, d>> \in published' => c = d
    BY <1>1, <1>5, <1>7 DEF FileAgrees
  <2>3. \A c, d \in Coins : file'[w] = Signed(c) /\ <<w, d>> \in published' => c = d
    BY <1>1, <1>4, <1>6, RecordFacts DEF Only
  <2> QED
    BY <1>1, <1>8, <2>1, <2>2, <2>3 DEF FileAgrees
<1>14. Undriven'
  BY <1>1, <1>2, <1>9, <1>12 DEF Undriven, Sending, Busy
<1>15. ThreadsAgree'
  <2> SUFFICES ASSUME NEW u \in Threads
               PROVE  /\ pc'[u] \in Unsigned => ~Paid(job[u])'
                      /\ pc'[u] \in Sending => Only(job[u], coin[u])'
    BY DEF ThreadsAgree
  <2>1. CASE u = t
    BY <1>9, <2>1
  <2>2. CASE u # t
    <3>1. pc'[u] = pc[u] /\ job'[u] = job[u] /\ coin'[u] = coin[u]
      BY <1>1, <1>9, <2>2
    <3>2. ASSUME pc[u] \in Unsigned PROVE ~Paid(job[u])'
      <4>1. job[u] \in Withdrawals \ {w} /\ ~Paid(job[u])
        BY <1>3, <2>2, <3>2 DEF TypeOK, Unsigned, Busy, ThreadsAgree
      <4> QED
        BY <1>5, <3>1, <4>1 DEF Paid
    <3>3. ASSUME pc[u] \in Sending PROVE Only(job[u], coin[u])'
      <4>1. job[u] \in Withdrawals \ {w} /\ coin[u] \in Coins /\ Only(job[u], coin[u])
        BY <1>3, <2>2, <3>3 DEF TypeOK, Sending, Busy, ThreadsAgree
      <4> QED
        BY <1>1, <1>5, <3>1, <4>1 DEF Only
    <3> QED
      BY <3>1, <3>2, <3>3
  <2> QED
    BY <2>1, <2>2
<1>16. ItemsAgree'
  <2>1. \A r \in Recoveries, v \in Withdrawals, x \in Records : <<v, x>> \in todo[r] => v # w
    BY <1>3
  <2>2. \A r \in Recoveries : pc'[r] \in Busy => pc[r] \in Busy
    BY <1>1, <1>2 DEF Busy, Sending
  <2> QED
    BY <1>1, <1>7, <2>1, <2>2 DEF ItemsAgree
<1> QED
  BY <1>10, <1>11, <1>13, <1>14, <1>15, <1>16

\* Reading the file: each record becomes an item, and nothing else is at work.
LEMMA RecoverKeeps ==
  ASSUME ~Overlap, TypeOK, Pledge, NEW r \in Recoveries, Recover(r)
  PROVE  Pledge'
<1> USE DEF Pledge
<1>1. /\ \A u \in Threads : pc'[u] = IF u = r THEN "next" ELSE pc[u]
      /\ \A u \in Threads : ~Working(u)
      /\ \A q \in Recoveries \ {r} : todo'[q] = {}
      /\ UNCHANGED <<published, job, coin>>
      /\ \A w \in Withdrawals : file'[w] = IF file[w] = Tampered THEN NoRecord ELSE file[w]
  BY DEF Recover, Goto, TypeOK, Threads, chain, Roles
<1>2. \A w \in Withdrawals, x \in Records : <<w, x>> \in todo'[r] =>
        x = file[w] /\ x.state \in {"requested", "signed"}
  BY DEF Recover, TypeOK
<1>3. Withdrawals \subseteq Threads /\ Recoveries \subseteq Threads /\ \A v \in Withdrawals : v \notin Recoveries
  BY DEF Threads
<1>4. NoDoublePay'
  BY <1>1 DEF NoDoublePay
<1>5. Alone' /\ Roles'
  BY <1>1, <1>3 DEF Alone, Roles, Working, Busy
<1>6. Untouched' /\ FileAgrees'
  BY <1>1, <1>3, RecordFacts DEF Untouched, FileAgrees, Paid
<1>7. \A u \in Threads : pc'[u] \notin Busy
  BY <1>1 DEF Working, Busy
<1>8. ThreadsAgree'
  BY <1>7 DEF ThreadsAgree, Unsigned, Sending, Busy
<1>9. Undriven'
  <2>1. \A w \in Withdrawals, x \in Records : pc[w] = "idle" => <<w, x>> \notin todo'[r]
    BY <1>2, RecordFacts DEF Untouched
  <2> QED
    BY <1>1, <1>3, <1>7, <2>1 DEF Undriven
<1>10. ItemsAgree'
  <2> SUFFICES ASSUME NEW w \in Withdrawals, NEW x \in Records, <<w, x>> \in todo'[r]
               PROVE  /\ x = Requested \/ \E c \in Coins : x = Signed(c)
                      /\ x = Requested => ~Paid(w)'
                      /\ \A c \in Coins : x = Signed(c) => Only(w, c)'
                      /\ \A y \in Records : <<w, y>> \in todo'[r] => y = x
    BY <1>1, <1>3, <1>7 DEF ItemsAgree
  <2>1. x = file[w] /\ (x = Requested \/ \E c \in Coins : x = Signed(c))
    BY <1>2, RecordStates
  <2>2. file'[w] = x
    BY <1>1, <2>1, RecordFacts
  <2>3. x = Requested => ~Paid(w)'
    BY <1>1, <2>1 DEF FileAgrees, Paid
  <2>4. \A c \in Coins : x = Signed(c) => Only(w, c)'
    BY <1>1, <2>1, <2>2 DEF FileAgrees, Only
  <2> QED
    BY <1>2, <2>1, <2>3, <2>4
<1> QED
  BY <1>4, <1>5, <1>6, <1>8, <1>9, <1>10

\* An item is taken up: the thread now stands where the item stood.
LEMMA TakeKeeps ==
  ASSUME TypeOK, Pledge, NEW r \in Recoveries, TakeSigned(r) \/ TakeRequested(r)
  PROVE  Pledge'
<1> USE DEF Pledge
<1>1. PICK w \in Withdrawals, x \in Records, place \in {"rebroadcast", "post", "next"} :
        /\ <<w, x>> \in todo[r] /\ pc[r] = "next"
        /\ todo' = [todo EXCEPT ![r] = @ \ {<<w, x>>}]
        /\ job' = [job EXCEPT ![r] = w]
        /\ pc' = [pc EXCEPT ![r] = place]
        /\ place = "rebroadcast" => \E c \in Coins : x = Signed(c) /\ coin' = [coin EXCEPT ![r] = c]
        /\ place # "rebroadcast" => coin' = coin
        /\ place = "post" => x = Requested
        /\ UNCHANGED <<file, published>>
  <2>1. CASE TakeSigned(r)
    <3>1. PICK item \in todo[r] :
            /\ item[2].state = "signed"
            /\ todo' = [todo EXCEPT ![r] = @ \ {item}]
            /\ job' = [job EXCEPT ![r] = item[1]]
            /\ coin' = [coin EXCEPT ![r] = item[2].coin]
            /\ Goto(r, "rebroadcast")
      BY <2>1 DEF TakeSigned
    <3>2. item[1] \in Withdrawals /\ item[2] \in Records /\ item = <<item[1], item[2]>>
      BY <3>1 DEF TypeOK
    <3>3. PICK c \in Coins : item[2] = Signed(c) /\ item[2].coin = c
      BY <3>1, <3>2, RecordStates
    <3>4. pc[r] = "next" /\ pc' = [pc EXCEPT ![r] = "rebroadcast"] /\ UNCHANGED <<file, published>>
      BY <2>1, <3>1 DEF TakeSigned, Goto, chain
    <3> QED
      BY <3>1, <3>2, <3>3, <3>4
  <2>2. CASE TakeRequested(r)
    <3>1. PICK item \in todo[r] :
            /\ item[2].state = "requested"
            /\ todo' = [todo EXCEPT ![r] = @ \ {item}]
            /\ job' = [job EXCEPT ![r] = item[1]]
            /\ Goto(r, IF Replays(item[1]) THEN "post" ELSE "next")
      BY <2>2 DEF TakeRequested
    <3>2. item[1] \in Withdrawals /\ item[2] \in Records /\ item = <<item[1], item[2]>>
      BY <3>1 DEF TypeOK
    <3>3. item[2] = Requested
      BY <3>1, <3>2, RecordStates
    <3>4. pc[r] = "next" /\ UNCHANGED <<file, published, coin>>
      BY <2>2 DEF TakeRequested, chain
    <3>5. PICK place \in {"post", "next"} : pc' = [pc EXCEPT ![r] = place]
      BY <3>1 DEF Goto
    <3> QED
      BY <3>1, <3>2, <3>3, <3>4, <3>5
  <2> QED
    BY <2>1, <2>2
<1>2. Withdrawals \subseteq Threads /\ Recoveries \subseteq Threads /\ \A v \in Withdrawals : v \notin Recoveries
  BY DEF Threads
<1>3. /\ \A u \in Threads : pc'[u] = IF u = r THEN place ELSE pc[u]
      /\ \A u \in Threads \ {r} : job'[u] = job[u] /\ coin'[u] = coin[u]
      /\ \A q \in Recoveries \ {r} : todo'[q] = todo[q]
      /\ todo'[r] = todo[r] \ {<<w, x>>}
      /\ job'[r] = w
  BY <1>1, <1>2 DEF TypeOK
<1>4. Working(r)
  BY <1>1 DEF Working
<1>5. NoDoublePay'
  BY <1>1 DEF NoDoublePay
<1>6. Alone'
  BY <1>2, <1>3, <1>4 DEF Alone, Working
<1>7. Roles'
  BY <1>1, <1>2, <1>3, <1>4 DEF Roles, Working, Busy
<1>8. Untouched' /\ FileAgrees'
  BY <1>1, <1>2, <1>3 DEF Untouched, FileAgrees, Paid
<1>9. Undriven'
  BY <1>1, <1>2, <1>3 DEF Undriven
<1>10. ThreadsAgree'
  <2> SUFFICES ASSUME NEW u \in Threads
               PROVE  /\ pc'[u] \in Unsigned => ~Paid(job[u])'
                      /\ pc'[u] \in Sending => Only(job[u], coin[u])'
    BY DEF ThreadsAgree
  <2>1. CASE u # r
    BY <1>1, <1>3, <2>1 DEF ThreadsAgree, Paid, Only
  <2>2. CASE u = r /\ place = "rebroadcast"
    <3>1. PICK c \in Coins : x = Signed(c) /\ coin'[r] = c
      BY <1>1, <1>2, <2>2 DEF TypeOK
    <3>2. Only(w, c)
      BY <1>1, <3>1 DEF ItemsAgree
    <3> QED
      BY <1>1, <1>3, <2>2, <3>1, <3>2 DEF Only, Unsigned
  <2>3. CASE u = r /\ place = "post"
    <3>1. ~Paid(w)
      BY <1>1, <2>3 DEF ItemsAgree
    <3> QED
      BY <1>1, <1>3, <2>3, <3>1 DEF Paid, Sending
  <2>4. CASE u = r /\ place = "next"
    BY <1>3, <2>4 DEF Unsigned, Sending
  <2> QED
    BY <2>1, <2>2, <2>3, <2>4
<1>11. ItemsAgree'
  <2>1. \A v \in Withdrawals, y \in Records : <<v, y>> \in todo'[r] => v # w /\ <<v, y>> \in todo[r]
    BY <1>1, <1>3 DEF ItemsAgree
  <2> QED
    BY <1>1, <1>2, <1>3, <2>1 DEF ItemsAgree, Paid, Only
<1> QED
  BY <1>5, <1>6, <1>7, <1>8, <1>9, <1>10, <1>11

\* After a crash no one is at work, and what is in the file still agrees.
LEMMA CrashKeeps ==
  ASSUME TypeOK, Pledge, Crash
  PROVE  Pledge'
<1> USE DEF Pledge
<1>1. /\ \A u \in Threads : pc'[u] \in {"idle", "done"}
      /\ \A w \in Withdrawals : pc'[w] = "idle" => pc[w] = "idle"
      /\ \A r \in Recoveries : pc'[r] = "idle" /\ todo'[r] = {}
      /\ UNCHANGED <<file, published, job, coin>>
  BY DEF Crash, Threads
<1>2. Withdrawals \subseteq Threads /\ Recoveries \subseteq Threads
  BY DEF Threads
<1>3. NoDoublePay' /\ Alone' /\ Roles'
  BY <1>1, <1>2 DEF NoDoublePay, Alone, Roles, Working, Busy
<1>4. Untouched' /\ FileAgrees'
  BY <1>1 DEF Untouched, FileAgrees, Paid
<1>5. Undriven' /\ ThreadsAgree' /\ ItemsAgree'
  BY <1>1, <1>2 DEF Undriven, ThreadsAgree, ItemsAgree, Unsigned, Sending, Busy
<1> QED
  BY <1>3, <1>4, <1>5

\* A recovery that is done goes idle.
LEMMA RecoverEndsKeeps ==
  ASSUME TypeOK, Pledge, NEW r \in Recoveries, RecoverEnds(r)
  PROVE  Pledge'
<1> USE DEF Pledge
<1>1. /\ \A u \in Threads : pc'[u] = IF u = r THEN "idle" ELSE pc[u]
      /\ todo[r] = {}
      /\ UNCHANGED <<file, published, job, coin, todo>>
  BY DEF RecoverEnds, TypeOK, chain
<1>2. Withdrawals \subseteq Threads /\ Recoveries \subseteq Threads /\ \A v \in Withdrawals : v \notin Recoveries
  BY DEF Threads
<1>3. NoDoublePay' /\ Alone' /\ Roles'
  BY <1>1, <1>2 DEF NoDoublePay, Alone, Roles, Working, Busy
<1>4. Untouched' /\ FileAgrees' /\ Undriven'
  BY <1>1, <1>2 DEF Untouched, FileAgrees, Undriven, Paid, Busy
<1>5. ThreadsAgree'
  BY <1>1 DEF ThreadsAgree, Paid, Only, Unsigned, Sending
<1>6. ItemsAgree'
  BY <1>1, <1>2 DEF ItemsAgree, Paid, Only, Busy
<1> QED
  BY <1>3, <1>4, <1>5, <1>6

\* Every step keeps the pledge, when a recovery works alone.
LEMMA PledgeInvariance == ASSUME ~Overlap PROVE Spec => []Pledge
<1>1. Init => Pledge
  <2> SUFFICES ASSUME Init PROVE Pledge
    OBVIOUS
  <2>1. /\ \A t \in Threads : pc[t] = "idle"
        /\ \A w \in Withdrawals : file[w] = NoRecord
        /\ \A r \in Recoveries : todo[r] = {}
        /\ published = {}
    BY DEF Init
  <2>2. Withdrawals \subseteq Threads /\ Recoveries \subseteq Threads
    BY DEF Threads
  <2> QED
    BY <2>1, <2>2, RecordFacts DEF Pledge, NoDoublePay, Alone, Roles, Untouched, Undriven, FileAgrees,
       ThreadsAgree, ItemsAgree, Working, Busy, Unsigned, Sending, Paid
<1>2. Pledge /\ TypeOK /\ [Next]_vars => Pledge'
  <2> SUFFICES ASSUME Pledge, TypeOK, [Next]_vars PROVE Pledge'
    OBVIOUS
  <2>1. ASSUME NEW w \in Withdrawals, Request(w) PROVE Pledge'
    BY <2>1, RequestKeeps
  <2>2. ASSUME NEW t \in Threads, PostAnswered(t) \/ PostLost(t) PROVE Pledge'
    <3>1. PICK place \in Places :
            /\ pc[t] \in Busy /\ pc' = [pc EXCEPT ![t] = place]
            /\ place \in Unsigned => pc[t] \in Unsigned
            /\ place \notin Sending \union {"idle"}
            /\ t \in Withdrawals => place \notin {"next", "drop", "clear"}
            /\ t \in Recoveries => place # "done"
      BY <2>2 DEF PostAnswered, PostLost, Goto, Finish, chain, Places, Busy, Unsigned, Sending
    <3>2. UNCHANGED <<published, job, todo>> /\ \A u \in Threads \ {t} : coin'[u] = coin[u]
      BY <2>2 DEF PostAnswered, PostLost, chain, TypeOK
    <3>3. RecordsOnlyGo
      BY <2>2 DEF PostAnswered, PostLost, RecordsOnlyGo, RemoveRecord, TypeOK
    <3> QED
      BY <3>1, <3>2, <3>3, QuietStep
  <2>3. ASSUME NEW t \in Threads, PostRejected(t) \/ PostTurnedAway(t) \/ Validate(t) \/ Check(t) PROVE Pledge'
    <3>1. PICK place \in Places :
            /\ pc[t] \in Busy /\ pc' = [pc EXCEPT ![t] = place]
            /\ place \in Unsigned => pc[t] \in Unsigned
            /\ place \notin Sending \union {"idle"}
            /\ t \in Withdrawals => place \notin {"next", "drop", "clear"}
            /\ t \in Recoveries => place # "done"
      BY <2>3 DEF PostRejected, PostTurnedAway, GiveUp, Validate, Check, Goto, Finish, chain, Places, Busy, Unsigned, Sending
    <3>2. UNCHANGED <<published, job, todo>> /\ \A u \in Threads \ {t} : coin'[u] = coin[u]
      BY <2>3 DEF PostRejected, PostTurnedAway, GiveUp, Validate, Check, chain, TypeOK
    <3>3. RecordsOnlyGo
      BY <2>3 DEF PostRejected, PostTurnedAway, GiveUp, Validate, Check, RecordsOnlyGo, RemoveRecord, TypeOK
    <3> QED
      BY <3>1, <3>2, <3>3, QuietStep
  <2>4. ASSUME NEW t \in Threads, Sandbox(t) \/ Remove(t) PROVE Pledge'
    <3>1. PICK place \in Places :
            /\ pc[t] \in Busy /\ pc' = [pc EXCEPT ![t] = place]
            /\ place \in Unsigned => pc[t] \in Unsigned
            /\ place \notin Sending \union {"idle"}
            /\ t \in Withdrawals => place \notin {"next", "drop", "clear"}
            /\ t \in Recoveries => place # "done"
      BY <2>4 DEF Sandbox, Remove, Goto, Finish, chain, Places, Busy, Unsigned, Sending
    <3>2. UNCHANGED <<published, job, todo>> /\ \A u \in Threads \ {t} : coin'[u] = coin[u]
      BY <2>4 DEF Sandbox, Remove, chain, TypeOK
    <3>3. RecordsOnlyGo
      BY <2>4 DEF Sandbox, Remove, RecordsOnlyGo, RemoveRecord, TypeOK
    <3> QED
      BY <3>1, <3>2, <3>3, QuietStep
  <2>5. ASSUME NEW t \in Threads, Enter(t) \/ RefuseInside(t) PROVE Pledge'
    <3>1. PICK place \in Places :
            /\ pc[t] \in Busy /\ pc' = [pc EXCEPT ![t] = place]
            /\ place \in Unsigned => pc[t] \in Unsigned
            /\ place \notin Sending \union {"idle"}
            /\ t \in Withdrawals => place \notin {"next", "drop", "clear"}
            /\ t \in Recoveries => place # "done"
      BY <2>5 DEF Enter, RefuseInside, Goto, Finish, chain, Places, Busy, Unsigned, Sending
    <3>2. UNCHANGED <<published, job, todo>> /\ \A u \in Threads \ {t} : coin'[u] = coin[u]
      BY <2>5 DEF Enter, RefuseInside, chain, TypeOK
    <3>3. RecordsOnlyGo
      BY <2>5 DEF Enter, RefuseInside, RecordsOnlyGo, RemoveRecord, TypeOK
    <3> QED
      BY <3>1, <3>2, <3>3, QuietStep
  <2>6. ASSUME NEW t \in Threads, Sign(t) PROVE Pledge'
    <3>1. PICK place \in Places :
            /\ pc[t] \in Busy /\ pc' = [pc EXCEPT ![t] = place]
            /\ place \in Unsigned => pc[t] \in Unsigned
            /\ place \notin Sending \union {"idle"}
            /\ t \in Withdrawals => place \notin {"next", "drop", "clear"}
            /\ t \in Recoveries => place # "done"
      BY <2>6 DEF Sign, Goto, Finish, chain, Places, Busy, Unsigned, Sending
    <3>2. UNCHANGED <<published, job, todo>> /\ \A u \in Threads \ {t} : coin'[u] = coin[u]
      BY <2>6 DEF Sign, chain, TypeOK
    <3>3. RecordsOnlyGo
      BY <2>6 DEF Sign, RecordsOnlyGo, RemoveRecord, TypeOK
    <3> QED
      BY <3>1, <3>2, <3>3, QuietStep
  <2>7. ASSUME NEW t \in Threads, MarkSigned(t) PROVE Pledge'
    BY <2>7, MarkSignedKeeps
  <2>8. ASSUME NEW t \in Threads, Broadcast(t) \/ BroadcastFails(t) PROVE Pledge'
    BY <2>8, BroadcastKeeps
  <2>9. ASSUME NEW t \in Threads, Discard(t) PROVE Pledge'
    <3>1. PICK place \in Places :
            /\ pc[t] \in Busy /\ pc' = [pc EXCEPT ![t] = place]
            /\ place \in Unsigned => pc[t] \in Unsigned
            /\ place \notin Sending \union {"idle"}
            /\ t \in Withdrawals => place \notin {"next", "drop", "clear"}
            /\ t \in Recoveries => place # "done"
      <4>1. pc[t] = "discard" /\ pc' = [pc EXCEPT ![t] = IF t \in Recoveries THEN "next" ELSE "done"]
        BY <2>9 DEF Discard, Goto, Finish
      <4>2. CASE t \in Recoveries
        BY <4>1, <4>2 DEF Places, Busy, Unsigned, Sending
      <4>3. CASE t \notin Recoveries
        BY <4>1, <4>3 DEF Places, Busy, Unsigned, Sending
      <4> QED
        BY <4>2, <4>3
    <3>2. UNCHANGED <<published, job, todo>> /\ \A u \in Threads \ {t} : coin'[u] = coin[u]
      BY <2>9 DEF Discard, chain, TypeOK
    <3>3. RecordsOnlyGo
      BY <2>9 DEF Discard, RecordsOnlyGo, RemoveRecord, TypeOK
    <3> QED
      BY <3>1, <3>2, <3>3, QuietStep
  <2>10. ASSUME NEW r \in Recoveries, Recover(r) PROVE Pledge'
    BY <2>10, RecoverKeeps
  <2>11. ASSUME NEW r \in Recoveries, TakeSigned(r) \/ TakeRequested(r) PROVE Pledge'
    BY <2>11, TakeKeeps
  <2>12. ASSUME NEW r \in Recoveries, Drop(r) \/ Clear(r) PROVE Pledge'
    <3>1. PICK place \in Places :
            /\ pc[r] \in Busy /\ pc' = [pc EXCEPT ![r] = place]
            /\ place \in Unsigned => pc[r] \in Unsigned
            /\ place \notin Sending \union {"idle"}
            /\ r \in Withdrawals => place \notin {"next", "drop", "clear"}
            /\ r \in Recoveries => place # "done"
      BY <2>12 DEF Drop, Clear, Goto, Finish, chain, Places, Busy, Unsigned, Sending
    <3>2. UNCHANGED <<published, job, todo>> /\ \A u \in Threads \ {r} : coin'[u] = coin[u]
      BY <2>12 DEF Drop, Clear, chain, TypeOK
    <3>3. RecordsOnlyGo
      BY <2>12 DEF Drop, Clear, RecordsOnlyGo, RemoveRecord, TypeOK
    <3> QED
      BY <3>1, <3>2, <3>3, QuietStep DEF Threads
  <2>13. ASSUME NEW r \in Recoveries, RecoverEnds(r) PROVE Pledge'
    BY <2>13, RecoverEndsKeeps
  <2>16. ASSUME NEW t \in Threads, PostRetried(t) PROVE Pledge'
    <3>1. UNCHANGED <<pc, job, coin, todo, published>> /\ RecordsOnlyGo
      BY <2>16 DEF PostRetried, chain, RecordsOnlyGo
    <3> QED
      BY <3>1, IdleStep
  <2>14. CASE Sync \/ SwitchKey \/ FileChanges \/ UNCHANGED vars
    <3>1. UNCHANGED <<pc, job, coin, todo, published>> /\ RecordsOnlyGo
      BY <2>14 DEF Sync, SwitchKey, FileChanges, vars, chain, RecordsOnlyGo, PutRecord, TypeOK
    <3> QED
      BY <3>1, IdleStep
  <2>15. CASE Crash
    BY <2>15, CrashKeeps
  <2> QED
    BY <2>1, <2>2, <2>3, <2>4, <2>5, <2>6, <2>7, <2>8, <2>9, <2>10, <2>11, <2>12, <2>13, <2>14, <2>15, <2>16 DEF Next
<1> QED
  BY <1>1, <1>2, TypeCorrect, PTL DEF Spec

\* One transaction at most pays a withdrawal, whatever crashes and recoveries
\* it goes through, as long as recovery does not overlap with other work.
THEOREM PaidOnce == ASSUME ~Overlap PROVE Spec => []NoDoublePay
<1>1. Pledge => NoDoublePay
  BY DEF Pledge
<1> QED
  BY <1>1, PledgeInvariance, PTL

----------------------------------------------------------------------------
\* The key of a POST.  A withdrawal nobody has asked for has no record, no item and no
\* booking, so that the key it is asked under is the only one it will ever meet.
Unasked ==
  \A w \in Withdrawals : pc[w] = "idle" =>
    /\ file[w] = NoRecord /\ booked[w] = {}
    /\ \A r \in Recoveries, x \in Records : <<w, x>> \notin todo[r]

PostsUnderKey ==
  \A t \in Threads : pc[t] = "post" => under[t] = keyOf[job[t]] /\ pc[job[t]] # "idle"

KeyInv == BookedUnderItsKey /\ Unasked /\ PostsUnderKey

\* A thread moves, or none, and no record appears: every step but four.
LEMMA KeysUntouched ==
  ASSUME TypeOK, KeyInv, UNCHANGED <<keyOf, job, todo>>, RecordsOnlyGo,
         NEW t \in Threads, NEW place \in Places \ {"idle", "post"},
         pc' = pc \/ (pc' = [pc EXCEPT ![t] = place] /\ pc[t] # "idle"),
         under' = under,
         UNCHANGED booked \/ (pc[t] = "post" /\ Book(t))
  PROVE  KeyInv'
<1>1. \A u \in Threads : /\ pc'[u] = "idle" <=> pc[u] = "idle"
                         /\ pc'[u] = "post" => pc[u] = "post"
  BY DEF TypeOK
<1>2. Withdrawals \subseteq Threads BY DEF Threads
<1>3. pc[t] = "post" => job[t] \in Withdrawals BY DEF TypeOK, Busy
<1>4. \A w \in Withdrawals :
        booked'[w] = booked[w] \/ (/\ pc[t] = "post" /\ w = job[t]
                                  /\ booked'[w] = booked[w] \union {under[t]})
  BY <1>3 DEF TypeOK, Book
<1>5. BookedUnderItsKey' BY <1>4 DEF KeyInv, BookedUnderItsKey, PostsUnderKey
<1>6. Unasked'
  <2> SUFFICES ASSUME NEW w \in Withdrawals, pc'[w] = "idle"
               PROVE  /\ file'[w] = NoRecord /\ booked'[w] = {}
                      /\ \A r \in Recoveries, x \in Records : <<w, x>> \notin todo'[r]
    BY DEF Unasked
  <2>1. pc[w] = "idle" BY <1>1, <1>2
  <2>2. booked'[w] = booked[w] BY <1>4, <2>1 DEF KeyInv, PostsUnderKey
  <2>3. file'[w] = NoRecord BY <2>1 DEF KeyInv, Unasked, RecordsOnlyGo
  <2> QED BY <2>1, <2>2, <2>3 DEF KeyInv, Unasked
<1>7. PostsUnderKey'
  <2> SUFFICES ASSUME NEW u \in Threads, pc'[u] = "post"
               PROVE  under'[u] = keyOf'[job'[u]] /\ pc'[job'[u]] # "idle"
    BY DEF PostsUnderKey
  <2>1. pc[u] = "post" /\ job[u] \in Withdrawals BY <1>1 DEF TypeOK, Busy
  <2> QED BY <1>1, <1>2, <2>1 DEF KeyInv, PostsUnderKey
<1> QED BY <1>5, <1>6, <1>7 DEF KeyInv

LEMMA KeyInvariance == Spec => []KeyInv
<1>1. Init => KeyInv
  BY DEF Init, KeyInv, BookedUnderItsKey, Unasked, PostsUnderKey
<1>2. TypeOK /\ KeyInv /\ [Next]_vars => KeyInv'
  <2> SUFFICES ASSUME TypeOK, KeyInv, [Next]_vars PROVE KeyInv'
    OBVIOUS
  <2>0. Withdrawals \subseteq Threads /\ Recoveries \subseteq Threads BY DEF Threads
  <2>1. ASSUME NEW w \in Withdrawals, Request(w) PROVE KeyInv'
    <3>1. /\ pc[w] = "idle" /\ UNCHANGED <<booked, job, todo>>
          /\ \A u \in Threads : pc'[u] = IF u = w THEN "post" ELSE pc[u]
          /\ \A v \in Withdrawals : keyOf'[v] = IF v = w THEN active ELSE keyOf[v]
          /\ \A u \in Threads : under'[u] = IF u = w THEN active ELSE under[u]
          /\ \A v \in Withdrawals : v # w => file'[v] = file[v]
      BY <2>0, <2>1 DEF Request, Goto, PutRecord, TypeOK
    <3>2. BookedUnderItsKey' BY <3>1 DEF KeyInv, BookedUnderItsKey, Unasked
    <3>3. Unasked' BY <2>0, <3>1 DEF KeyInv, Unasked
    <3>4. PostsUnderKey'
      <4> SUFFICES ASSUME NEW u \in Threads, pc'[u] = "post"
                   PROVE  under'[u] = keyOf'[job[u]] /\ pc'[job[u]] # "idle"
        BY <3>1 DEF PostsUnderKey
      <4>1. CASE u = w BY <2>0, <3>1, <4>1 DEF TypeOK
      <4>2. CASE u # w
        <5>1. pc[u] = "post" BY <3>1, <4>2
        <5>2. under[u] = keyOf[job[u]] /\ pc[job[u]] # "idle" /\ job[u] \in Withdrawals
          BY <5>1 DEF KeyInv, PostsUnderKey, TypeOK, Busy
        <5> QED BY <2>0, <3>1, <4>2, <5>2
      <4> QED BY <4>1, <4>2
    <3> QED BY <3>2, <3>3, <3>4 DEF KeyInv
  <2>2. ASSUME NEW t \in Threads,
               PostAnswered(t) \/ PostLost(t) \/ PostRetried(t) \/ PostRejected(t)
                 \/ PostTurnedAway(t) \/ Validate(t) \/ Check(t) \/ Sandbox(t) \/ Remove(t)
                 \/ Enter(t) \/ RefuseInside(t) \/ Sign(t) \/ Broadcast(t) \/ BroadcastFails(t)
                 \/ Discard(t)
        PROVE KeyInv'
    <3>1. \E place \in Places \ {"idle", "post"} :
             pc' = pc \/ (pc' = [pc EXCEPT ![t] = place] /\ pc[t] # "idle")
      BY <2>2 DEF PostAnswered, PostLost, PostRetried, PostRejected, PostTurnedAway, GiveUp, Validate,
                  Check, Sandbox, Remove, Enter, RefuseInside, Sign, Broadcast, BroadcastFails,
                  Discard, Goto, Finish, Places, Busy
    <3>2. UNCHANGED <<keyOf, job, todo, under>>
      BY <2>2 DEF PostAnswered, PostLost, PostRetried, PostRejected, PostTurnedAway, GiveUp, Validate,
                  Check, Sandbox, Remove, Enter, RefuseInside, Sign, Broadcast, BroadcastFails,
                  Discard, server
    <3>3. UNCHANGED booked \/ (pc[t] = "post" /\ Book(t))
      BY <2>2 DEF PostAnswered, PostLost, PostRetried, PostRejected, PostTurnedAway, GiveUp, Validate,
                  Check, Sandbox, Remove, Enter, RefuseInside, Sign, Broadcast, BroadcastFails,
                  Discard, server
    <3>4. RecordsOnlyGo
      BY <2>2 DEF PostAnswered, PostLost, PostRetried, PostRejected, PostTurnedAway, GiveUp, Validate,
                  Check, Sandbox, Remove, Enter, RefuseInside, Sign, Broadcast, BroadcastFails,
                  Discard, RemoveRecord, RecordsOnlyGo, TypeOK
    <3> QED BY <3>1, <3>2, <3>3, <3>4, KeysUntouched
  <2>3. ASSUME NEW t \in Threads, MarkSigned(t) PROVE KeyInv'
    <3>1. /\ UNCHANGED <<keyOf, booked, job, todo, under>>
          /\ pc[t] = "mark" /\ \A u \in Threads : pc'[u] = IF u = t THEN "broadcast" ELSE pc[u]
          /\ \A v \in Withdrawals : file[v] = NoRecord => file'[v] = NoRecord
      BY <2>3 DEF MarkSigned, Goto, PutRecord, server, TypeOK
    <3>2. \A u \in Threads : pc[u] = "post" => job[u] \in Threads BY <2>0 DEF TypeOK, Busy
    <3>3. BookedUnderItsKey' /\ Unasked'
      BY <2>0, <3>1 DEF KeyInv, BookedUnderItsKey, Unasked
    <3>4. PostsUnderKey' BY <3>1, <3>2 DEF KeyInv, PostsUnderKey
    <3> QED BY <3>3, <3>4 DEF KeyInv
  <2>4. ASSUME NEW r \in Recoveries, Drop(r) \/ Clear(r) PROVE KeyInv'
    <3>1. \E place \in Places \ {"idle", "post"} :
             pc' = [pc EXCEPT ![r] = place] /\ pc[r] # "idle"
      BY <2>4 DEF Drop, Clear, Goto, Places, Busy
    <3>2. UNCHANGED <<keyOf, job, todo, under, booked>>
      BY <2>4 DEF Drop, Clear, server
    <3>3. RecordsOnlyGo
      BY <2>4 DEF Drop, Clear, RemoveRecord, RecordsOnlyGo, TypeOK
    <3> QED BY <2>0, <3>1, <3>2, <3>3, KeysUntouched
  <2>5. ASSUME NEW r \in Recoveries, Recover(r) PROVE KeyInv'
    <3>1. /\ UNCHANGED <<keyOf, booked, job, under>>
          /\ \A u \in Threads : pc'[u] = IF u = r THEN "next" ELSE pc[u]
          /\ \A v \in Withdrawals : file[v] = NoRecord => file'[v] = NoRecord
      BY <2>5 DEF Recover, Goto, server, TypeOK
    <3>2. \A q \in Recoveries, v \in Withdrawals, x \in Records :
            <<v, x>> \in todo'[q] => <<v, x>> \in todo[q] \/ file[v] # NoRecord
      BY <2>5, RecordFacts DEF Recover, TypeOK
    <3>3. r \notin Withdrawals BY DEF Threads
    <3>4. \A u \in Threads : pc[u] = "post" => job[u] \in Threads BY <2>0 DEF TypeOK, Busy
    <3>5. BookedUnderItsKey' BY <3>1 DEF KeyInv, BookedUnderItsKey
    <3>6. Unasked' BY <2>0, <3>1, <3>2, <3>3 DEF KeyInv, Unasked
    <3>7. PostsUnderKey' BY <3>1, <3>4 DEF KeyInv, PostsUnderKey
    <3> QED BY <3>5, <3>6, <3>7 DEF KeyInv
  <2>6. ASSUME NEW r \in Recoveries, TakeSigned(r) \/ TakeRequested(r) PROVE KeyInv'
    <3>1. PICK w \in Withdrawals, x \in Records, place \in {"rebroadcast", "post", "next"} :
            /\ <<w, x>> \in todo[r] /\ pc[r] = "next"
            /\ todo' = [todo EXCEPT ![r] = @ \ {<<w, x>>}]
            /\ job' = [job EXCEPT ![r] = w]
            /\ pc' = [pc EXCEPT ![r] = place]
            /\ under' = under \/ under' = [under EXCEPT ![r] = active]
            /\ place = "post" => active = keyOf[w] /\ under' = [under EXCEPT ![r] = active]
            /\ UNCHANGED <<file, keyOf, booked>>
      <4>1. PICK item \in todo[r] :
              /\ todo' = [todo EXCEPT ![r] = @ \ {item}]
              /\ job' = [job EXCEPT ![r] = item[1]]
              /\ \/ Goto(r, "rebroadcast") /\ UNCHANGED under
                 \/ /\ under' = [under EXCEPT ![r] = active]
                    /\ Goto(r, IF Replays(item[1]) THEN "post" ELSE "next")
        BY <2>6 DEF TakeSigned, TakeRequested
      <4>2. item[1] \in Withdrawals /\ item[2] \in Records /\ item = <<item[1], item[2]>>
        BY <4>1 DEF TypeOK
      <4>3. pc[r] = "next" /\ UNCHANGED <<file, keyOf, booked>>
        BY <2>6 DEF TakeSigned, TakeRequested, server
      <4>4. PICK place \in {"rebroadcast", "post", "next"} :
              /\ pc' = [pc EXCEPT ![r] = place]
              /\ under' = under \/ under' = [under EXCEPT ![r] = active]
              /\ place = "post" => active = keyOf[item[1]] /\ under' = [under EXCEPT ![r] = active]
        BY <4>1 DEF Goto, Replays
      <4>5. /\ <<item[1], item[2]>> \in todo[r]
            /\ todo' = [todo EXCEPT ![r] = @ \ {<<item[1], item[2]>>}]
            /\ job' = [job EXCEPT ![r] = item[1]]
        BY <4>1, <4>2
      <4> QED BY <4>2, <4>3, <4>4, <4>5
    <3>2. /\ \A u \in Threads : pc'[u] = IF u = r THEN place ELSE pc[u]
          /\ \A u \in Threads : u # r => job'[u] = job[u] /\ under'[u] = under[u]
          /\ job'[r] = w /\ r \notin Withdrawals
          /\ place = "post" => under'[r] = keyOf[w]
          /\ \A q \in Recoveries : todo'[q] \subseteq todo[q]
      BY <2>0, <3>1 DEF TypeOK, Threads
    <3>3. pc[w] # "idle" BY <3>1 DEF KeyInv, Unasked
    <3>4. \A u \in Threads : pc[u] = "post" => job[u] \in Withdrawals BY DEF TypeOK, Busy
    <3>5. BookedUnderItsKey' BY <3>1 DEF KeyInv, BookedUnderItsKey
    <3>6. Unasked' BY <2>0, <3>1, <3>2 DEF KeyInv, Unasked
    <3>7. PostsUnderKey'
      <4> SUFFICES ASSUME NEW u \in Threads, pc'[u] = "post"
                   PROVE  under'[u] = keyOf'[job'[u]] /\ pc'[job'[u]] # "idle"
        BY DEF PostsUnderKey
      <4>1. CASE u = r BY <2>0, <3>1, <3>2, <3>3, <4>1
      <4>2. CASE u # r BY <2>0, <3>1, <3>2, <3>4, <4>2 DEF KeyInv, PostsUnderKey
      <4> QED BY <4>1, <4>2
    <3> QED BY <3>5, <3>6, <3>7 DEF KeyInv
  <2>7. ASSUME NEW r \in Recoveries, RecoverEnds(r) PROVE KeyInv'
    <3>1. /\ UNCHANGED <<file, keyOf, booked, job, todo, under>>
          /\ \A u \in Threads : pc'[u] = IF u = r THEN "idle" ELSE pc[u]
          /\ r \notin Withdrawals
      BY <2>7 DEF RecoverEnds, server, TypeOK, Threads
    <3>2. \A u \in Threads : pc[u] = "post" => job[u] \in Withdrawals BY DEF TypeOK, Busy
    <3>3. BookedUnderItsKey' /\ Unasked' BY <2>0, <3>1 DEF KeyInv, BookedUnderItsKey, Unasked
    <3>4. PostsUnderKey' BY <2>0, <3>1, <3>2 DEF KeyInv, PostsUnderKey
    <3> QED BY <3>3, <3>4 DEF KeyInv
  <2>8. CASE Crash
    <3>1. /\ UNCHANGED <<file, keyOf, booked>>
          /\ \A u \in Threads : pc'[u] \in {"idle", "done"}
          /\ \A w \in Withdrawals : pc'[w] = "idle" => pc[w] = "idle"
          /\ \A r \in Recoveries : todo'[r] = {}
      BY <2>0, <2>8 DEF Crash, server
    <3> QED BY <2>0, <3>1 DEF KeyInv, BookedUnderItsKey, Unasked, PostsUnderKey
  <2>9. CASE Sync \/ SwitchKey \/ FileChanges \/ UNCHANGED vars
    <3>1. UNCHANGED <<keyOf, booked, pc, job, todo, under>> /\ RecordsOnlyGo
      BY <2>9 DEF Sync, SwitchKey, FileChanges, vars, server, RecordsOnlyGo, PutRecord, TypeOK
    <3> QED BY <3>1 DEF KeyInv, BookedUnderItsKey, Unasked, PostsUnderKey, RecordsOnlyGo
  <2> QED BY <2>1, <2>2, <2>3, <2>4, <2>5, <2>6, <2>7, <2>8, <2>9 DEF Next
<1> QED BY <1>1, <1>2, TypeCorrect, PTL DEF Spec

\* Only the key that made a request replays it, even when recoveries run beside calls and
\* each other and the user switches accounts.
THEOREM KeyKept == Spec => []BookedUnderItsKey
<1>1. KeyInv => BookedUnderItsKey BY DEF KeyInv
<1> QED BY <1>1, KeyInvariance, PTL
----------------------------------------------------------------------------
(* Withdraw implements PayoutLedger when recovery runs alone.              *)

\* Nothing is left that could pay w.
Closed(w) ==
  /\ ~Paid(w) /\ file[w] = NoRecord /\ pc[w] # "idle"
  /\ \A t \in Threads : pc[t] \in Busy => job[t] # w
  /\ \A r \in Recoveries, x \in Records : <<w, x>> \notin todo[r]

\* Whoever is about to refuse a withdrawal refuses one that is not paid.
Refusing == {"discard", "drop"}
RefusesUnpaid == \A t \in Threads : pc[t] \in Refusing => ~Paid(job[t])

RefusalInv ==
  /\ \A w \in refused : Closed(w)
  /\ RefusesUnpaid
  /\ \A w \in Withdrawals : keyOf[w] = None <=> pc[w] = "idle"

Status == [w \in Withdrawals |->
  IF Paid(w) THEN "paid" ELSE IF w \in refused THEN "refused"
  ELSE IF keyOf[w] = None THEN "new" ELSE "open"]

\* A thread at work drives a withdrawal that was asked for and is not refused.
LEMMA DrivesOpen ==
  ASSUME TypeOK, Pledge, RefusalInv, NEW t \in Threads, pc[t] \in Busy
  PROVE  /\ job[t] \in Withdrawals /\ pc[job[t]] # "idle" /\ keyOf[job[t]] # None
         /\ job[t] \notin refused
BY DEF TypeOK, Pledge, Undriven, RefusalInv, Closed

\* A step of one thread about its own withdrawal: it may publish, or refuse and be done.
LEMMA WorkStep ==
  ASSUME TypeOK, Pledge, RefusalInv, NEW t \in Threads, pc[t] \in Busy,
         NEW place \in Places \ {"idle"}, pc' = [pc EXCEPT ![t] = place],
         UNCHANGED <<job, todo, keyOf>>,
         \A w \in Withdrawals : file[w] = NoRecord => file'[w] = NoRecord,
         \/ published' = published
         \/ place \notin Refusing /\ published' = published \union {<<job[t], coin[t]>>},
         place \in Refusing => ~Paid(job[t]),
         \/ refused' = refused
         \/ /\ pc[t] \in Refusing /\ place \notin Busy /\ published' = published
            /\ file'[job[t]] = NoRecord /\ refused' = refused \union {job[t]}
  PROVE  RefusalInv' /\ (Ledger!Next \/ Status' = Status)
<1> DEFINE w == job[t]
<1>1. /\ w \in Withdrawals /\ pc[w] # "idle" /\ keyOf[w] # None /\ w \notin refused
      /\ \A u \in Threads \ {t} : pc[u] \in Busy => job[u] # w
      /\ \A r \in Recoveries, x \in Records : <<w, x>> \notin todo[r]
      /\ \A u \in Threads : pc'[u] = IF u = t THEN place ELSE pc[u]
      /\ Withdrawals \subseteq Threads
  BY DrivesOpen, WorksAlone DEF TypeOK, Threads
<1>2. \A v \in Withdrawals \ {w} : Paid(v)' <=> Paid(v)
  <2>1. \A v \in Withdrawals \ {w}, c \in Coins : <<v, c>> \in published' <=> <<v, c>> \in published
    OBVIOUS
  <2> HIDE DEF w
  <2> QED BY <2>1 DEF Paid
<1>3. published' = published => (Paid(w)' <=> Paid(w))
  BY DEF Paid
<1>4. refused \subseteq Withdrawals /\ \A u \in Threads : pc[u] \in Busy => job[u] \in Withdrawals
  BY DEF TypeOK
<1>5. \A v \in refused : Closed(v)'
  BY <1>1, <1>2, <1>4 DEF RefusalInv, Closed
<1>6. refused' # refused => Closed(w)'
  <2> SUFFICES ASSUME refused' # refused PROVE Closed(w)'
    OBVIOUS
  <2>1. ~Paid(w)'
    BY <1>3 DEF RefusalInv, RefusesUnpaid
  <2> QED BY <1>1, <2>1 DEF Closed
<1>7. RefusesUnpaid'
  <2> SUFFICES ASSUME NEW u \in Threads, pc'[u] \in Refusing PROVE ~Paid(job[u])'
    BY DEF RefusesUnpaid
  <2>1. CASE u = t
    BY <1>1, <1>3, <2>1
  <2>2. CASE u # t
    <3>1. pc[u] \in Refusing /\ pc[u] \in Busy
      BY <1>1, <2>2 DEF Refusing, Busy
    <3>2. job[u] \in Withdrawals \ {w} /\ job'[u] = job[u] /\ ~Paid(job[u])
      BY <1>1, <1>4, <2>2, <3>1 DEF RefusalInv, RefusesUnpaid
    <3> QED BY <1>2, <3>2 DEF Paid
  <2> QED BY <2>1, <2>2
<1>8. RefusalInv'
  <2>1. \A v \in refused' : Closed(v)'
    BY <1>5, <1>6
  <2>2. \A u \in Threads : pc'[u] = "idle" <=> pc[u] = "idle"
    BY <1>1 DEF Busy
  <2>3. \A v \in Withdrawals : keyOf'[v] = None <=> pc'[v] = "idle"
    BY <1>1, <2>2 DEF RefusalInv
  <2> QED BY <1>7, <2>1, <2>3 DEF RefusalInv
<1>9. \A v \in Withdrawals \ {w} : Status'[v] = Status[v]
  BY <1>2 DEF Status
<1>10. CASE Paid(w)
  <2>1. Paid(w)' /\ refused' = refused
    BY <1>10 DEF Paid, RefusalInv, RefusesUnpaid
  <2> QED BY <1>2, <1>8, <1>10, <2>1 DEF Status
<1>11. CASE ~Paid(w) /\ Paid(w)'
  <2>1. refused' = refused
    BY <1>3, <1>11
  <2>2. Status[w] = "open" /\ Status'[w] = "paid"
    BY <1>1, <1>11 DEF Status
  <2>3. Status' = [Status EXCEPT ![w] = "paid"]
    BY <1>9, <2>2 DEF Status
  <2> QED BY <1>1, <1>8, <2>2, <2>3 DEF Ledger!Next, Ledger!Pay, Ledger!Become, Status
<1>12. CASE ~Paid(w) /\ ~Paid(w)' /\ refused' = refused
  BY <1>2, <1>8, <1>12 DEF Status
<1>13. CASE ~Paid(w) /\ ~Paid(w)' /\ refused' # refused
  <2>1. Status[w] = "open" /\ Status'[w] = "refused"
    BY <1>1, <1>13 DEF Status
  <2>2. Status' = [Status EXCEPT ![w] = "refused"]
    BY <1>9, <2>1 DEF Status
  <2> QED BY <1>1, <1>8, <2>1, <2>2 DEF Ledger!Next, Ledger!Refuse, Ledger!Become, Status
<1> QED BY <1>10, <1>11, <1>12, <1>13

LEMMA StatusStays ==
  ASSUME UNCHANGED <<published, refused, keyOf>>
  PROVE  Status' = Status
BY DEF Status, Paid

\* A withdrawal is asked for: it becomes open.
LEMMA RequestOpens ==
  ASSUME ~Overlap, TypeOK, Pledge, RefusalInv, NEW w \in Withdrawals, Request(w)
  PROVE  RefusalInv' /\ Ledger!Next
<1>1. /\ pc[w] = "idle" /\ w \notin refused /\ ~Paid(w) /\ keyOf[w] = None
      /\ \A u \in Threads : pc'[u] = IF u = w THEN "post" ELSE pc[u]
      /\ \A v \in Withdrawals : keyOf'[v] = IF v = w THEN active ELSE keyOf[v]
      /\ \A v \in Withdrawals \ {w} : file'[v] = file[v]
      /\ active # None /\ job[w] = w /\ Withdrawals \subseteq Threads
      /\ UNCHANGED <<job, todo, published, refused>>
  BY DEF Request, Goto, PutRecord, chain, TypeOK, Threads, Pledge, Untouched, RefusalInv, Closed
<1>2. \A v \in Withdrawals : Paid(v)' <=> Paid(v)
  BY <1>1 DEF Paid
<1>3. \A v \in refused' : Closed(v)'
  BY <1>1, <1>2 DEF TypeOK, RefusalInv, Closed
<1>4. RefusesUnpaid'
  BY <1>1 DEF RefusesUnpaid, RefusalInv, Refusing, Paid
<1>5. \A v \in Withdrawals : keyOf'[v] = None <=> pc'[v] = "idle"
  BY <1>1 DEF RefusalInv
<1>6. Status[w] = "new" /\ Status' = [Status EXCEPT ![w] = "open"]
  <2>1. Status[w] = "new" /\ Status'[w] = "open"
    BY <1>1, <1>2 DEF Status
  <2>2. \A v \in Withdrawals \ {w} : Status'[v] = Status[v]
    BY <1>1, <1>2 DEF Status
  <2> QED BY <2>1, <2>2 DEF Status
<1> QED
  BY <1>3, <1>4, <1>5, <1>6 DEF RefusalInv, Ledger!Next, Ledger!Open, Ledger!Become, Status

\* Recovery reads the file, takes an item or ends, the process dies, or something happens
\* around: nothing is paid or refused, and what is closed stays closed.
LEMMA QuietKeepsClosed ==
  ASSUME TypeOK, Pledge, RefusalInv, UNCHANGED <<published, refused, keyOf>>,
         \A w \in Withdrawals : file[w] = NoRecord => file'[w] = NoRecord,
         \A w \in Withdrawals : pc'[w] = "idle" <=> pc[w] = "idle",
         \A u \in Threads : pc'[u] \in Busy =>
           \/ pc'[u] = pc[u] /\ job'[u] = job[u]
           \/ /\ u \in Recoveries /\ pc'[u] \notin Refusing
              /\ \E x \in Records : <<job'[u], x>> \in todo[u],
         \A r \in Recoveries, w \in Withdrawals, x \in Records : <<w, x>> \in todo'[r] =>
           <<w, x>> \in todo[r] \/ file[w] # NoRecord
  PROVE  RefusalInv' /\ Status' = Status
<1>1. \A w \in refused' : Closed(w)'
  <2> SUFFICES ASSUME NEW w \in refused PROVE Closed(w)'
    OBVIOUS
  <2>1. Closed(w) /\ w \in Withdrawals
    BY DEF TypeOK, RefusalInv
  <2>2. ~Paid(w)' /\ file'[w] = NoRecord /\ pc'[w] # "idle"
    BY <2>1 DEF Closed, Paid
  <2>3. \A u \in Threads : pc'[u] \in Busy => job'[u] # w
    BY <2>1 DEF Closed
  <2>4. \A r \in Recoveries, x \in Records : <<w, x>> \notin todo'[r]
    BY <2>1 DEF Closed
  <2> QED BY <2>2, <2>3, <2>4 DEF Closed
<1>2. RefusesUnpaid'
  BY DEF RefusalInv, RefusesUnpaid, Refusing, Busy, Paid
<1> QED
  BY <1>1, <1>2, StatusStays DEF RefusalInv

LEMMA RefusalStep ==
  ASSUME ~Overlap, TypeOK, Pledge, RefusalInv, [Next]_vars
  PROVE  RefusalInv' /\ (Ledger!Next \/ Status' = Status)
<1>0. Withdrawals \subseteq Threads /\ Recoveries \subseteq Threads /\ \A w \in Withdrawals : w \notin Recoveries
  BY DEF Threads
<1>1. ASSUME NEW w \in Withdrawals, Request(w)
      PROVE  RefusalInv' /\ (Ledger!Next \/ Status' = Status)
  BY <1>1, RequestOpens
<1>2. ASSUME NEW t \in Threads,
             PostAnswered(t) \/ PostLost(t) \/ PostRejected(t) \/ PostTurnedAway(t) \/ Validate(t)
               \/ Check(t) \/ Sandbox(t) \/ Remove(t) \/ Enter(t) \/ RefuseInside(t) \/ Sign(t)
               \/ MarkSigned(t) \/ Broadcast(t) \/ BroadcastFails(t) \/ Discard(t)
               \/ (t \in Recoveries /\ (Drop(t) \/ Clear(t)))
      PROVE  RefusalInv' /\ (Ledger!Next \/ Status' = Status)
  <2>1. PICK place \in Places \ {"idle"} :
          /\ pc[t] \in Busy /\ pc' = [pc EXCEPT ![t] = place]
          /\ \/ place \notin Refusing
             \/ place = "drop" /\ pc[t] = "post"
             \/ place = "discard" /\ pc[t] = "check" /\ file[job[t]] = Requested
    BY <1>2 DEF PostAnswered, PostLost, PostRejected, PostTurnedAway, GiveUp, Validate, Check, Sandbox,
                Remove, Enter, RefuseInside, Sign, MarkSigned, Broadcast, BroadcastFails, Discard,
                Drop, Clear, Goto, Finish, Places, Busy, Refusing
  <2>2. UNCHANGED <<job, todo, keyOf>>
    BY <1>2 DEF PostAnswered, PostLost, PostRejected, PostTurnedAway, GiveUp, Validate, Check, Sandbox,
                Remove, Enter, RefuseInside, Sign, MarkSigned, Broadcast, BroadcastFails, Discard,
                Drop, Clear, server
  <2>3. job[t] \in Withdrawals
    BY <2>1 DEF TypeOK
  <2>4. \A w \in Withdrawals : file[w] = NoRecord => file'[w] = NoRecord
    BY <1>2, <2>3 DEF PostAnswered, PostLost, PostRejected, PostTurnedAway, GiveUp, Validate, Check,
                Sandbox, Remove, Enter, RefuseInside, Sign, MarkSigned, Broadcast, BroadcastFails,
                Discard, Drop, Clear, RemoveRecord, PutRecord, TypeOK
  <2>5. \/ published' = published
        \/ place \notin Refusing /\ published' = published \union {<<job[t], coin[t]>>}
    <3>1. CASE Broadcast(t) \/ BroadcastFails(t)
      BY <2>1, <3>1 DEF Broadcast, BroadcastFails, Publish, Refusing
    <3>2. CASE ~(Broadcast(t) \/ BroadcastFails(t))
      BY <1>2, <3>2 DEF PostAnswered, PostLost, PostRejected, PostTurnedAway, GiveUp, Validate, Check,
                Sandbox, Remove, Enter, RefuseInside, Sign, MarkSigned, Discard, Drop, Clear, chain
    <3> QED BY <3>1, <3>2
  <2>6. place \in Refusing => ~Paid(job[t])
    BY <2>1, <2>3 DEF Pledge, FileAgrees, ThreadsAgree, Unsigned
  <2>7. \/ refused' = refused
        \/ /\ pc[t] \in Refusing /\ place \notin Busy /\ published' = published
           /\ file'[job[t]] = NoRecord /\ refused' = refused \union {job[t]}
    <3>1. CASE Discard(t) \/ (t \in Recoveries /\ Drop(t))
      <4>1. pc[t] \in Refusing /\ place \in {"next", "done"} /\ published' = published
        BY <2>1, <3>1 DEF Discard, Drop, Goto, Finish, Refusing, chain, TypeOK
      <4>2. refused' = refused \/ (file'[job[t]] = NoRecord /\ refused' = refused \union {job[t]})
        BY <3>1 DEF Discard, Drop
      <4> QED BY <4>1, <4>2 DEF Busy
    <3>2. CASE ~(Discard(t) \/ (t \in Recoveries /\ Drop(t)))
      BY <1>2, <3>2 DEF PostAnswered, PostLost, PostRejected, PostTurnedAway, GiveUp, Validate, Check,
                Sandbox, Remove, Enter, RefuseInside, Sign, MarkSigned, Broadcast, BroadcastFails, Clear
    <3> QED BY <3>1, <3>2
  <2> HIDE DEF Refusing
  <2> QED BY <2>1, <2>2, <2>4, <2>5, <2>6, <2>7, WorkStep
<1>3. ASSUME NEW r \in Recoveries, Recover(r)
      PROVE  RefusalInv' /\ (Ledger!Next \/ Status' = Status)
  <2>1. /\ UNCHANGED <<published, refused, keyOf, job>>
        /\ \A u \in Threads : pc'[u] = IF u = r THEN "next" ELSE pc[u]
        /\ \A w \in Withdrawals : file[w] = NoRecord => file'[w] = NoRecord
    BY <1>3 DEF Recover, Goto, TypeOK, chain, server
  <2>2. \A q \in Recoveries, w \in Withdrawals, x \in Records : <<w, x>> \in todo'[q] =>
          <<w, x>> \in todo[q] \/ file[w] # NoRecord
    BY <1>3, RecordFacts DEF Recover, TypeOK
  <2>3. \A u \in Threads : pc'[u] \in Busy => pc'[u] = pc[u] /\ job'[u] = job[u]
    BY <2>1 DEF Busy
  <2> QED BY <1>0, <2>1, <2>2, <2>3, QuietKeepsClosed
<1>4. ASSUME NEW r \in Recoveries, TakeSigned(r) \/ TakeRequested(r)
      PROVE  RefusalInv' /\ (Ledger!Next \/ Status' = Status)
  <2>1. PICK item \in todo[r] :
          /\ todo' = [todo EXCEPT ![r] = @ \ {item}]
          /\ job' = [job EXCEPT ![r] = item[1]]
          /\ pc' \in {[pc EXCEPT ![r] = place] : place \in {"rebroadcast", "post", "next"}}
    BY <1>4 DEF TakeSigned, TakeRequested, Goto
  <2>2. item[1] \in Withdrawals /\ item[2] \in Records /\ item = <<item[1], item[2]>>
    BY <2>1 DEF TypeOK
  <2>3. UNCHANGED <<published, refused, keyOf, file>>
    BY <1>4 DEF TakeSigned, TakeRequested, chain, server
  <2>4. /\ \A u \in Threads \ {r} : pc'[u] = pc[u] /\ job'[u] = job[u]
        /\ pc'[r] \in {"rebroadcast", "post", "next"} /\ job'[r] = item[1]
        /\ \A q \in Recoveries : todo'[q] \subseteq todo[q]
    BY <1>0, <2>1 DEF TypeOK
  <2>5. \A u \in Threads : pc'[u] \in Busy =>
          \/ pc'[u] = pc[u] /\ job'[u] = job[u]
          \/ /\ u \in Recoveries /\ pc'[u] \notin Refusing
             /\ \E x \in Records : <<job'[u], x>> \in todo[u]
    BY <2>1, <2>2, <2>4 DEF Refusing
  <2> QED BY <1>0, <2>3, <2>4, <2>5, QuietKeepsClosed
<1>5. ASSUME NEW r \in Recoveries, RecoverEnds(r)
      PROVE  RefusalInv' /\ (Ledger!Next \/ Status' = Status)
  <2>1. /\ UNCHANGED <<published, refused, keyOf, file, job, todo>>
        /\ \A u \in Threads : pc'[u] = IF u = r THEN "idle" ELSE pc[u]
    BY <1>5 DEF RecoverEnds, TypeOK, chain, server
  <2>2. \A u \in Threads : pc'[u] \in Busy => pc'[u] = pc[u] /\ job'[u] = job[u]
    BY <2>1 DEF Busy
  <2> QED BY <1>0, <2>1, <2>2, QuietKeepsClosed
<1>6. CASE Crash
  <2>1. /\ UNCHANGED <<published, refused, keyOf, file, job>>
        /\ \A u \in Threads : pc'[u] \in {"idle", "done"}
        /\ \A w \in Withdrawals : pc'[w] = "idle" <=> pc[w] = "idle"
        /\ \A r \in Recoveries : todo'[r] = {}
    BY <1>0, <1>6 DEF Crash, server
  <2>2. \A u \in Threads : pc'[u] \notin Busy
    BY <2>1 DEF Busy
  <2> QED BY <2>1, <2>2, QuietKeepsClosed
<1>7. CASE (\E t \in Threads : PostRetried(t)) \/ Sync \/ SwitchKey \/ FileChanges \/ UNCHANGED vars
  <2>1. UNCHANGED <<published, refused, keyOf, pc, job, todo>>
    BY <1>7 DEF PostRetried, Sync, SwitchKey, FileChanges, vars, chain, server
  <2>2. \A w \in Withdrawals : file[w] = NoRecord => file'[w] = NoRecord
    BY <1>7 DEF PostRetried, Sync, SwitchKey, FileChanges, PutRecord, vars, TypeOK
  <2> QED BY <2>1, <2>2, QuietKeepsClosed
<1> QED
  BY <1>0, <1>1, <1>2, <1>3, <1>4, <1>5, <1>6, <1>7 DEF Next

\* A withdrawal is opened once and paid at most once, and one that was refused is never
\* paid, as long as recovery does not overlap with other work: every step is a step of the
\* ledger, or none.
THEOREM ImplementsLedger == ASSUME ~Overlap PROVE Spec => KeepsLedger
<1>1. Init => RefusalInv
  BY DEF Init, RefusalInv, RefusesUnpaid, Refusing, Threads
<1>2. Init => Ledger!Init
  BY DEF Init, Ledger!Init, Paid
<1>3. RefusalInv /\ TypeOK /\ Pledge /\ [Next]_vars => RefusalInv' /\ [Ledger!Next]_Status
  BY RefusalStep
<1> QED
  BY <1>1, <1>2, <1>3, TypeCorrect, PledgeInvariance, PTL DEF Spec, KeepsLedger, Ledger!Spec, Status

-----------------------------------------------------------------------------
(* The chain of opMutex, for any callers and any kinds of operation        *)

\* Whoever is inside a section heads the chain.
InsideHeads == \A c \in Callers : inside[c] => queue # <<>> /\ Head(queue) = c

ChainInv == ChainTypeOK /\ InsideHeads

\* Appending to a sequence keeps its head, if it has one.
LEMMA AppendKeepsHead ==
  ASSUME NEW S, NEW s \in Seq(S), NEW e \in S
  PROVE  /\ Append(s, e) \in Seq(S)
         /\ Append(s, e) # <<>>
         /\ s # <<>> => Head(Append(s, e)) = Head(s)
<1>1. /\ Append(s, e) \in Seq(S)
      /\ Append(s, e) # <<>>
      /\ \A i \in 1 .. Len(s) : Append(s, e)[i] = s[i]
  BY AppendProperties
<1>2. ASSUME s # <<>> PROVE Head(Append(s, e)) = Head(s)
  <2>1. 1 \in 1 .. Len(s)
    BY <1>2, EmptySeq
  <2> QED BY <1>1, <2>1
<1> QED BY <1>1, <1>2

LEMMA StepChain == ChainInv /\ [ChainNext]_chainVars => ChainInv'
<1> SUFFICES ASSUME ChainInv, [ChainNext]_chainVars PROVE ChainInv'
  OBVIOUS
<1> USE DEF ChainInv, ChainTypeOK, InsideHeads
<1>1. ASSUME NEW c \in Callers, NEW k \in Kinds, Begin(c, k) PROVE ChainInv'
  BY <1>1 DEF Begin, Sections, CallsFromInside
<1>2. ASSUME NEW c \in Callers, Call(c) PROVE ChainInv'
  <2>1. /\ queue' \in Seq(Callers)
        /\ queue' # <<>>
        /\ queue # <<>> => Head(queue') = Head(queue)
    BY <1>2, AppendKeepsHead DEF Call
  <2> QED BY <1>2, <2>1 DEF Call
<1>3. ASSUME NEW c \in Callers, Start(c) PROVE ChainInv'
  BY <1>3 DEF Start
<1>4. ASSUME NEW c \in Callers, Settle(c) PROVE ChainInv'
  <2>1. /\ inside[c] /\ queue' = Tail(queue) /\ queue # <<>>
        /\ UNCHANGED waiting /\ ~waiting[c]
        /\ inside' = [inside EXCEPT ![c] = FALSE]
        /\ left' \in [Callers -> Nat] /\ nested' \in [Callers -> BOOLEAN]
        /\ \A d \in Callers \ {c} : left'[d] = left[d]
    <3>1. CASE Resolve(c)
      BY <3>1 DEF Resolve
    <3>2. CASE Reject(c)
      BY <3>2 DEF Reject
    <3> QED BY <1>4, <3>1, <3>2 DEF Settle
  <2>2. \A d \in Callers : ~inside'[d]
    BY <2>1
  <2>3. queue' \in Seq(Callers)
    BY <2>1, HeadTailProperties
  <2> QED BY <2>1, <2>2, <2>3
<1>5. CASE UNCHANGED chainVars
  BY <1>5 DEF chainVars
<1> QED BY <1>1, <1>2, <1>3, <1>4, <1>5 DEF ChainNext

THEOREM ChainInvariance == ChainSpec => []ChainInv
<1>1. ChainInit => ChainInv
  BY DEF ChainInit, ChainInv, ChainTypeOK, InsideHeads
<1> QED BY <1>1, StepChain, PTL DEF ChainSpec

\* Types hold, and an operation that waits or is inside a section is not over.
THEOREM ChainTypeCorrect == ChainSpec => []ChainTypeOK
<1>1. ChainInv => ChainTypeOK
  BY DEF ChainInv
<1> QED BY <1>1, ChainInvariance, PTL

\* Every step of the chain is a step of the mutex, or none.
THEOREM ImplementsMutex == ChainSpec => IsMutex
<1> DEFINE in == {c \in Callers : inside[c]}
<1>1. ChainInit => Mutex!Init
  BY DEF ChainInit, Mutex!Init
<1>2. ChainInv /\ [ChainNext]_chainVars => [Mutex!Next]_in
  <2> SUFFICES ASSUME ChainInv, [ChainNext]_chainVars PROVE Mutex!Next \/ in' = in
    OBVIOUS
  <2> USE DEF ChainInv, ChainTypeOK, InsideHeads
  <2>1. ASSUME NEW c \in Callers, Call(c) \/ \E k \in Kinds : Begin(c, k) PROVE in' = in
    BY <2>1 DEF Begin, Call
  <2>2. ASSUME NEW c \in Callers, Start(c) PROVE Mutex!Next
    <3>1. in = {}
      BY <2>2 DEF Start
    <3>2. in' = {c}
      BY <2>2, <3>1 DEF Start
    <3> QED BY <3>1, <3>2 DEF Mutex!Next, Mutex!Enter
  <2>3. ASSUME NEW c \in Callers, Settle(c) PROVE Mutex!Next
    <3>1. in = {c}
      BY <2>3 DEF Settle, Resolve, Reject
    <3>2. in' = {}
      BY <2>3, <3>1 DEF Settle, Resolve, Reject
    <3> QED BY <3>1, <3>2 DEF Mutex!Next, Mutex!Leave
  <2>4. CASE UNCHANGED chainVars
    BY <2>4 DEF chainVars
  <2> HIDE DEF in
  <2> QED BY <2>1, <2>2, <2>3, <2>4 DEF ChainNext
<1> QED BY <1>1, <1>2, ChainInvariance, PTL DEF ChainSpec, IsMutex, Mutex!Spec
=============================================================================
