------------------------------ MODULE OpMutex ------------------------------
(***************************************************************************)
(* The wallet's opMutex: a chain of promises, and the operations that      *)
(* queue on it.                                                            *)
(*                                                                         *)
(* runExclusive(fn) appends fn to the chain: fn starts when everything     *)
(* queued before it has settled, and whatever fn does the chain goes on.   *)
(* The chain knows nothing of who calls it: a call made from inside a      *)
(* section queues behind the very section it is made from.                 *)
(*                                                                         *)
(* An operation is the number of sections it runs, one after the other,    *)
(* and whether its section calls runExclusive again before it returns.     *)
(***************************************************************************)
EXTENDS Naturals, Sequences

CONSTANTS
  Callers,  \* concurrent calls of one wallet instance
  Kinds     \* the operations they may ask for

\* getReceiveAddress, send and rescan are one section; withdraw allocates an
\* address, asks the server, then signs; a swap quote allocates two addresses;
\* pegIn allocates its address from inside its own section.
Sections(k) == IF k \in {"withdraw", "swapQuote"} THEN 2 ELSE 1
CallsFromInside(k) == k = "pegIn"

VARIABLES
  queue,    \* the chain: the callers of the sections that have not settled
  left,     \* sections each operation has still to finish
  nested,   \* its section will call runExclusive
  waiting,  \* its last call to runExclusive has not started
  inside    \* it is inside a section

chainVars == <<queue, left, nested, waiting, inside>>

ChainTypeOK ==
  /\ queue \in Seq(Callers)
  /\ left \in [Callers -> Nat]
  /\ nested \in [Callers -> BOOLEAN]
  /\ waiting \in [Callers -> BOOLEAN]
  /\ inside \in [Callers -> BOOLEAN]
  /\ \A c \in Callers : waiting[c] \/ inside[c] => left[c] > 0

ChainInit ==
  /\ queue = <<>>
  /\ left = [c \in Callers |-> 0]
  /\ nested = [c \in Callers |-> FALSE]
  /\ waiting = [c \in Callers |-> FALSE]
  /\ inside = [c \in Callers |-> FALSE]

\* A tool call starts an operation of kind k.
Begin(c, k) ==
  /\ left[c] = 0
  /\ left' = [left EXCEPT ![c] = Sections(k)]
  /\ nested' = [nested EXCEPT ![c] = CallsFromInside(k)]
  /\ UNCHANGED <<queue, waiting, inside>>

\* runExclusive(fn): tail = tail.then(fn).
Call(c) ==
  /\ left[c] > 0
  /\ ~waiting[c]
  /\ inside[c] => nested[c]
  /\ queue' = Append(queue, c)
  /\ waiting' = [waiting EXCEPT ![c] = TRUE]
  /\ UNCHANGED <<left, nested, inside>>

\* Faulty variant: fn starts without waiting for the chain.
StartAtOnce(c) ==
  /\ waiting[c]
  /\ waiting' = [waiting EXCEPT ![c] = FALSE]
  /\ inside' = [inside EXCEPT ![c] = TRUE]
  /\ UNCHANGED <<queue, left, nested>>

\* Faulty variant: a lock that lets in whoever comes by when it is free.
StartInAnyOrder(c) ==
  /\ waiting[c]
  /\ \A d \in Callers : ~inside[d]
  /\ queue' = <<c>> \o SelectSeq(queue, LAMBDA d : d # c)
  /\ waiting' = [waiting EXCEPT ![c] = FALSE]
  /\ inside' = [inside EXCEPT ![c] = TRUE]
  /\ UNCHANGED <<left, nested>>

\* fn starts: everything queued before it has settled.  A caller that is
\* already inside a section has an earlier entry of its own in the chain.
Start(c) ==
  /\ waiting[c]
  /\ ~inside[c]
  /\ queue # <<>> /\ Head(queue) = c
  /\ waiting' = [waiting EXCEPT ![c] = FALSE]
  /\ inside' = [inside EXCEPT ![c] = TRUE]
  /\ UNCHANGED <<queue, left, nested>>

\* fn resolves: the next entry of the chain may start.
Resolve(c) ==
  /\ inside[c]
  /\ ~waiting[c]
  /\ ~nested[c]
  /\ queue' = Tail(queue)
  /\ inside' = [inside EXCEPT ![c] = FALSE]
  /\ left' = [left EXCEPT ![c] = @ - 1]
  /\ UNCHANGED <<nested, waiting>>

\* fn rejects: the chain goes on, the operation is over.
Reject(c) ==
  /\ inside[c]
  /\ ~waiting[c]
  /\ queue' = Tail(queue)
  /\ inside' = [inside EXCEPT ![c] = FALSE]
  /\ left' = [left EXCEPT ![c] = 0]
  /\ nested' = [nested EXCEPT ![c] = FALSE]
  /\ UNCHANGED waiting

Settle(c) == Resolve(c) \/ Reject(c)

ChainNext ==
  \E c \in Callers :
    \/ \E k \in Kinds : Begin(c, k)
    \/ Call(c)
    \/ Start(c)
    \/ Settle(c)

\* The event loop runs a continuation that is ready, and what a section awaits
\* (the network with its timeouts, the disk) settles.
ChainFairness == \A c \in Callers : WF_chainVars(Call(c)) /\ WF_chainVars(Start(c)) /\ WF_chainVars(Settle(c))

ChainSpec == ChainInit /\ [][ChainNext]_chainVars
ChainFairSpec == ChainSpec /\ ChainFairness

-----------------------------------------------------------------------------
(* Properties                                                              *)

Mutex == INSTANCE ExclusiveSection WITH inside <- {c \in Callers : inside[c]}

\* The chain of promises is a mutex: sections of different operations never
\* overlap, in whatever order they are called, resolve and reject.
IsMutex == Mutex!Spec

\* Every operation ends: no rejection and no order of calls wedges the chain
\* ("the lock is released either way", mutex.ts).
EveryOperationEnds == \A c \in Callers : left[c] > 0 ~> left[c] = 0
=============================================================================
