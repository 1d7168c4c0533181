------------------------------- MODULE MCDesk -------------------------------
(* A run of the desk picks one workload, so that each kind of operation is *)
(* explored with the actors that matter to it:                             *)
(*   swaps  a quote and two executions of it;                              *)
(*   queue  a swap and a peg-out behind the same opMutex;                  *)
(*   shifts shifts and receives with a poll;                               *)
(*   cards  one gift card with two polls;                                  *)
(*   shop   two gift cards while the shop may be switched off.             *)
EXTENDS Desk

CONSTANTS q1, e1, e2, o1, o2, p1, p2

VARIABLE load

Load == [
  swaps  |-> [calls |-> {q1}, execs |-> {e1, e2}, ops |-> {}, kinds |-> {}, polls |-> {}],
  queue  |-> [calls |-> {q1}, execs |-> {e1}, ops |-> {o1}, kinds |-> {"pegOut"}, polls |-> {}],
  shifts |-> [calls |-> {}, execs |-> {}, ops |-> {o1, o2}, kinds |-> {"shift", "receive"},
              polls |-> {p1}],
  cards  |-> [calls |-> {}, execs |-> {}, ops |-> {o1}, kinds |-> {"gift"}, polls |-> {p1, p2}],
  shop   |-> [calls |-> {}, execs |-> {}, ops |-> {o1, o2}, kinds |-> {"gift"}, polls |-> {}]]

MCInit == DeskInit /\ load \in DOMAIN Load

Within(l) ==
  /\ \A c \in Calls \ l.calls : quoting'[c] = "idle"
  /\ \A e \in Execs \ l.execs : running'[e] = "idle"
  /\ \A o \in Operations : kind'[o] \in l.kinds \cup {"none"}
  /\ \A o \in Operations \ l.ops : kind'[o] = "none"
  /\ \A p \in Polls \ l.polls : poll'[p] = NoPoll
  /\ load # "shop" => now' = 0 /\ shopOn'
  /\ load \in {"shop", "swaps"} => stops' = 0

MCNext == DeskNext /\ Within(Load[load]) /\ UNCHANGED load

MCSpec == MCInit /\ [][MCNext]_<<deskVars, load>> /\ MarketFairness /\ OrdersFairness
=============================================================================
