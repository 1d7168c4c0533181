---------------------------- MODULE PayoutLedger ----------------------------
(***************************************************************************)
(* What a withdrawal promises its caller, whatever crashes, retries and    *)
(* recoveries lie in between: it is opened once, it is paid at most once,  *)
(* and what was refused is never paid.                                     *)
(***************************************************************************)
CONSTANT Withdrawals

VARIABLES
  status  \* "new", "open", "paid" or "refused"

Init == status = [w \in Withdrawals |-> "new"]

Become(w, from, to) == status[w] = from /\ status' = [status EXCEPT ![w] = to]

Open(w) == Become(w, "new", "open")
Pay(w) == Become(w, "open", "paid")
Refuse(w) == Become(w, "open", "refused")

Next == \E w \in Withdrawals : Open(w) \/ Pay(w) \/ Refuse(w)

Spec == Init /\ [][Next]_status
=============================================================================
