-------------------------- MODULE ExclusiveSection --------------------------
(* What a mutex promises: one caller at a time is inside, and it is inside *)
(* until it leaves.  OpMutex implements this.                              *)
CONSTANT Callers
VARIABLE inside

Init == inside = {}

Enter(c) == inside = {} /\ inside' = {c}
Leave(c) == inside = {c} /\ inside' = {}

Next == \E c \in Callers : Enter(c) \/ Leave(c)

Spec == Init /\ [][Next]_inside
=============================================================================
