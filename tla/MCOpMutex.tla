----------------------------- MODULE MCOpMutex -----------------------------
(* Three callers of the operations that never call runExclusive from      *)
(* inside a section, and, in the other configuration, two callers that    *)
(* may also ask for a peg-in.                                              *)
EXTENDS OpMutex

FlatKinds == {"send", "withdraw", "swapQuote"}
AllKinds == FlatKinds \cup {"pegIn"}
=============================================================================
