------------------------------ MODULE OpChain ------------------------------
(***************************************************************************)
(* The wallet's opMutex as the modules that queue on it share it: the      *)
(* chain of the operations whose section has not settled, oldest first.    *)
(* OpMutex models the mutex itself.                                        *)
(***************************************************************************)
EXTENDS Sequences

VARIABLE chain

\* runExclusive(fn) appends fn; fn runs when it is the oldest, and the next
\* one starts whether fn resolved or rejected.
Join(c) == chain' = Append(chain, c)
Turn(c) == chain # <<>> /\ Head(chain) = c
Settled == chain' = Tail(chain)
=============================================================================
