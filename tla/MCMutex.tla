------------------------------- MODULE MCMutex -------------------------------
(***************************************************************************)
(* Instances of Mutex for TLC.                                             *)
(***************************************************************************)
EXTENDS Mutex

CONSTANTS g1, g2, g3

MCGoroutines == {g1, g2, g3}

\* Enough for a waiter to be passed over by a newcomer, to put the mutex in
\* starvation mode and to have the hand-off stolen by a third.
MCMaxCalls == [g \in MCGoroutines |-> IF g = g3 THEN 1 ELSE 2]
=============================================================================
