------------------------------ MODULE Exclusion ------------------------------
(***************************************************************************)
(* What sync.Mutex promises, and what Store takes for granted: a lock has  *)
(* one holder or none, who waits gets it only when nobody has it, and only *)
(* its holder gives it back.                                               *)
(***************************************************************************)
CONSTANTS Goroutines, Nobody

VARIABLE holder

Init == holder = Nobody

Acquire(g) == holder = Nobody /\ holder' = g

Release(g) == holder = g /\ holder' = Nobody

Next == \E g \in Goroutines : Acquire(g) \/ Release(g)

Spec == Init /\ [][Next]_holder
=============================================================================
