------------------------------- MODULE MCStore -------------------------------
(***************************************************************************)
(* Instances of Store for TLC: one kind has two legal names, so that a     *)
(* list has two files to read, and one of them can be saved with two       *)
(* different bodies, so that writers of the same name collide.             *)
(***************************************************************************)
EXTENDS Store, TLC

CONSTANTS c1, c2, n1, n2, blank, illegal, b1, b2, bad

MCNames == {n1, n2, blank, illegal}
MCBlankNames == {blank}
MCIllegalNames == {blank, illegal}
MCBodies == {b1, b2, bad}
MCInvalidBodies == {bad}

MCCallers == {c1, c2}

\* The two callers run the same code.
Symmetry == Permutations(MCCallers)

SaveCall(k, n, b) == [type |-> "save", kind |-> k, name |-> n, body |-> b]
GetCall(k, n) == [type |-> "get", kind |-> k, name |-> n]
ListCall(k) == [type |-> "list", kind |-> k]

MCCalls ==
  { SaveCall("recipe", n1, b1), SaveCall("recipe", n1, b2),
    SaveCall("recipe", n2, b1), SaveCall("cycle", n1, b2),
    SaveCall("recipe", n1, bad), SaveCall("recipe", illegal, b1),
    SaveCall("cycle", blank, b1),
    GetCall("recipe", n1), GetCall("cycle", illegal),
    ListCall("recipe") }

\* Two names to list, one of them overwritten.
MCListCalls ==
  { SaveCall("recipe", n1, b1), SaveCall("recipe", n1, b2),
    SaveCall("recipe", n2, b1), SaveCall("cycle", illegal, b1),
    GetCall("recipe", n1), ListCall("recipe") }
=============================================================================
