-------------------------------- MODULE Curves --------------------------------
(***************************************************************************)
(* A client that asks for the curve of a cycle and then for the curve of   *)
(* its rise alone: serveCycle and serveLift, two handlers over the same    *)
(* laws.                                                                   *)
(***************************************************************************)
EXTENDS Cycle, Lift

CONSTANT LiftPoints   \* the grid sizes requested of /lift

\* The points of these grids are exact angles.
ASSUME LiftAssumption ==
  \A n \in LiftPoints, c \in Configs :
    n \in MinPoints .. MaxPoints /\ c.rise > 0 => c.rise % (n - 1) = 0

CurvesInit == Init /\ LiftInit

\* /cycle-curve is answered first.
CycleStep == Next /\ UNCHANGED liftVars

\* Then the lift of the rise, if the cycle was drawn or its rise is at fault.
AskLift ==
  LET rise == MotionSpec(cfg.riseLaw, cfg.h, cfg.rise, cfg.omega)
  IN  /\ phase = "checked" \/ (phase = "refused" /\ ~ValidSpec(rise))
      /\ \E n \in LiftPoints : Ask(rise, n)
      /\ UNCHANGED vars

LiftStep == (RefuseLift \/ SampleLift \/ CheckSeams) /\ UNCHANGED vars

CurvesNext == CycleStep \/ AskLift \/ LiftStep

CurvesSpec == CurvesInit /\ [][CurvesNext]_<<vars, liftVars>>

-----------------------------------------------------------------------------
(* Properties. *)

\* The rise of a cycle is the lift of its parameters: a cycle that was drawn
\* has a lift, the two curves agree wherever both have a sample, and the
\* internal seams are the switch joints of the rise.
RiseIsLift ==
  /\ phase = "checked" /\ stage = "refused" => grid \notin MinPoints .. MaxPoints
  /\ phase = "checked" /\ stage = "done" =>
       /\ \A i \in DOMAIN curve, k \in DOMAIN samples :
            LET x == curve[i].motion
                y == samples[k]
            IN  curve[i].segment = "rise" /\ x.theta = y.theta =>
                  <<x.s, x.v, x.a, x.j>> = <<y.s, y.v, y.a, y.j>>
       /\ LET switches == {k \in DOMAIN joints :
                             joints[k].seam.kind = "switch" /\ joints[k].leftSegment = "rise"}
          IN  /\ Cardinality(switches) = Len(seams)
              /\ \A k \in switches, m \in DOMAIN seams :
                   \A c \in {"theta", "sCont", "vCont", "aCont", "jCont"} :
                     joints[k].seam[c] = seams[m][c]
=============================================================================
