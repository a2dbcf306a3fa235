-------------------------------- MODULE Cycle --------------------------------
(***************************************************************************)
(* internal/cycle as serveCycle runs it for one request: Validate, Build,  *)
(* Curve and Discontinuities, one action each. Rise, outer dwell, return   *)
(* and inner dwell are laid out over a full turn, dwells of angle 0 left   *)
(* out, and the curve is sampled and its joints compared.                  *)
(***************************************************************************)
EXTENDS Kinematics, Sequences, SequencesExt

CONSTANTS
  Tolerance,    \* 1e-9, what the sum of the angles may miss FullTurn by
  Configs,      \* the configurations requested, law names and signs included
  PointCounts   \* the grid sizes requested

ASSUME TurnAssumption == fl(FullTurn) = FullTurn /\ Tolerance \in Nat

\* Angles are floats with an integer half, and grid points are exact.
ASSUME InputAssumption ==
  /\ \A c \in Configs : c.h \in Int /\ c.omega \in Int
  /\ \A c \in Configs : \A x \in {c.rise, c.outer, c.return, c.inner} :
       x \in Int /\ (x > 0 => x % 2 = 0 /\ fl(x) = x)
  /\ PointCounts \subseteq Int
  /\ \A n \in PointCounts : n \in MinPoints .. MaxPoints => FullTurn % (n - 1) = 0

VARIABLES
  cfg,     \* the cycle.Config of the request
  points,  \* the grid size of the request
  phase,   \* "new", "built", "sampled", "checked" or "refused" (400)
  segs,    \* Segments.All
  curve,   \* the points of the response
  joints   \* the joints of the response

vars == <<cfg, points, phase, segs, curve, joints>>

Init ==
  /\ cfg \in Configs /\ points \in PointCounts
  /\ phase = "new"
  /\ segs = <<>> /\ curve = <<>> /\ joints = <<>>

-----------------------------------------------------------------------------
(* Config.Validate. *)

checkMotionAngle(b) == b > 0 /\ b < FullTurn

checkDwellAngle(b) == b >= 0 /\ b < FullTurn

Total(c) == fl(fl(fl(c.rise + c.outer) + c.return) + c.inner)

Validate(c) ==
  /\ Known(c.riseLaw) /\ Known(c.returnLaw)
  /\ c.h > 0 /\ c.omega > 0
  /\ checkMotionAngle(c.rise) /\ checkMotionAngle(c.return)
  /\ checkDwellAngle(c.outer) /\ checkDwellAngle(c.inner)
  /\ Abs(Total(c) - FullTurn) <= Tolerance

-----------------------------------------------------------------------------
(* Build. *)

\* Mutant: a dwell of angle 0 is kept.
presentAlways(sg) == TRUE

present(sg) == sg.beta > 0

Segment(kind, start, sp) ==
  [kind |-> kind, law |-> sp.type, start |-> start, end |-> fl(start + sp.beta), beta |-> sp.beta, spec |-> sp]

\* A segment starts where the one before it ends.
push(c, ss, kind, l, beta) ==
  LET sg == Segment(kind, IF ss = <<>> THEN 0 ELSE Last(ss).end, MotionSpec(l, c.h, beta, c.omega))
  IN  IF present(sg) THEN Append(ss, sg) ELSE ss

Build(c) ==
  LET ss1 == push(c, <<>>, "rise", c.riseLaw, c.rise)
      ss2 == push(c, ss1, "outer_dwell", "", c.outer)
      ss3 == push(c, ss2, "return", c.returnLaw, c.return)
  IN  push(c, ss3, "inner_dwell", "", c.inner)

-----------------------------------------------------------------------------
(* Point and Curve. *)

isDwell(sg) == sg.kind \in {"outer_dwell", "inner_dwell"}

FirstIn(ss, Test(_)) == ss[CHOOSE i \in DOMAIN ss : Test(ss[i]) /\ \A k \in 1 .. i - 1 : ~Test(ss[k])]

\* Mutant: a boundary belongs to the segment that starts there.
locateRight(ss, theta) ==
  LET around(sg) == theta >= sg.start /\ theta < sg.end
  IN  IF theta < FullTurn /\ \E i \in DOMAIN ss : around(ss[i]) THEN FirstIn(ss, around)
      ELSE Last(ss)

\* A boundary belongs to the dwell beside it, else to the segment that starts
\* there; a full turn belongs to the last segment.
locate(ss, theta) ==
  LET dwells(sg) == isDwell(sg) /\ theta >= sg.start /\ theta <= sg.end
      around(sg) == theta >= sg.start /\ theta < sg.end
  IN  IF theta >= FullTurn THEN Last(ss)
      ELSE IF \E i \in DOMAIN ss : dwells(ss[i]) THEN FirstIn(ss, dwells)
      ELSE IF \E i \in DOMAIN ss : around(ss[i]) THEN FirstIn(ss, around)
      ELSE Last(ss)

\* sideMotion, and Point when side is 0: a dwell rests at h or at 0. The time
\* of a moving segment's samples is that of its start.
sideMotion(sg, theta, side) ==
  IF isDwell(sg)
  THEN Motion(theta, theta, IF sg.kind = "outer_dwell" THEN sg.spec.h * Unit ELSE 0, <<0, 0, 0>>, <<0, 0, 0>>)
  ELSE SampleSide(sg.spec, sg.start, theta, sg.start, sg.kind = "return", side)

SegmentsCurve(ss, n) ==
  [i \in 1 .. n |->
     LET theta == (FullTurn * (i - 1)) \div (n - 1)
         sg == locate(ss, theta)
     IN  [segment |-> sg.kind, motion |-> sideMotion(sg, theta, 0)]]

-----------------------------------------------------------------------------
(* Discontinuities. *)

Joint(l, r, seam) == [leftSegment |-> l.kind, rightSegment |-> r.kind, seam |-> seam]

\* Mutant: the loop ends one joint early.
boundaryJointsShort(ss) ==
  [i \in 1 .. Len(ss) - 2 |->
     LET l == ss[i]
         r == ss[i + 1]
     IN  Joint(l, r, Join(l.end, "boundary", sideMotion(l, l.end, 1), sideMotion(r, r.start, -1)))]

boundaryJoints(ss) ==
  [i \in 1 .. Len(ss) - 1 |->
     LET l == ss[i]
         r == ss[i + 1]
     IN  Joint(l, r, Join(l.end, "boundary", sideMotion(l, l.end, 1), sideMotion(r, r.start, -1)))]

\* Mutant: the two sides of the midpoint are taken from the same half.
switchJointOneSided(sg) ==
  LET theta == fl(sg.start + sg.beta \div 2)
  IN  Joint(sg, sg, Join(theta, "switch", sideMotion(sg, theta, -1), sideMotion(sg, theta, -1)))

switchJoint(sg) ==
  LET theta == fl(sg.start + sg.beta \div 2)
  IN  Joint(sg, sg, Join(theta, "switch", sideMotion(sg, theta, -1), sideMotion(sg, theta, 1)))

\* The loop over the segments, of which there are four at most.
switchJoints(ss) ==
  LET at(i) == IF i <= Len(ss) /\ ss[i].law = "parabolic" THEN <<switchJoint(ss[i])>> ELSE <<>>
  IN  at(1) \o at(2) \o at(3) \o at(4)

\* Mutant: the end of the last segment is taken from its start.
cyclicJointAtStart(ss) ==
  Joint(Last(ss), ss[1],
        Join(FullTurn, "cyclic", sideMotion(Last(ss), Last(ss).start, 1), sideMotion(ss[1], 0, -1)))

cyclicJoint(ss) ==
  Joint(Last(ss), ss[1],
        Join(FullTurn, "cyclic", sideMotion(Last(ss), FullTurn, 1), sideMotion(ss[1], 0, -1)))

Discontinuities(ss) == boundaryJoints(ss) \o switchJoints(ss) \o <<cyclicJoint(ss)>>

HasDisplacementJump(js) == \E i \in DOMAIN js : ~js[i].seam.sCont

-----------------------------------------------------------------------------
(* serveCycle. *)

Go(from, to) ==
  /\ phase = from
  /\ phase' = to
  /\ UNCHANGED <<cfg, points>>

\* 400: Validate or the lower limit on the points.
Refuse ==
  /\ ~Validate(cfg) \/ points < MinPoints
  /\ Go("new", "refused")
  /\ UNCHANGED <<segs, curve, joints>>

BuildSegments ==
  /\ Validate(cfg) /\ points >= MinPoints
  /\ Go("new", "built")
  /\ segs' = Build(cfg)
  /\ UNCHANGED <<curve, joints>>

\* 400: Curve has an upper limit on the points.
RefuseGrid ==
  /\ points > MaxPoints
  /\ Go("built", "refused")
  /\ UNCHANGED <<segs, curve, joints>>

SampleCurve ==
  /\ points <= MaxPoints
  /\ Go("built", "sampled")
  /\ curve' = SegmentsCurve(segs, points)
  /\ UNCHANGED <<segs, joints>>

CheckJoints ==
  /\ Go("sampled", "checked")
  /\ joints' = Discontinuities(segs)
  /\ UNCHANGED <<segs, curve>>

Next == Refuse \/ BuildSegments \/ RefuseGrid \/ SampleCurve \/ CheckJoints

Spec == Init /\ [][Next]_vars

-----------------------------------------------------------------------------
(* Properties. *)

Kinds == {"rise", "outer_dwell", "return", "inner_dwell"}

\* The segments are those of Build and there is one sample for each grid
\* point.
TypeOK ==
  /\ cfg \in Configs /\ points \in PointCounts
  /\ phase \in {"new", "built", "sampled", "checked", "refused"}
  /\ \A i \in DOMAIN segs : segs[i].kind \in Kinds /\ segs[i].beta \in Nat \ {0}
  /\ phase \in {"sampled", "checked"} => Len(curve) = points

\* The turn closes: the angles make it exactly, or an inner dwell takes up what
\* the tolerance lets them miss.
Closing(c) == Total(c) = FullTurn \/ c.inner > 0

\* displacement_jump is false for every cycle whose turn closes. The README
\* promises it of every legal one, but a return that comes last need not be over
\* at 360 degrees, and has not begun there if it is shorter than the tolerance.
NoDisplacementJump == phase = "checked" /\ Closing(cfg) => ~HasDisplacementJump(joints)

\* No sum of angles is rounded, as with angles that are multiples of 2^-42 of a
\* degree (whole degrees, halves, quarters, ...).
ExactSums == \A x \in 0 .. 4 * FullTurn : fl(x) = x

\* Every angle is above what the tolerance and the rounding of three sums can
\* hide, 3.001e-9 degrees in the code's units.
Sizeable(c) ==
  \A x \in {c.rise, c.outer, c.return, c.inner} : x > 0 => x > 3 * (Tolerance + ulp(4 * FullTurn))

\* The angles of a cycle that Build lays out in order: none of them is tiny, or
\* their sums are exact and make a full turn.
Regular(c) == Sizeable(c) \/ (ExactSums /\ Total(c) = FullTurn)

\* The model resolves the acceleration of a parabolic motion, which the code
\* does unless it is below the absolute floor of the comparison.
Resolved(c) ==
  \A b \in {c.rise, c.return} :
    factor(MotionSpec("parabolic", c.h, b, c.omega), <<0, 4 * Unit, 0>>)[2] # 0

MovingSpecsOf(c) ==
  {MotionSpec(c.riseLaw, c.h, c.rise, c.omega), MotionSpec(c.returnLaw, c.h, c.return, c.omega)}

\* What a comparison with a dwell needs to be right: the acceleration, for a
\* cycloid the jerk, is above the resolution of the model, and the float errors
\* at the end of the motion are below the absolute floor of approxEqual.
Discernible(c) ==
  \A sp \in MovingSpecsOf(c) :
    /\ IF sp.type = "cycloid" THEN ClosedPeaks(sp).j # 0 ELSE ClosedPeaks(sp).a # 0
    /\ \A k \in 1 .. 3 : Abs(factor(sp, EndNoise(sp.type))[k]) <= Floor

\* The grid meets the return at multiples of 1/72 of its angle, where the table
\* of sines is exact.
OnTable(c, n) ==
  \A i \in 1 .. n :
    LET x == (FullTurn * (i - 1)) \div (n - 1) - (c.rise + c.outer)
    IN  x \in 0 .. c.return => (HalfTurn * x) % c.return = 0

\* The displacement that the four angles prescribe at theta.
Profile(c, theta) ==
  LET o1 == c.rise
      o2 == o1 + c.outer
      o3 == o2 + c.return
      y(l, x, beta) == c.h * EvalSide(l, [n |-> x, d |-> beta], 0).y
  IN  IF theta <= o1 THEN y(c.riseLaw, theta, c.rise)
      ELSE IF theta <= o2 THEN c.h * Unit
      ELSE y(c.returnLaw, o3 - theta, c.return)

\* Every sample has the displacement the four angles prescribe there, up to
\* the rounding of the tables, whichever dwells are left out and whichever
\* segment locate gives it to.
CurveIsProfile ==
  phase = "checked" =>
    \A i \in DOMAIN curve :
      Abs(curve[i].motion.s - Profile(cfg, curve[i].motion.theta)) <= cfg.h

\* A sample on a boundary is one of the two sides that the joint there
\* reports, the dwell's if there is one, else the later segment's: the curve
\* and the joints, computed along different ways, agree.
BoundaryOwner ==
  phase = "checked" =>
    \A i \in DOMAIN curve, k \in DOMAIN joints :
      LET p == curve[i]
          q == joints[k]
          same(x, y) == <<x.s, x.v, x.a, x.j>> = <<y.s, y.v, y.a, y.j>>
          dwell(kind) == kind \in {"outer_dwell", "inner_dwell"}
      IN  q.seam.kind = "boundary" /\ q.seam.theta = p.motion.theta =>
            IF dwell(q.leftSegment)
            THEN p.segment = q.leftSegment /\ same(p.motion, q.seam.left)
            ELSE p.segment = q.rightSegment /\ same(p.motion, q.seam.right)

\* Every parabolic segment is reported with its midpoint: displacement and
\* velocity continuous there, acceleration not.
SwitchReported ==
  phase = "checked" =>
    \A i \in DOMAIN segs : segs[i].law = "parabolic" =>
      \E k \in DOMAIN joints :
        /\ joints[k].seam.kind = "switch" /\ joints[k].leftSegment = segs[i].kind
        /\ joints[k].seam.sCont /\ joints[k].seam.vCont /\ ~joints[k].seam.aCont

\* Where a motion meets a dwell the velocity is continuous, the acceleration
\* only for a cycloid, and the jerk for the other two.
DwellSmoothness ==
  phase = "checked" =>
    \A k \in DOMAIN joints :
      LET q == joints[k]
          kinds == {q.leftSegment, q.rightSegment}
          l == IF "rise" \in kinds THEN cfg.riseLaw ELSE cfg.returnLaw
      IN  kinds \cap {"outer_dwell", "inner_dwell"} # {} =>
            /\ q.seam.vCont
            /\ q.seam.aCont <=> l = "cycloid"
            /\ q.seam.jCont <=> l # "cycloid"

\* The closed-form peaks of the steeper of the two motions, and what the
\* rounding of the tables can add to a difference of two samples.
MovingSpecs == {segs[i].spec : i \in {k \in DOMAIN segs : ~isDwell(segs[k])}}

Steepest(order) == Max({ClosedPeaks(sp)[order] : sp \in MovingSpecs})

Rounding(order) == Max({factor(sp, <<3, 3, 3>>)[order] + 2 * sp.h : sp \in MovingSpecs})

\* The order of a curve's value, the flag of a joint for it, and the peak of its
\* derivative.
Orders == {[of |-> "s", cont |-> "sCont", peak |-> "v", slack |-> 1],
           [of |-> "v", cont |-> "vCont", peak |-> "a", slack |-> 1],
           [of |-> "a", cont |-> "aCont", peak |-> "j", slack |-> 2]}

\* No silent jump: where two neighbouring samples differ by more than the
\* closed-form peak of the next derivative allows in the time between them, the
\* joints report a discontinuity of that order between the two angles. Curve,
\* ClosedPeaks and Discontinuities are computed along separate ways.
JumpsReported ==
  phase = "checked" =>
    \A o \in Orders :
      LET far(x, y) ==
            Abs(y[o.of] - x[o.of])
              > Quot(Steepest(o.peak) * (y.theta - x.theta), cfg.omega) + Rounding(o.slack)
          reported(lo, hi) ==
            \E k \in DOMAIN joints : joints[k].seam.theta \in lo .. hi /\ ~joints[k].seam[o.cont]
      IN  \A i \in 1 .. Len(curve) - 1 :
            far(curve[i].motion, curve[i + 1].motion) =>
              reported(curve[i].motion.theta, curve[i + 1].motion.theta)

\* The curve closes as the joints say: the joint at the full turn has the last
\* sample of the curve on its left and the first on its right, whatever the
\* grid, and reports every order in which the two differ.
CurveCloses ==
  phase = "checked" =>
    LET q == Last(joints).seam
        left == Last(curve).motion
        right == curve[1].motion
    IN  /\ q.kind = "cyclic" /\ q.theta = left.theta
        /\ \A x \in {"s", "v", "a", "j"} : q.left[x] = left[x] /\ q.right[x] = right[x]
        /\ \A o \in Orders : left[o.of] # right[o.of] => ~q[o.cont]

\* The time of a sample is the angle over omega, counted from the beginning of
\* the turn.
TimeFollowsAngle ==
  phase = "checked" => \A i \in DOMAIN curve : curve[i].motion.time = curve[i].motion.theta
=============================================================================
