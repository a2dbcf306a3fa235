------------------------------ MODULE Kinematics ------------------------------
(***************************************************************************)
(* internal/kinematics: a law restored to the stroke h, the angle beta and *)
(* the speed omega of a segment, its curve and peaks, and the comparison   *)
(* of the two sides of a joint.                                            *)
(*                                                                         *)
(* Angles are integers, in units small enough that half an angle is one; a *)
(* float64 sum or difference of angles is the exact one rounded to Prec    *)
(* significant bits. A time t is kept as the angle t * omega.              *)
(***************************************************************************)
EXTENDS Law

CONSTANTS
  Prec,       \* significant bits of a float64 (53)
  MaxExp,     \* bound: the largest exponent the rounding needs
  FullTurn,   \* 360 degrees
  MinPoints,  \* 2
  MaxPoints,  \* 200001
  Floor       \* seamAbsFloor, 1e-12, in the unit of the noise

ASSUME KinematicsAssumption ==
  /\ {Prec, MaxExp, FullTurn, MaxPoints, Floor} \subseteq Nat \ {0}
  /\ MinPoints \in Nat /\ MinPoints > 1

\* Arithmetic of the powers that ulp uses, which the provers do not know.
ASSUME PowersOfTwo ==
  \A k \in 0 .. Prec + MaxExp : 2^k \in Nat \ {0} /\ 2^(k + 1) = 2 * 2^k

\* The exponents suffice for the sums of angles there are.
ASSUME ExponentAssumption == 8 * FullTurn < 2^MaxExp * 2^Prec

-----------------------------------------------------------------------------
(* float64 arithmetic on non-negative angles. *)

\* The distance between the floats around x.
ulp(x) ==
  CHOOSE u \in {2^k : k \in 0 .. MaxExp} :
    x < u * 2^Prec /\ (u = 1 \/ x >= u * 2^(Prec - 1))

\* Round to nearest, ties to even.
fl(x) ==
  LET u == ulp(x)
      q == x \div u
      r == 2 * (x % u)
  IN  u * (IF r > u \/ (r = u /\ q % 2 = 1) THEN q + 1 ELSE q)

-----------------------------------------------------------------------------
(* Spec and its restoration. *)

MotionSpec(l, h, beta, omega) == [type |-> l, h |-> h, beta |-> beta, omega |-> omega]

\* Spec.Validate
ValidSpec(sp) ==
  /\ Known(sp.type)
  /\ sp.h > 0
  /\ sp.beta > 0 /\ sp.beta < FullTurn
  /\ sp.omega > 0

\* factor: h * (omega / beta)^k * x for k = 1, 2 and 3.
factor(sp, x) ==
  LET o(y) == MulDiv(y, sp.omega, sp.beta)
      h(y) == sp.h * y
  IN  <<o(h(x[1])), o(o(h(x[2]))), o(o(o(h(x[3]))))>>

Motion(theta, time, s, d, noise) ==
  [theta |-> theta, time |-> time, s |-> s, v |-> d[1], a |-> d[2], j |-> d[3], noise |-> noise]

\* Mutant: the displacement of a return is not mirrored.
restoreUnmirrored(w, sp, theta, time, returning) ==
  LET dir(x) == IF returning THEN <<-x[1], -x[2], -x[3]>> ELSE x
  IN  Motion(theta, time, sp.h * w.y,
             dir(factor(sp, <<w.y1, w.y2, w.y3>>)), dir(factor(sp, w.noise)))

\* A return mirrors the displacement and negates the derivatives.
restore(w, sp, theta, time, returning) ==
  LET dir(x) == IF returning THEN <<-x[1], -x[2], -x[3]>> ELSE x
      s == sp.h * w.y
  IN  Motion(theta, time, IF returning THEN sp.h * Unit - s ELSE s,
             dir(factor(sp, <<w.y1, w.y2, w.y3>>)), dir(factor(sp, w.noise)))

\* The motion at theta of a segment that starts at theta0; Sample when side is
\* 0. Before its start the difference is negative and T is clamped.
SampleSide(sp, theta0, theta, time, returning, side) ==
  LET x == IF theta > theta0 THEN fl(theta - theta0) ELSE 0
  IN  restore(EvalSide(sp.type, [n |-> x, d |-> sp.beta], side), sp, theta, time, returning)

ClosedPeaks(sp) ==
  LET p == factor(sp, UnitPeaks(sp.type)) IN [v |-> p[1], a |-> p[2], j |-> p[3]]

\* Mutant: the angle advances by beta / n, T by 1 / (n - 1).
CurveOffGrid(sp, n) ==
  [i \in 1 .. n |->
     LET T == [n |-> i - 1, d |-> n - 1]
         theta == (T.n * sp.beta) \div n
     IN  restore(EvalSide(sp.type, T, 0), sp, theta, theta, FALSE)]

\* Equal steps over the segment, both ends included.
Curve(sp, n) ==
  [i \in 1 .. n |->
     LET T == [n |-> i - 1, d |-> n - 1]
         theta == (T.n * sp.beta) \div T.d
     IN  restore(EvalSide(sp.type, T, 0), sp, theta, theta, FALSE)]

-----------------------------------------------------------------------------
(* Join and InternalSeams. *)

\* Mutant: there is no absolute floor.
approxEqualRelative(x, y, ex, ey) == x = y /\ (x = 0 => ex = ey)

\* approxEqual: the relative tolerance is below Unit, and covers the noise of
\* a value that is not 0; where both vanish the absolute floor decides.
approxEqual(x, y, ex, ey) == x = y /\ (x = 0 => Abs(ex - ey) <= Floor)

Join(theta, kind, left, right) ==
  [ theta |-> theta, kind |-> kind, left |-> left, right |-> right,
    sCont |-> left.s = right.s,
    vCont |-> approxEqual(left.v, right.v, left.noise[1], right.noise[1]),
    aCont |-> approxEqual(left.a, right.a, left.noise[2], right.noise[2]),
    jCont |-> approxEqual(left.j, right.j, left.noise[3], right.noise[3]) ]

\* The midpoint of the parabolic law; the other laws are smooth.
InternalSeams(sp, theta0) ==
  LET theta == fl(theta0 + sp.beta \div 2)
      at(side) == SampleSide(sp, theta0, theta, sp.beta \div 2, FALSE, side)
  IN  IF sp.type = "parabolic" THEN <<Join(theta, "switch", at(-1), at(1))>> ELSE <<>>
=============================================================================
