---------------------------- MODULE CurvesProofs ----------------------------
(***************************************************************************)
(* Proofs about Curves: the peaks of a lift, and the rise of a cycle next  *)
(* to the lift of its parameters, for any configurations and grids.        *)
(***************************************************************************)
EXTENDS Curves, CycleProofs, FiniteSetTheorems

-----------------------------------------------------------------------------
(* Invariance. *)

\* A client of both handlers sees of serveCycle what a client of it alone does.
THEOREM CurvesRunCycle == CurvesSpec => Spec
<1>1. CurvesInit => Init
  BY DEF CurvesInit
<1>2. [CurvesNext]_<<vars, liftVars>> => [Next]_vars
  BY DEF CurvesNext, CycleStep, AskLift, LiftStep, vars
<1>. QED
  BY <1>1, <1>2, PTL DEF CurvesSpec, Spec

\* The specification that the lift of a cycle's rise has.
RiseSpec(c) == MotionSpec(c.riseLaw, c.h, c.rise, c.omega)

\* What the steps of serveLift leave behind.
LiftProgress ==
  /\ stage \in {"idle", "asked", "curve", "done", "refused"}
  /\ stage # "idle" => spec = RiseSpec(cfg) /\ grid \in LiftPoints
  /\ stage = "refused" => ~ValidSpec(spec) \/ grid < MinPoints \/ grid > MaxPoints
  /\ stage \in {"curve", "done"} =>
       /\ ValidSpec(spec) /\ grid \in MinPoints .. MaxPoints
       /\ samples = Curve(spec, grid) /\ peaks = ClosedPeaks(spec)
  /\ stage = "done" => seams = InternalSeams(spec, 0)

\* The steps of both handlers keep it, cfg being the same throughout.
LEMMA LiftInvariant == CurvesSpec => []LiftProgress
<1>1. CurvesInit => LiftProgress
  BY DEF CurvesInit, LiftInit, LiftProgress
<1>2. LiftProgress /\ [CurvesNext]_<<vars, liftVars>> => LiftProgress'
  <2>. SUFFICES ASSUME LiftProgress, [CurvesNext]_<<vars, liftVars>>
                PROVE  LiftProgress'
    OBVIOUS
  <2>1. CASE CycleStep
    BY <2>1 DEF LiftProgress, CycleStep, liftVars, Next, Refuse, BuildSegments, RefuseGrid, SampleCurve,
                CheckJoints, Go
  <2>2. CASE AskLift
    BY <2>2 DEF LiftProgress, AskLift, Ask, vars, RiseSpec
  <2>3. CASE RefuseLift /\ UNCHANGED vars
    BY <2>3 DEF LiftProgress, RefuseLift, vars
  <2>4. CASE SampleLift /\ UNCHANGED vars
    BY <2>4 DEF LiftProgress, SampleLift, vars
  <2>5. CASE CheckSeams /\ UNCHANGED vars
    BY <2>5 DEF LiftProgress, CheckSeams, vars
  <2>6. CASE UNCHANGED <<vars, liftVars>>
    BY <2>6 DEF LiftProgress, vars, liftVars
  <2>. QED
    BY <2>1, <2>2, <2>3, <2>4, <2>5, <2>6 DEF CurvesNext, LiftStep
<1>. QED
  BY <1>1, <1>2, PTL DEF CurvesSpec

\* The two together.
LEMMA BothInvariant == CurvesSpec => [](Progress /\ LiftProgress)
BY CurvesRunCycle, ProgressInvariant, LiftInvariant, PTL

-----------------------------------------------------------------------------
(* The peaks. *)

\* The parameters of a lift that was drawn.
LEMMA LiftSpec ==
  ASSUME Progress, LiftProgress, stage = "done"
  PROVE  /\ spec = RiseSpec(cfg) /\ cfg \in Configs
         /\ spec.type = cfg.riseLaw /\ spec.h = cfg.h /\ spec.beta = cfg.rise /\ spec.omega = cfg.omega
         /\ spec.type \in Laws
         /\ spec.h \in Nat /\ spec.omega \in Nat /\ spec.beta \in Nat /\ spec.beta > 0
         /\ grid \in Nat /\ grid > 1 /\ grid \in MinPoints .. MaxPoints /\ grid \in LiftPoints
         /\ samples = Curve(spec, grid) /\ peaks = ClosedPeaks(spec) /\ seams = InternalSeams(spec, 0)
<1>1. /\ spec = RiseSpec(cfg) /\ cfg \in Configs /\ grid \in LiftPoints
      /\ ValidSpec(spec) /\ grid \in MinPoints .. MaxPoints
      /\ samples = Curve(spec, grid) /\ peaks = ClosedPeaks(spec) /\ seams = InternalSeams(spec, 0)
  BY DEF Progress, LiftProgress
<1>2. spec.type = cfg.riseLaw /\ spec.h = cfg.h /\ spec.beta = cfg.rise /\ spec.omega = cfg.omega
  BY <1>1 DEF RiseSpec, MotionSpec
<1>3. cfg.h \in Int /\ cfg.omega \in Int /\ cfg.rise \in Int
  BY <1>1, InputAssumption
<1>4. spec.type \in Laws /\ spec.h > 0 /\ spec.beta > 0 /\ spec.omega > 0
  BY <1>1 DEF ValidSpec, Known
<1>5. grid \in Nat /\ grid > 1
  BY <1>1, KinematicsAssumption
<1>. QED
  BY <1>1, <1>2, <1>3, <1>4, <1>5

\* The rows of a lift.
LEMMA LiftRows ==
  ASSUME NEW sp, NEW n \in Nat, NEW i \in 1 .. n
  PROVE  LET m == Curve(sp, n)[i]
             w == EvalSide(sp.type, [n |-> i - 1, d |-> n - 1], 0)
             o(y) == MulDiv(y, sp.omega, sp.beta)
         IN  /\ m.theta = ((i - 1) * sp.beta) \div (n - 1)
             /\ m.s = sp.h * w.y /\ m.v = o(sp.h * w.y1)
             /\ m.a = o(o(sp.h * w.y2)) /\ m.j = o(o(o(sp.h * w.y3)))
<1>. DEFINE w == EvalSide(sp.type, [n |-> i - 1, d |-> n - 1], 0)
            theta == ((i - 1) * sp.beta) \div (n - 1)
<1>1. Curve(sp, n)[i] = restore(w, sp, theta, theta, FALSE)
  BY DEF Curve
<1>. HIDE DEF w, theta
<1>2. LET m == restore(w, sp, theta, theta, FALSE)
          o(y) == MulDiv(y, sp.omega, sp.beta)
      IN  /\ m.theta = theta
          /\ m.s = sp.h * w.y /\ m.v = o(sp.h * w.y1)
          /\ m.a = o(o(sp.h * w.y2)) /\ m.j = o(o(o(sp.h * w.y3)))
  BY DEF restore, Motion, factor
<1>. QED
  BY <1>1, <1>2, Zenon DEF w, theta

\* Scaling keeps bounds and signs.
LEMMA ScaleBound ==
  ASSUME NEW h \in Nat, NEW m \in Nat, NEW b \in Nat, b > 0, NEW z \in Nat, NEW y, Within(y, z)
  PROVE  LET o(x) == MulDiv(x, m, b)
         IN  /\ o(h * z) \in Nat /\ Within(o(h * y), o(h * z))
             /\ o(o(h * z)) \in Nat /\ Within(o(o(h * y)), o(o(h * z)))
             /\ o(o(o(h * z))) \in Nat /\ Within(o(o(o(h * y))), o(o(o(h * z))))
<1>. DEFINE o(x) == MulDiv(x, m, b)
<1>1. \A u \in Nat : \A x : Within(x, u) => o(u) \in Nat /\ Within(o(x), o(u))
  <2>. SUFFICES ASSUME NEW u \in Nat, NEW x, Within(x, u)
                PROVE  o(u) \in Nat /\ Within(o(x), o(u))
    OBVIOUS
  <2>1. x \in Int /\ -u <= x /\ x <= u
    BY DEF Within
  <2>2. o(x) \in Int
    BY <2>1, MulDivOdd
  <2>3. o(u) \in Nat /\ -o(u) <= o(x) /\ o(x) <= o(u)
    BY <2>1, MulDivBound
  <2>. HIDE DEF o
  <2>. QED
    BY <2>2, <2>3 DEF Within
<1>2. h * z \in Nat /\ Within(h * y, h * z)
  <2>1. y \in Int /\ -z <= y /\ y <= z
    BY DEF Within
  <2>2. h * y \in Int /\ h * z \in Nat /\ h * y <= h * z /\ h * (-z) <= h * y /\ h * (-z) = -(h * z)
    BY <2>1
  <2>. QED
    BY <2>2 DEF Within
<1>. HIDE DEF o
<1>3. o(h * z) \in Nat /\ Within(o(h * y), o(h * z))
  BY <1>1, <1>2
<1>4. o(o(h * z)) \in Nat /\ Within(o(o(h * y)), o(o(h * z)))
  BY <1>1, <1>3
<1>5. o(o(o(h * z))) \in Nat /\ Within(o(o(o(h * y))), o(o(o(h * z))))
  BY <1>1, <1>4
<1>. QED
  BY <1>3, <1>4, <1>5 DEF o

\* The peaks of a lift.
LEMMA LiftPeaks ==
  ASSUME NEW sp
  PROVE  LET p == ClosedPeaks(sp)
             u == UnitPeaks(sp.type)
             o(y) == MulDiv(y, sp.omega, sp.beta)
         IN  p.v = o(sp.h * u[1]) /\ p.a = o(o(sp.h * u[2])) /\ p.j = o(o(o(sp.h * u[3])))
BY DEF ClosedPeaks, factor

\* No row exceeds the peaks.
LEMMA PeaksBound ==
  ASSUME NEW sp, sp.type \in Laws, sp.h \in Nat, sp.omega \in Nat, sp.beta \in Nat, sp.beta > 0,
         NEW n \in Nat, n > 1, NEW i \in 1 .. n
  PROVE  LET m == Curve(sp, n)[i]
             p == ClosedPeaks(sp)
         IN  /\ p.v \in Nat /\ p.a \in Nat /\ p.j \in Nat
             /\ Within(m.v, p.v) /\ Within(m.a, p.a) /\ Within(m.j, p.j)
<1>. DEFINE m == Curve(sp, n)[i]
            p == ClosedPeaks(sp)
            w == EvalSide(sp.type, [n |-> i - 1, d |-> n - 1], 0)
            u == UnitPeaks(sp.type)
            o(y) == MulDiv(y, sp.omega, sp.beta)
<1>1. m.v = o(sp.h * w.y1) /\ m.a = o(o(sp.h * w.y2)) /\ m.j = o(o(o(sp.h * w.y3)))
  BY LiftRows
<1>2. p.v = o(sp.h * u[1]) /\ p.a = o(o(sp.h * u[2])) /\ p.j = o(o(o(sp.h * u[3])))
  BY LiftPeaks
<1>3. u[1] \in Nat /\ u[2] \in Nat /\ u[3] \in Nat
  BY PeaksAre DEF Laws
<1>4. Within(w.y1, u[1]) /\ Within(w.y2, u[2]) /\ Within(w.y3, u[3])
  <2>1. i - 1 \in Int /\ n - 1 \in Int /\ n - 1 > 0
    OBVIOUS
  <2>. QED
    BY <2>1, EvalBound
<1>. HIDE DEF m, p, w, u
<1>5. o(sp.h * u[1]) \in Nat /\ Within(o(sp.h * w.y1), o(sp.h * u[1]))
  BY <1>3, <1>4, ScaleBound
<1>6. o(o(sp.h * u[2])) \in Nat /\ Within(o(o(sp.h * w.y2)), o(o(sp.h * u[2])))
  BY <1>3, <1>4, ScaleBound
<1>7. o(o(o(sp.h * u[3]))) \in Nat /\ Within(o(o(o(sp.h * w.y3))), o(o(o(sp.h * u[3]))))
  BY <1>3, <1>4, ScaleBound
<1>. HIDE DEF o
<1>8. /\ p.v \in Nat /\ p.a \in Nat /\ p.j \in Nat
      /\ Within(m.v, p.v) /\ Within(m.a, p.a) /\ Within(m.j, p.j)
  BY <1>1, <1>2, <1>5, <1>6, <1>7
<1>. QED
  BY <1>8 DEF m, p

\* A grid with the quarters attains them.
LEMMA PeaksAttained ==
  ASSUME NEW sp, sp.type \in Laws, sp.h \in Nat, sp.omega \in Nat, sp.beta \in Nat, sp.beta > 0,
         NEW n \in Nat, n > 1, n % 4 = 1
  PROVE  LET m == Curve(sp, n)
             p == ClosedPeaks(sp)
         IN  /\ \E i \in 1 .. n : m[i].v = p.v
             /\ \E i \in 1 .. n : m[i].a = p.a
             /\ \E i \in 1 .. n : m[i].j = p.j \/ m[i].j = -p.j
<1>. DEFINE k == n \div 4
            m == Curve(sp, n)
            p == ClosedPeaks(sp)
            l == sp.type
            u == UnitPeaks(l)
            o(y) == MulDiv(y, sp.omega, sp.beta)
            W(x) == EvalSide(l, [n |-> x * k, d |-> 4 * k], 0)
            qa == IF l = "cycloid" THEN 1 ELSE 0
            qj == IF l = "cosine" THEN 2 ELSE 0
<1>1. k \in Int /\ k > 0 /\ n = 4 * k + 1
  OBVIOUS
<1>2. /\ W(2).y1 = u[1] /\ W(qa).y2 = u[2]
      /\ W(qj).y3 = IF l = "cosine" THEN -u[3] ELSE u[3]
  <2>. HIDE DEF k
  <2>. QED
    BY <1>1, EvalAttains
<1>3. p.v = o(sp.h * u[1]) /\ p.a = o(o(sp.h * u[2])) /\ p.j = o(o(o(sp.h * u[3])))
  BY LiftPeaks
<1>4. \A x \in {0, 1, 2} :
        /\ x * k + 1 \in 1 .. n
        /\ m[x * k + 1].v = o(sp.h * W(x).y1)
        /\ m[x * k + 1].a = o(o(sp.h * W(x).y2))
        /\ m[x * k + 1].j = o(o(o(sp.h * W(x).y3)))
  <2>. HIDE DEF k
  <2>. TAKE x \in {0, 1, 2}
  <2>. DEFINE i == x * k + 1
              w == EvalSide(l, [n |-> i - 1, d |-> n - 1], 0)
  <2>1. i \in 1 .. n
    BY <1>1
  <2>2. i - 1 = x * k /\ n - 1 = 4 * k
    BY <1>1
  <2>3. w = W(x)
    BY <2>2
  <2>. HIDE DEF i
  <2>4. m[i].v = o(sp.h * w.y1) /\ m[i].a = o(o(sp.h * w.y2)) /\ m[i].j = o(o(o(sp.h * w.y3)))
    BY <2>1, LiftRows
  <2>. HIDE DEF w, W, o, m
  <2>5. m[i].v = o(sp.h * W(x).y1) /\ m[i].a = o(o(sp.h * W(x).y2)) /\ m[i].j = o(o(o(sp.h * W(x).y3)))
    BY <2>3, <2>4
  <2>. QED
    BY <2>1, <2>5 DEF i
<1>5. u[3] \in Nat
  BY PeaksAre DEF Laws
<1>6. \A y \in Int : o(y) \in Int /\ o(-y) = -o(y)
  <2>. DEFINE om == sp.omega
              be == sp.beta
  <2>1. om \in Int /\ be \in Int /\ be > 0
    OBVIOUS
  <2>. HIDE DEF om, be
  <2>2. \A y \in Int : MulDiv(y, om, be) \in Int /\ MulDiv(-y, om, be) = -MulDiv(y, om, be)
    BY <2>1, MulDivOdd, Zenon
  <2>. QED
    BY <2>2 DEF om, be
<1>. HIDE DEF k, m, p, u, o, W
<1>7. sp.h * u[3] \in Int /\ sp.h * (-u[3]) = -(sp.h * u[3])
  BY <1>5
<1>8. o(o(o(sp.h * (-u[3])))) = -o(o(o(sp.h * u[3])))
  BY <1>6, <1>7
<1>9. m[2 * k + 1].v = p.v /\ 2 * k + 1 \in 1 .. n
  BY <1>2, <1>3, <1>4
<1>10. qa \in {0, 1, 2} /\ qj \in {0, 1, 2}
  OBVIOUS
<1>11. m[qa * k + 1].a = p.a /\ qa * k + 1 \in 1 .. n
  <2>. HIDE DEF qa
  <2>. QED
    BY <1>2, <1>3, <1>4, <1>10
<1>12. (m[qj * k + 1].j = p.j \/ m[qj * k + 1].j = -p.j) /\ qj * k + 1 \in 1 .. n
  <2>1. W(qj).y3 = -u[3] \/ W(qj).y3 = u[3]
    BY <1>2
  <2>. HIDE DEF qj
  <2>. QED
    BY <1>3, <1>4, <1>8, <1>10, <2>1
<1>. HIDE DEF qa, qj
<1>13. (\E i \in 1 .. n : m[i].v = p.v) /\ (\E i \in 1 .. n : m[i].a = p.a)
  BY <1>9, <1>11
<1>14. \E i \in 1 .. n : m[i].j = p.j \/ m[i].j = -p.j
  BY <1>12
<1>. QED
  BY <1>13, <1>14 DEF m, p

\* The closed-form peaks that serveLift answers are the largest absolute values
\* of the columns of its curve: for every law, stroke, angle, speed and grid no
\* row exceeds them, and a grid with the quarters attains them.
THEOREM PeaksAreMaximaEver == CurvesSpec => []PeaksAreMaxima
<1>1. Progress /\ LiftProgress => PeaksAreMaxima
  <2>. SUFFICES ASSUME Progress, LiftProgress, stage = "done", NEW o \in {"v", "a", "j"}
                PROVE  /\ \A i \in DOMAIN samples : Abs(samples[i][o]) <= peaks[o]
                       /\ grid % 4 = 1 => \E i \in DOMAIN samples : Abs(samples[i][o]) = peaks[o]
    BY DEF PeaksAreMaxima
  <2>1. /\ spec.type \in Laws
        /\ spec.h \in Nat /\ spec.omega \in Nat /\ spec.beta \in Nat /\ spec.beta > 0
        /\ grid \in Nat /\ grid > 1
        /\ samples = Curve(spec, grid) /\ peaks = ClosedPeaks(spec)
    BY LiftSpec
  <2>2. DOMAIN samples = 1 .. grid
    BY <2>1 DEF Curve
  <2>3. \A i \in 1 .. grid :
          /\ peaks.v \in Nat /\ peaks.a \in Nat /\ peaks.j \in Nat
          /\ Within(samples[i].v, peaks.v) /\ Within(samples[i].a, peaks.a) /\ Within(samples[i].j, peaks.j)
    BY <2>1, PeaksBound
  <2>4. grid % 4 = 1 =>
          /\ \E i \in 1 .. grid : samples[i].v = peaks.v
          /\ \E i \in 1 .. grid : samples[i].a = peaks.a
          /\ \E i \in 1 .. grid : samples[i].j = peaks.j \/ samples[i].j = -peaks.j
    BY <2>1, PeaksAttained
  <2>5. \A i \in 1 .. grid : peaks[o] \in Nat /\ Within(samples[i][o], peaks[o])
    BY <2>3
  <2>6. grid % 4 = 1 => \E i \in 1 .. grid : samples[i][o] = peaks[o] \/ samples[i][o] = -peaks[o]
    BY <2>4
  <2>7. \A z \in Nat : \A x : Within(x, z) => Abs(x) <= z /\ (x = z \/ x = -z => Abs(x) = z)
    BY DEF Within, Abs
  <2>8. \A i \in DOMAIN samples : Abs(samples[i][o]) <= peaks[o]
    BY <2>2, <2>5, <2>7
  <2>9. ASSUME grid % 4 = 1
        PROVE  \E i \in DOMAIN samples : Abs(samples[i][o]) = peaks[o]
    <3>1. PICK i \in 1 .. grid : samples[i][o] = peaks[o] \/ samples[i][o] = -peaks[o]
      BY <2>6, <2>9
    <3>2. Abs(samples[i][o]) = peaks[o]
      BY <2>5, <2>7, <3>1
    <3>. QED
      BY <2>2, <3>2
  <2>. QED
    BY <2>8, <2>9
<1>. QED
  BY <1>1, BothInvariant, PTL

-----------------------------------------------------------------------------
(* The rise and the lift. *)

\* locate returns one of the segments.
LEMMA LocateIn ==
  ASSUME NEW S, NEW ss \in Seq(S), Len(ss) \in 2 .. 4, NEW theta
  PROVE  locate(ss, theta) \in S
<1>. DEFINE n == Len(ss)
            dwells(sg) == isDwell(sg) /\ theta >= sg.start /\ theta <= sg.end
            around(sg) == theta >= sg.start /\ theta < sg.end
            firstD(k) == dwells(ss[k]) /\ \A m \in 1 .. k - 1 : ~dwells(ss[m])
            firstA(k) == around(ss[k]) /\ \A m \in 1 .. k - 1 : ~around(ss[m])
<1>0. DOMAIN ss = 1 .. n /\ n \in 2 .. 4 /\ \A k \in 1 .. n : ss[k] \in S
  OBVIOUS
<1>1. locate(ss, theta) =
        IF theta >= FullTurn THEN Last(ss)
        ELSE IF \E k \in DOMAIN ss : dwells(ss[k]) THEN ss[CHOOSE k \in DOMAIN ss : firstD(k)]
        ELSE IF \E k \in DOMAIN ss : around(ss[k]) THEN ss[CHOOSE k \in DOMAIN ss : firstA(k)]
        ELSE Last(ss)
  BY Zenon DEF locate, FirstIn
<1>2. Last(ss) \in S
  BY <1>0 DEF Last
<1>. HIDE DEF n, dwells, around
<1>3. ASSUME \E k \in DOMAIN ss : dwells(ss[k])
      PROVE  ss[CHOOSE k \in DOMAIN ss : firstD(k)] \in S
  <2>. DEFINE D == {k \in 1 .. n : dwells(ss[k])}
  <2>1. \E k \in 1 .. n : k \in D
    BY <1>0, <1>3
  <2>2. \E k \in 1 .. n : k \in D /\ \A m \in 1 .. k - 1 : m \notin D
    <3>. HIDE DEF D
    <3>. QED
      BY <1>0, <2>1, FirstExists
  <2>3. \E k \in DOMAIN ss : firstD(k)
    BY <1>0, <2>2
  <2>. HIDE DEF firstD
  <2>. QED
    BY <1>0, <2>3
<1>4. ASSUME \E k \in DOMAIN ss : around(ss[k])
      PROVE  ss[CHOOSE k \in DOMAIN ss : firstA(k)] \in S
  <2>. DEFINE D == {k \in 1 .. n : around(ss[k])}
  <2>1. \E k \in 1 .. n : k \in D
    BY <1>0, <1>4
  <2>2. \E k \in 1 .. n : k \in D /\ \A m \in 1 .. k - 1 : m \notin D
    <3>. HIDE DEF D
    <3>. QED
      BY <1>0, <2>1, FirstExists
  <2>3. \E k \in DOMAIN ss : firstA(k)
    BY <1>0, <2>2
  <2>. HIDE DEF firstA
  <2>. QED
    BY <1>0, <2>3
<1>. HIDE DEF firstD, firstA
<1>. QED
  BY <1>1, <1>2, <1>3, <1>4

\* The kinds of the four segments.
LEMMA KindsAre ==
  ASSUME NEW c
  PROVE  /\ RiseSeg(c).kind = "rise" /\ RiseSeg(c).start = 0 /\ RiseSeg(c).spec = RiseSpec(c)
         /\ RiseSeg(c).law = c.riseLaw /\ RiseSeg(c).beta = c.rise
         /\ OuterSeg(c).kind = "outer_dwell" /\ ReturnSeg(c).kind = "return" /\ InnerSeg(c).kind = "inner_dwell"
<1>1. /\ RiseSeg(c).kind = "rise" /\ RiseSeg(c).start = 0 /\ RiseSeg(c).spec = RiseSpec(c)
      /\ RiseSeg(c).law = c.riseLaw /\ RiseSeg(c).beta = c.rise
  BY DEF RiseSeg, Segment, RiseSpec, MotionSpec
<1>2. \A kind, start, sp : Segment(kind, start, sp).kind = kind
  BY DEF Segment
<1>3. OuterSeg(c).kind = "outer_dwell"
  BY <1>2, Zenon DEF OuterSeg
<1>4. ReturnSeg(c).kind = "return"
  BY <1>2, Zenon DEF ReturnSeg
<1>5. InnerSeg(c).kind = "inner_dwell"
  BY <1>2, Zenon DEF InnerSeg
<1>. QED
  BY <1>1, <1>3, <1>4, <1>5

\* The segments of an accepted configuration, rounded or not.
LEMMA FourSegments ==
  ASSUME NEW c \in Configs, Validate(c)
  PROVE  /\ Build(c) \in Seq({RiseSeg(c), OuterSeg(c), ReturnSeg(c), InnerSeg(c)})
         /\ Len(Build(c)) \in 2 .. 4
         /\ Build(c)[1] = RiseSeg(c)
         /\ \A i \in 2 .. Len(Build(c)) : Build(c)[i].kind # "rise"
<1>. DEFINE ss == Build(c)
            R == RiseSeg(c)
            O == OuterSeg(c)
            T == ReturnSeg(c)
            I == InnerSeg(c)
            outer == c.outer > 0
            inner == c.inner > 0
<1>1. /\ ss \in Seq({R, O, T, I})
      /\ Len(ss) = 2 + (IF outer THEN 1 ELSE 0) + (IF inner THEN 1 ELSE 0)
      /\ ss[1] = R
      /\ outer => ss[2] = O /\ ss[3] = T
      /\ outer /\ inner => ss[4] = I
      /\ ~outer => ss[2] = T
      /\ ~outer /\ inner => ss[3] = I
  BY BuildIs
<1>2. O.kind # "rise" /\ T.kind # "rise" /\ I.kind # "rise"
  BY KindsAre
<1>. HIDE DEF ss, R, O, T, I, outer, inner
<1>3. Len(ss) \in 2 .. 4
  BY <1>1
<1>4. \A i \in 2 .. Len(ss) : ss[i].kind # "rise"
  <2>1. CASE outer /\ inner
    BY <1>1, <1>2, <2>1
  <2>2. CASE outer /\ ~inner
    BY <1>1, <1>2, <2>2
  <2>3. CASE ~outer /\ inner
    BY <1>1, <1>2, <2>3
  <2>4. CASE ~outer /\ ~inner
    BY <1>1, <1>2, <2>4
  <2>. QED
    BY <2>1, <2>2, <2>3, <2>4
<1>. QED
  BY <1>1, <1>3, <1>4 DEF ss, R, O, T, I

\* The time of a sample has no part in its other columns.
LEMMA TimeApart ==
  ASSUME NEW w, NEW sp, NEW theta, NEW t, NEW u
  PROVE  LET x == restore(w, sp, theta, t, FALSE)
             y == restore(w, sp, theta, u, FALSE)
         IN  x.theta = y.theta /\ x.s = y.s /\ x.v = y.v /\ x.a = y.a /\ x.j = y.j /\ x.noise = y.noise
BY DEF restore, Motion

\* The rise of a cycle, sampled through its angle, is sampled as a lift.
LEMMA RiseSampled ==
  ASSUME NEW c, NEW theta, NEW side
  PROVE  LET x == IF theta > 0 THEN fl(theta - 0) ELSE 0
         IN  sideMotion(RiseSeg(c), theta, side) =
               restore(EvalSide(c.riseLaw, [n |-> x, d |-> c.rise], side), RiseSpec(c), theta, 0, FALSE)
<1>. DEFINE R == RiseSeg(c)
            sp == RiseSpec(c)
<1>1. R.kind = "rise" /\ R.start = 0 /\ R.spec = sp
  BY KindsAre
<1>2. sp.type = c.riseLaw /\ sp.beta = c.rise
  BY DEF RiseSpec, MotionSpec
<1>. HIDE DEF R, sp
<1>3. ~isDwell(R) /\ (R.kind = "return") = FALSE
  BY <1>1 DEF isDwell
<1>4. sideMotion(R, theta, side) = SampleSide(sp, 0, theta, 0, FALSE, side)
  BY <1>1, <1>3 DEF sideMotion
<1>5. SampleSide(sp, 0, theta, 0, FALSE, side) =
        LET x == IF theta > 0 THEN fl(theta - 0) ELSE 0
        IN  restore(EvalSide(c.riseLaw, [n |-> x, d |-> c.rise], side), sp, theta, 0, FALSE)
  BY <1>2, Zenon DEF SampleSide
<1>. QED
  BY <1>4, <1>5 DEF R, sp

\* Wherever both curves have a sample of the rise, the samples are equal.
LEMMA RowsAgree ==
  ASSUME ExactSums, NEW c \in Configs, Validate(c), NEW n \in Nat, n > 1, c.rise % (n - 1) = 0,
         NEW k \in 1 .. n
  PROVE  LET y == Curve(RiseSpec(c), n)[k]
             x == sideMotion(RiseSeg(c), y.theta, 0)
         IN  x.s = y.s /\ x.v = y.v /\ x.a = y.a /\ x.j = y.j
<1>. DEFINE sp == RiseSpec(c)
            m == n - 1
            i == k - 1
            b == c.rise
            theta == (i * b) \div m
            r == b \div m
            y == Curve(sp, n)[k]
<1>1. b \in Nat /\ b > 0 /\ b < FullTurn /\ c.riseLaw \in Laws
  BY ValidAngles
<1>2. m \in Nat /\ m > 0 /\ i \in Nat /\ i <= m
  OBVIOUS
<1>3. b % m = 0
  OBVIOUS
<1>. HIDE DEF m, i, b
<1>4. r \in Nat /\ b = r * m
  BY <1>1, <1>2, <1>3
<1>. HIDE DEF r
<1>5. theta = i * r
  <2>1. i * b = (i * r) * m /\ i * r \in Int
    BY <1>2, <1>4
  <2>. QED
    BY <1>2, <2>1, DivExact
<1>. HIDE DEF theta
<1>6. theta \in Nat /\ theta <= b /\ theta * m = i * b
  <2>1. i * r \in Nat /\ i * r <= m * r /\ m * r = r * m
    BY <1>2, <1>4
  <2>2. (i * r) * m = i * (r * m)
    BY <1>2, <1>4
  <2>. QED
    BY <1>4, <1>5, <2>1, <2>2
<1>7. (IF theta > 0 THEN fl(theta - 0) ELSE 0) = theta
  <2>1. theta \in 0 .. 4 * FullTurn /\ theta - 0 = theta
    BY <1>1, <1>6, KinematicsAssumption
  <2>2. fl(theta) = theta
    BY <2>1 DEF ExactSums
  <2>. QED
    BY <1>6, <2>1, <2>2
<1>. DEFINE w == EvalSide(c.riseLaw, [n |-> i, d |-> m], 0)
<1>8. EvalSide(c.riseLaw, [n |-> theta, d |-> b], 0) = w
  BY <1>1, <1>2, <1>6, EvalRatio
<1>9. sideMotion(RiseSeg(c), theta, 0) = restore(w, sp, theta, 0, FALSE)
  BY <1>7, <1>8, RiseSampled, Zenon DEF b
<1>10. y = restore(w, sp, theta, theta, FALSE)
  <2>1. sp.type = c.riseLaw /\ sp.beta = b
    BY DEF RiseSpec, MotionSpec, b
  <2>. HIDE DEF sp
  <2>2. y = restore(EvalSide(sp.type, [n |-> k - 1, d |-> n - 1], 0), sp,
                    ((k - 1) * sp.beta) \div (n - 1), ((k - 1) * sp.beta) \div (n - 1), FALSE)
    BY DEF Curve
  <2>. QED
    BY <2>1, <2>2 DEF theta, m, i
<1>. HIDE DEF w, sp, y
<1>. DEFINE p == restore(w, sp, theta, 0, FALSE)
            q == restore(w, sp, theta, theta, FALSE)
<1>11. q.theta = theta
  BY DEF restore, Motion
<1>12. p.s = q.s /\ p.v = q.v /\ p.a = q.a /\ p.j = q.j
  BY TimeApart, Zenon
<1>. QED
  BY <1>9, <1>10, <1>11, <1>12, Zenon DEF y, sp

\* The switch joint of the rise, and where a list of joints holds it.
RiseSwitch(q) == q.seam.kind = "switch" /\ q.leftSegment = "rise"

Hits(js) == {k \in 1 .. Len(js) : RiseSwitch(js[k])}

\* Where a concatenation holds it.
LEMMA HitsConcat ==
  ASSUME NEW S, NEW a \in Seq(S), NEW b \in Seq(S)
  PROVE  /\ Hits(b) = {} => Hits(a \o b) = Hits(a)
         /\ Hits(a) = {} /\ Hits(b) = {1} => Hits(a \o b) = {Len(a) + 1}
<1>1. /\ Len(a \o b) = Len(a) + Len(b) /\ Len(a) \in Nat /\ Len(b) \in Nat
      /\ \A i \in 1 .. Len(a) : (a \o b)[i] = a[i]
      /\ \A i \in 1 .. Len(b) : (a \o b)[Len(a) + i] = b[i]
  OBVIOUS
<1>. DEFINE c == a \o b
            n == Len(a)
            m == Len(b)
<1>2. \A k \in 1 .. Len(c) : k \in 1 .. n \/ (k - n \in 1 .. m /\ n + (k - n) = k)
  BY <1>1
<1>3. \A k \in 1 .. Len(c) : \/ k \in 1 .. n /\ c[k] = a[k]
                             \/ k - n \in 1 .. m /\ c[k] = b[k - n] /\ k \notin 1 .. n
  BY <1>1, <1>2
<1>4. \A k \in 1 .. n : k \in 1 .. Len(c) /\ c[k] = a[k]
  BY <1>1
<1>5. \A k \in 1 .. m : n + k \in 1 .. Len(c) /\ c[n + k] = b[k]
  BY <1>1
<1>6. n \in Nat /\ m \in Nat
  BY <1>1
<1>. HIDE DEF c, n, m
<1>7. /\ Hits(c) = {k \in 1 .. Len(c) : RiseSwitch(c[k])}
      /\ Hits(a) = {k \in 1 .. n : RiseSwitch(a[k])}
      /\ Hits(b) = {k \in 1 .. m : RiseSwitch(b[k])}
  BY DEF Hits, n, m
<1>8. ASSUME Hits(b) = {}
      PROVE  Hits(c) = Hits(a)
  BY <1>3, <1>4, <1>7, <1>8
<1>9. ASSUME Hits(a) = {}, Hits(b) = {1}
      PROVE  Hits(c) = {n + 1}
  <2>1. n + 1 \in Hits(c)
    BY <1>5, <1>7, <1>9
  <2>2. ASSUME NEW k \in Hits(c)
        PROVE  k = n + 1
    <3>1. k \in 1 .. Len(c) /\ RiseSwitch(c[k]) /\ k \in Int
      BY <1>7, <2>2
    <3>2. ~(k \in 1 .. n /\ c[k] = a[k])
      BY <1>7, <1>9, <3>1
    <3>3. k - n \in 1 .. m /\ c[k] = b[k - n]
      BY <1>3, <3>1, <3>2
    <3>4. k - n \in Hits(b)
      BY <1>7, <3>1, <3>3
    <3>5. k - n = 1
      BY <1>9, <3>4
    <3>. QED
      BY <1>6, <3>1, <3>5
  <2>. QED
    BY <2>1, <2>2
<1>. QED
  BY <1>8, <1>9 DEF c, n

\* The joints hold the switch of the rise once, if its law has one.
LEMMA RiseSwitches ==
  ASSUME NEW S, NEW ss \in Seq(S), Len(ss) \in 2 .. 4, ss[1].kind = "rise",
         \A i \in 2 .. Len(ss) : ss[i].kind # "rise"
  PROVE  LET js == Discontinuities(ss)
         IN  /\ Hits(js) = IF ss[1].law = "parabolic" THEN {Len(ss)} ELSE {}
             /\ \A k \in Hits(js) : js[k] = switchJoint(ss[1])
             /\ DOMAIN js = 1 .. Len(js)
<1>. DEFINE J == JointSet(ss)
            at(i) == IF i <= Len(ss) /\ ss[i].law = "parabolic" THEN <<switchJoint(ss[i])>> ELSE <<>>
            bs == boundaryJoints(ss)
            sw == switchJoints(ss)
            cy == <<cyclicJoint(ss)>>
            js == Discontinuities(ss)
<1>1. ASSUME NEW l, NEW r, NEW a, NEW kind, NEW x, NEW y
      PROVE  Joint(l, r, Join(a, kind, x, y)).seam.kind = kind /\ Joint(l, r, Join(a, kind, x, y)).leftSegment = l.kind
  BY DEF Joint, Join
<1>2. \A i \in 1 .. Len(ss) - 1 : ~RiseSwitch(BoundaryJoint(ss, i))
  BY <1>1 DEF BoundaryJoint, RiseSwitch
<1>3. \A sg : RiseSwitch(switchJoint(sg)) <=> sg.kind = "rise"
  <2>1. \A sg : switchJoint(sg).seam.kind = "switch" /\ switchJoint(sg).leftSegment = sg.kind
    BY <1>1 DEF switchJoint
  <2>. QED
    BY <2>1, Zenon DEF RiseSwitch
<1>4. ~RiseSwitch(cyclicJoint(ss))
  BY <1>1 DEF cyclicJoint, RiseSwitch
<1>5. bs \in Seq(J) /\ Hits(bs) = {} /\ Len(bs) = Len(ss) - 1
  <2>1. bs = [i \in 1 .. Len(ss) - 1 |-> BoundaryJoint(ss, i)]
    BY DEF boundaryJoints, BoundaryJoint
  <2>2. \A i \in 1 .. Len(ss) - 1 : BoundaryJoint(ss, i) \in J
    BY DEF JointSet, Boundaries
  <2>3. Len(ss) - 1 \in Nat
    OBVIOUS
  <2>. HIDE DEF J, bs
  <2>4. bs \in Seq(J) /\ Len(bs) = Len(ss) - 1 /\ \A i \in 1 .. Len(bs) : bs[i] = BoundaryJoint(ss, i)
    BY <2>1, <2>2, <2>3
  <2>5. Hits(bs) = {}
    BY <1>2, <2>4 DEF Hits
  <2>. QED
    BY <2>4, <2>5
<1>6. \A i \in 1 .. 4 : /\ at(i) \in Seq(J)
                        /\ i <= Len(ss) /\ ss[i].law = "parabolic" /\ ss[i].kind = "rise" => Hits(at(i)) = {1}
                        /\ ~(i <= Len(ss) /\ ss[i].law = "parabolic" /\ ss[i].kind = "rise") => Hits(at(i)) = {}
  <2>. TAKE i \in 1 .. 4
  <2>1. CASE i <= Len(ss) /\ ss[i].law = "parabolic"
    <3>1. at(i) = <<switchJoint(ss[i])>>
      BY <2>1
    <3>2. switchJoint(ss[i]) \in J
      BY <2>1 DEF JointSet, Switches
    <3>. HIDE DEF J, at
    <3>3. at(i) \in Seq(J) /\ Len(at(i)) = 1 /\ at(i)[1] = switchJoint(ss[i])
      BY <3>1, <3>2
    <3>4. Hits(at(i)) = {k \in {1} : RiseSwitch(switchJoint(ss[i]))}
      BY <3>3 DEF Hits
    <3>. QED
      BY <1>3, <2>1, <3>3, <3>4
  <2>2. CASE ~(i <= Len(ss) /\ ss[i].law = "parabolic")
    <3>1. at(i) = <<>>
      BY <2>2
    <3>. HIDE DEF at, J
    <3>2. at(i) \in Seq(J) /\ Len(at(i)) = 0
      BY <3>1
    <3>. QED
      BY <2>2, <3>2 DEF Hits
  <2>. QED
    BY <2>1, <2>2
<1>7. cy \in Seq(J) /\ Hits(cy) = {}
  <2>1. cyclicJoint(ss) \in J
    BY DEF JointSet
  <2>. HIDE DEF J
  <2>2. cy \in Seq(J) /\ Len(cy) = 1 /\ cy[1] = cyclicJoint(ss)
    BY <2>1
  <2>. HIDE DEF cy
  <2>. QED
    BY <1>4, <2>2 DEF Hits
<1>8. sw = ((at(1) \o at(2)) \o at(3)) \o at(4)
  BY DEF switchJoints
<1>9. js = (bs \o sw) \o cy
  BY DEF Discontinuities
<1>10. js \in Seq(J)
  BY JointsAre
<1>. HIDE DEF J, at, bs, cy, sw, js
<1>11. /\ at(1) \in Seq(J) /\ at(2) \in Seq(J) /\ at(3) \in Seq(J) /\ at(4) \in Seq(J)
       /\ Hits(at(2)) = {} /\ Hits(at(3)) = {} /\ Hits(at(4)) = {}
  BY <1>6
<1>12. /\ ss[1].law = "parabolic" => Hits(at(1)) = {1}
       /\ ss[1].law # "parabolic" => Hits(at(1)) = {}
  <2>1. 1 \in 1 .. 4 /\ 1 <= Len(ss)
    OBVIOUS
  <2>. QED
    BY <1>6, <2>1
<1>13. sw \in Seq(J) /\ Hits(sw) = Hits(at(1))
  <2>. DEFINE a2 == at(1) \o at(2)
              a3 == a2 \o at(3)
  <2>1. a2 \in Seq(J) /\ Hits(a2) = Hits(at(1))
    BY <1>11, ConcatHas, HitsConcat, Zenon
  <2>. HIDE DEF a2
  <2>2. a3 \in Seq(J) /\ Hits(a3) = Hits(a2)
    <3>1. a2 \in Seq(J) /\ at(3) \in Seq(J) /\ Hits(at(3)) = {}
      BY <1>11, <2>1, Zenon
    <3>2. a3 \in Seq(J)
      BY <3>1, ConcatHas, Zenon
    <3>3. Hits(a3) = Hits(a2)
      BY <3>1, HitsConcat, Zenon
    <3>. QED
      BY <3>2, <3>3
  <2>. HIDE DEF a3
  <2>3. a3 \o at(4) \in Seq(J) /\ Hits(a3 \o at(4)) = Hits(a3)
    <3>1. a3 \in Seq(J) /\ at(4) \in Seq(J) /\ Hits(at(4)) = {}
      BY <1>11, <2>2, Zenon
    <3>2. a3 \o at(4) \in Seq(J)
      BY <3>1, ConcatHas, Zenon
    <3>3. Hits(a3 \o at(4)) = Hits(a3)
      BY <3>1, HitsConcat, Zenon
    <3>. QED
      BY <3>2, <3>3
  <2>4. sw = a3 \o at(4)
    BY <1>8 DEF a2, a3
  <2>. QED
    BY <2>1, <2>2, <2>3, <2>4
<1>14. bs \o sw \in Seq(J)
  BY <1>5, <1>13, ConcatHas, Zenon
<1>15. Hits(js) = Hits(bs \o sw)
  BY <1>7, <1>9, <1>14, HitsConcat, Zenon
<1>16. \A k \in Hits(js) : js[k] \in J /\ RiseSwitch(js[k])
  BY <1>10 DEF Hits
<1>17. \A k \in Hits(js) : js[k] = switchJoint(ss[1])
  <2>. SUFFICES ASSUME NEW q \in J, RiseSwitch(q)
                PROVE  q = switchJoint(ss[1])
    BY <1>16
  <2>1. q \in Switches(ss)
    BY <1>2, <1>4 DEF J, JointSet, Boundaries
  <2>2. PICK i \in 1 .. Len(ss) : q = switchJoint(ss[i])
    BY <2>1 DEF Switches
  <2>3. ss[i].kind = "rise"
    BY <1>3, <2>2
  <2>4. i = 1
    BY <2>3
  <2>. QED
    BY <2>2, <2>4
<1>18. CASE ss[1].law = "parabolic"
  <2>0. bs \in Seq(J) /\ sw \in Seq(J) /\ Hits(bs) = {} /\ Hits(sw) = {1}
    BY <1>5, <1>12, <1>13, <1>18
  <2>1. Hits(bs \o sw) = {Len(bs) + 1}
    BY <2>0, HitsConcat, Zenon
  <2>2. Len(bs) + 1 = Len(ss)
    BY <1>5
  <2>. QED
    BY <1>10, <1>15, <1>17, <1>18, <2>1, <2>2 DEF js
<1>19. CASE ss[1].law # "parabolic"
  <2>0. bs \in Seq(J) /\ sw \in Seq(J) /\ Hits(bs) = {} /\ Hits(sw) = {}
    BY <1>5, <1>12, <1>13, <1>19
  <2>1. Hits(bs \o sw) = {}
    BY <2>0, HitsConcat, Zenon
  <2>. QED
    BY <1>10, <1>15, <1>17, <1>19, <2>1 DEF js
<1>. QED
  BY <1>18, <1>19

\* The switch joint of the rise compares what the internal seam compares.
LEMMA SeamIsSwitch ==
  ASSUME NEW c, c.riseLaw = "parabolic"
  PROVE  LET x == switchJoint(RiseSeg(c)).seam
             y == InternalSeams(RiseSpec(c), 0)[1]
         IN  /\ x.theta = y.theta /\ x.sCont = y.sCont /\ x.vCont = y.vCont /\ x.aCont = y.aCont
             /\ x.jCont = y.jCont
             /\ Len(InternalSeams(RiseSpec(c), 0)) = 1
<1>. DEFINE R == RiseSeg(c)
            sp == RiseSpec(c)
            theta == fl(0 + c.rise \div 2)
            half == c.rise \div 2
            n == IF theta > 0 THEN fl(theta - 0) ELSE 0
            w(side) == EvalSide(c.riseLaw, [n |-> n, d |-> c.rise], side)
            p(side) == restore(w(side), sp, theta, 0, FALSE)
            q(side) == restore(w(side), sp, theta, half, FALSE)
            x == Join(theta, "switch", p(-1), p(1))
            y == Join(theta, "switch", q(-1), q(1))
<1>1. switchJoint(R).seam = x
  <2>1. R.start = 0 /\ R.beta = c.rise
    BY KindsAre
  <2>2. \A side : sideMotion(R, theta, side) = p(side)
    BY RiseSampled, Zenon
  <2>. HIDE DEF R, p, theta
  <2>3. fl(R.start + R.beta \div 2) = theta
    BY <2>1 DEF theta
  <2>4. switchJoint(R) =
          Joint(R, R, Join(theta, "switch", sideMotion(R, theta, -1), sideMotion(R, theta, 1)))
    BY <2>3 DEF switchJoint
  <2>. QED
    BY <2>2, <2>4 DEF Joint
<1>2. InternalSeams(sp, 0) = <<y>>
  <2>1. sp.type = c.riseLaw /\ sp.beta = c.rise /\ sp.type = "parabolic"
    BY DEF RiseSpec, MotionSpec
  <2>. HIDE DEF sp
  <2>2. \A side : SampleSide(sp, 0, theta, half, FALSE, side) = q(side)
    BY <2>1, Zenon DEF SampleSide
  <2>. HIDE DEF q
  <2>3. InternalSeams(sp, 0) =
          <<Join(theta, "switch", SampleSide(sp, 0, theta, half, FALSE, -1), SampleSide(sp, 0, theta, half, FALSE, 1))>>
    BY <2>1, Zenon DEF InternalSeams
  <2>. QED
    BY <2>2, <2>3, Zenon
<1>3. \A side : p(side).s = q(side).s /\ p(side).v = q(side).v /\ p(side).a = q(side).a /\ p(side).j = q(side).j
                /\ p(side).noise = q(side).noise
  <2>1. SUFFICES ASSUME NEW side
                 PROVE  /\ p(side).s = q(side).s /\ p(side).v = q(side).v /\ p(side).a = q(side).a
                        /\ p(side).j = q(side).j /\ p(side).noise = q(side).noise
    OBVIOUS
  <2>. DEFINE u == w(side)
  <2>. HIDE DEF w, u, theta, sp, half
  <2>2. p(side) = restore(u, sp, theta, 0, FALSE) /\ q(side) = restore(u, sp, theta, half, FALSE)
    BY DEF u
  <2>. HIDE DEF p, q
  <2>3. LET p0 == restore(u, sp, theta, 0, FALSE)
            q0 == restore(u, sp, theta, half, FALSE)
        IN  p0.s = q0.s /\ p0.v = q0.v /\ p0.a = q0.a /\ p0.j = q0.j /\ p0.noise = q0.noise
    BY DEF restore, Motion
  <2>. QED
    BY <2>2, <2>3
<1>. HIDE DEF p, q
<1>4. x.theta = y.theta /\ x.sCont = y.sCont /\ x.vCont = y.vCont /\ x.aCont = y.aCont /\ x.jCont = y.jCont
  BY <1>3 DEF Join
<1>. HIDE DEF x, y
<1>5. InternalSeams(sp, 0)[1] = y /\ Len(InternalSeams(sp, 0)) = 1
  BY <1>2
<1>. QED
  BY <1>1, <1>4, <1>5 DEF R, sp

\* The rise of a cycle is the lift of its parameters, for every law and angle
\* and every pair of grids, where sums of angles are exact: serveCycle, which
\* divides the angle that has passed by beta, and serveLift, which steps through
\* the fractions, answer the same rows and the same internal seam.
THEOREM RiseIsLiftEver ==
  ASSUME ExactSums
  PROVE  CurvesSpec => []RiseIsLift
<1>1. Progress /\ LiftProgress => RiseIsLift
  <2>. SUFFICES ASSUME Progress, LiftProgress, phase = "checked"
                PROVE  RiseIsLift
    BY DEF RiseIsLift
  <2>. DEFINE R == RiseSeg(cfg)
              four == {R, OuterSeg(cfg), ReturnSeg(cfg), InnerSeg(cfg)}
  <2>1. /\ cfg \in Configs /\ Validate(cfg) /\ segs = Build(cfg) /\ points \in PointCounts /\ points >= MinPoints
        /\ curve = SegmentsCurve(segs, points) /\ joints = Discontinuities(segs)
    BY DEF Progress
  <2>2. points \in Nat
    BY <2>1, InputAssumption, KinematicsAssumption
  <2>3. /\ segs \in Seq(four) /\ Len(segs) \in 2 .. 4 /\ segs[1] = R
        /\ \A i \in 2 .. Len(segs) : segs[i].kind # "rise"
    BY <2>1, FourSegments
  <2>4. ASSUME stage = "refused"
        PROVE  grid \notin MinPoints .. MaxPoints
    <3>1. /\ spec = RiseSpec(cfg)
          /\ ~ValidSpec(spec) \/ grid < MinPoints \/ grid > MaxPoints
      BY <2>4 DEF LiftProgress
    <3>2. /\ cfg.rise > 0 /\ cfg.rise < FullTurn /\ cfg.riseLaw \in Laws /\ cfg.h > 0 /\ cfg.omega > 0
      BY <2>1, ValidAngles
    <3>3. ValidSpec(spec)
      BY <3>1, <3>2 DEF ValidSpec, Known, RiseSpec, MotionSpec
    <3>. QED
      BY <3>1, <3>3, KinematicsAssumption
  <2>5. ASSUME stage = "done", NEW i \in DOMAIN curve, NEW k \in DOMAIN samples,
               curve[i].segment = "rise", curve[i].motion.theta = samples[k].theta
        PROVE  LET x == curve[i].motion
                   y == samples[k]
               IN  x.s = y.s /\ x.v = y.v /\ x.a = y.a /\ x.j = y.j
    <3>1. /\ spec = RiseSpec(cfg) /\ grid \in Nat /\ grid > 1 /\ grid \in MinPoints .. MaxPoints
          /\ grid \in LiftPoints /\ samples = Curve(spec, grid)
      BY <2>5, LiftSpec
    <3>2. k \in 1 .. grid
      BY <3>1 DEF Curve
    <3>. DEFINE theta == (FullTurn * (i - 1)) \div (points - 1)
                sg == locate(segs, theta)
    <3>3. curve[i] = SampleAt(segs, theta)
      BY <2>1, <2>2, CurveIs
    <3>. HIDE DEF theta
    <3>4. curve[i].segment = sg.kind /\ curve[i].motion = sideMotion(sg, theta, 0)
      BY <3>3 DEF SampleAt
    <3>5. sg \in four
      BY <2>3, LocateIn
    <3>6. sg = R
      BY <2>5, <3>4, <3>5, KindsAre
    <3>7. theta = samples[k].theta
      BY <2>5, <3>4, SampleAngle
    <3>8. cfg.rise > 0 /\ cfg.rise % (grid - 1) = 0
      BY <2>1, <3>1, ValidAngles, LiftAssumption
    <3>9. LET y == samples[k]
              x == sideMotion(R, y.theta, 0)
          IN  x.s = y.s /\ x.v = y.v /\ x.a = y.a /\ x.j = y.j
      BY <2>1, <3>1, <3>2, <3>8, RowsAgree
    <3>. QED
      BY <3>4, <3>6, <3>7, <3>9
  <2>. DEFINE switches == {k \in DOMAIN joints : joints[k].seam.kind = "switch" /\ joints[k].leftSegment = "rise"}
  <2>6. /\ switches = IF cfg.riseLaw = "parabolic" THEN {Len(segs)} ELSE {}
        /\ \A k \in switches : joints[k] = switchJoint(R)
    <3>1. R.kind = "rise" /\ R.law = cfg.riseLaw
      BY KindsAre
    <3>2. /\ Hits(joints) = IF segs[1].law = "parabolic" THEN {Len(segs)} ELSE {}
          /\ \A k \in Hits(joints) : joints[k] = switchJoint(segs[1])
          /\ DOMAIN joints = 1 .. Len(joints)
      BY <2>1, <2>3, <3>1, RiseSwitches
    <3>3. switches = Hits(joints)
      BY <3>2 DEF Hits, RiseSwitch
    <3>. QED
      BY <2>3, <3>1, <3>2, <3>3
  <2>7. ASSUME stage = "done"
        PROVE  /\ Cardinality(switches) = Len(seams)
               /\ \A k \in switches, m \in DOMAIN seams :
                    \A c \in {"theta", "sCont", "vCont", "aCont", "jCont"} :
                      joints[k].seam[c] = seams[m][c]
    <3>1. spec = RiseSpec(cfg) /\ seams = InternalSeams(spec, 0) /\ spec.type = cfg.riseLaw
      BY <2>7, LiftSpec
    <3>2. CASE cfg.riseLaw = "parabolic"
      <4>. DEFINE x == switchJoint(R).seam
                  y == InternalSeams(RiseSpec(cfg), 0)[1]
      <4>1. /\ x.theta = y.theta /\ x.sCont = y.sCont /\ x.vCont = y.vCont /\ x.aCont = y.aCont
            /\ x.jCont = y.jCont
            /\ Len(InternalSeams(RiseSpec(cfg), 0)) = 1
        BY <3>2, SeamIsSwitch
      <4>2. Len(seams) = 1 /\ seams[1] = y
        BY <3>1, <4>1
      <4>3. DOMAIN seams = {1}
        BY <3>1, <3>2 DEF InternalSeams
      <4>4. Cardinality(switches) = 1
        BY <2>6, <3>2, FS_Singleton
      <4>. HIDE DEF x, y
      <4>5. \A c \in {"theta", "sCont", "vCont", "aCont", "jCont"} : x[c] = y[c]
        BY <4>1
      <4>6. \A k \in switches : joints[k].seam = x
        BY <2>6 DEF x
      <4>. HIDE DEF switches
      <4>. QED
        BY <4>2, <4>3, <4>4, <4>5, <4>6
    <3>3. CASE cfg.riseLaw # "parabolic"
      <4>1. seams = <<>> /\ Len(seams) = 0
        BY <3>1, <3>3 DEF InternalSeams
      <4>2. switches = {}
        BY <2>6, <3>3
      <4>3. Cardinality(switches) = 0
        BY <4>2, FS_EmptySet
      <4>. QED
        BY <4>1, <4>2, <4>3
    <3>. QED
      BY <3>2, <3>3
  <2>. HIDE DEF switches
  <2>. QED
    BY <2>4, <2>5, <2>7 DEF RiseIsLift, switches
<1>. QED
  BY <1>1, BothInvariant, PTL
=============================================================================
