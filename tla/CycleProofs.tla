----------------------------- MODULE CycleProofs -----------------------------
(***************************************************************************)
(* Proofs about Cycle, for any set of configurations and grid sizes, any   *)
(* stroke, speed and angles: what serveCycle reports of the joints, and    *)
(* that its curve agrees with them. Where sums of angles are rounded, the  *)
(* order of the segments is all that is left of their layout, and enough   *)
(* for the latter.                                                         *)
(***************************************************************************)
EXTENDS Cycle, RoundingProofs

-----------------------------------------------------------------------------
(* Rounding. *)

\* The sums of angles are exact if a few turns fit in the significant bits, as
\* whole degrees, or units of 2^-42 of a degree, do in those of a float64.
THEOREM ExactWhenFit ==
  ASSUME 4 * FullTurn < 2^Prec
  PROVE  ExactSums
<1>. SUFFICES ASSUME NEW x \in 0 .. 4 * FullTurn
              PROVE  fl(x) = x
  BY DEF ExactSums
<1>1. 2^Prec \in Nat
  BY KinematicsAssumption, PowersOfTwo
<1>2. x \in Nat /\ x < 2^Prec
  BY <1>1, KinematicsAssumption
<1>. QED
  BY <1>2, FitsIsExact

-----------------------------------------------------------------------------
(* The segments. *)

RiseSeg(c) == Segment("rise", 0, MotionSpec(c.riseLaw, c.h, c.rise, c.omega))

OuterSeg(c) == Segment("outer_dwell", RiseSeg(c).end, MotionSpec("", c.h, c.outer, c.omega))

ReturnSeg(c) ==
  Segment("return", IF c.outer > 0 THEN OuterSeg(c).end ELSE RiseSeg(c).end,
          MotionSpec(c.returnLaw, c.h, c.return, c.omega))

InnerSeg(c) == Segment("inner_dwell", ReturnSeg(c).end, MotionSpec("", c.h, c.inner, c.omega))

\* The fields of a segment.
LEMMA SegmentFields ==
  ASSUME NEW kind, NEW start, NEW l, NEW h, NEW beta, NEW omega
  PROVE  LET sg == Segment(kind, start, MotionSpec(l, h, beta, omega))
         IN  /\ sg.kind = kind /\ sg.law = l /\ sg.start = start /\ sg.end = fl(start + beta) /\ sg.beta = beta
             /\ sg.spec.type = l /\ sg.spec.h = h /\ sg.spec.beta = beta /\ sg.spec.omega = omega
BY DEF Segment, MotionSpec

\* The angles of a configuration that Validate accepts.
LEMMA ValidAngles ==
  ASSUME NEW c \in Configs, Validate(c)
  PROVE  /\ c.rise \in Nat /\ c.rise > 0 /\ c.rise < FullTurn /\ c.rise % 2 = 0
         /\ c.return \in Nat /\ c.return > 0 /\ c.return < FullTurn /\ c.return % 2 = 0
         /\ c.outer \in Nat /\ c.outer < FullTurn /\ c.inner \in Nat /\ c.inner < FullTurn
         /\ c.riseLaw \in Laws /\ c.returnLaw \in Laws
         /\ c.h \in Int /\ c.h > 0 /\ c.omega \in Int /\ c.omega > 0
BY InputAssumption DEF Validate, checkMotionAngle, checkDwellAngle, Known

\* A segment with an angle is appended, and starts where the one before it
\* ends; a dwell of angle 0 is left out.
LEMMA PushIs ==
  ASSUME NEW c, NEW ss, NEW kind, NEW l, NEW beta \in Int
  PROVE  LET seg(start) == Segment(kind, start, MotionSpec(l, c.h, beta, c.omega))
         IN  /\ beta > 0 /\ ss = <<>> => push(c, ss, kind, l, beta) = Append(ss, seg(0))
             /\ beta > 0 /\ ss # <<>> => push(c, ss, kind, l, beta) = Append(ss, seg(Last(ss).end))
             /\ ~(beta > 0) => push(c, ss, kind, l, beta) = ss
BY SegmentFields DEF push, present

\* Build pushes four segments at most.
LEMMA BuildIs ==
  ASSUME NEW c \in Configs, Validate(c)
  PROVE  LET ss == Build(c)
         IN  /\ ss \in Seq({RiseSeg(c), OuterSeg(c), ReturnSeg(c), InnerSeg(c)})
             /\ Len(ss) = 2 + (IF c.outer > 0 THEN 1 ELSE 0) + (IF c.inner > 0 THEN 1 ELSE 0)
             /\ ss[1] = RiseSeg(c)
             /\ c.outer > 0 => ss[2] = OuterSeg(c) /\ ss[3] = ReturnSeg(c)
             /\ c.outer > 0 /\ c.inner > 0 => ss[4] = InnerSeg(c)
             /\ ~(c.outer > 0) => ss[2] = ReturnSeg(c)
             /\ ~(c.outer > 0) /\ c.inner > 0 => ss[3] = InnerSeg(c)
<1>e. PICK none : none = ""
  OBVIOUS
<1>n. PICK nil : nil = <<>>
  OBVIOUS
<1>. DEFINE R == RiseSeg(c)
            O == OuterSeg(c)
            T == ReturnSeg(c)
            I == InnerSeg(c)
            S == {R, O, T, I}
            outs == c.outer > 0
            inns == c.inner > 0
            ss1 == push(c, nil, "rise", c.riseLaw, c.rise)
            ss2 == push(c, ss1, "outer_dwell", none, c.outer)
            ss3 == push(c, ss2, "return", c.returnLaw, c.return)
            ss4 == push(c, ss3, "inner_dwell", none, c.inner)
<1>a. c.rise \in Int /\ c.rise > 0 /\ c.return \in Int /\ c.return > 0 /\ c.outer \in Int /\ c.inner \in Int
  BY ValidAngles
<1>b. Build(c) = ss4
  BY <1>e, <1>n, Zenon DEF Build
<1>r. R = Segment("rise", 0, MotionSpec(c.riseLaw, c.h, c.rise, c.omega))
  BY DEF RiseSeg
<1>o. O = Segment("outer_dwell", R.end, MotionSpec(none, c.h, c.outer, c.omega))
  BY <1>e DEF OuterSeg
<1>t. T = Segment("return", IF c.outer > 0 THEN O.end ELSE R.end, MotionSpec(c.returnLaw, c.h, c.return, c.omega))
  BY DEF ReturnSeg
<1>i. I = Segment("inner_dwell", T.end, MotionSpec(none, c.h, c.inner, c.omega))
  BY <1>e DEF InnerSeg
<1>s. R \in S /\ O \in S /\ T \in S /\ I \in S
  OBVIOUS
<1>p. /\ c.outer > 0 <=> outs
      /\ c.inner > 0 <=> inns
  OBVIOUS
<1>. HIDE DEF R, O, T, I, S, outs, inns
<1>1. ss1 \in Seq(S) /\ ss1 # <<>> /\ Len(ss1) = 1 /\ ss1[1] = R /\ Last(ss1) = R
  <2>1. ss1 = Append(nil, R)
    BY <1>a, <1>n, <1>r, SegmentFields DEF push, present
  <2>2. nil \in Seq(S) /\ Len(nil) = 0
    BY <1>n
  <2>. HIDE DEF ss1
  <2>3. /\ ss1 \in Seq(S) /\ ss1 # <<>> /\ Len(ss1) = Len(nil) + 1
        /\ \A i \in Nat : i = Len(nil) + 1 => ss1[i] = R
        /\ Last(ss1) = R
    BY <1>s, <2>1, <2>2 DEF Last
  <2>. QED
    BY <2>2, <2>3
<1>. HIDE DEF ss1
<1>2. /\ ss2 \in Seq(S) /\ ss2 # <<>> /\ ss2[1] = R
      /\ Last(ss2) = IF outs THEN O ELSE R
      /\ outs => Len(ss2) = 2 /\ ss2[2] = O
      /\ ~outs => Len(ss2) = 1
  <2>1. outs => ss2 = Append(ss1, O)
    BY <1>a, <1>o, <1>p, <1>1, PushIs
  <2>2. ~outs => ss2 = ss1
    BY <1>a, <1>p, <1>1, PushIs
  <2>. HIDE DEF ss2
  <2>3. CASE outs
    <3>1. ss2 = Append(ss1, O)
      BY <2>1, <2>3
    <3>2. /\ ss2 \in Seq(S) /\ ss2 # <<>> /\ Len(ss2) = Len(ss1) + 1 /\ Last(ss2) = O
          /\ \A i \in 1 .. Len(ss1) : ss2[i] = ss1[i]
          /\ \A i \in Nat : i = Len(ss1) + 1 => ss2[i] = O
      BY <1>1, <1>s, <3>1 DEF Last
    <3>. QED
      BY <1>1, <2>3, <3>2
  <2>4. CASE ~outs
    BY <1>1, <2>2, <2>4
  <2>. QED
    BY <2>3, <2>4
<1>. HIDE DEF ss2
<1>3. /\ ss3 \in Seq(S) /\ ss3 # <<>> /\ ss3[1] = R /\ Last(ss3) = T
      /\ outs => Len(ss3) = 3 /\ ss3[2] = O /\ ss3[3] = T
      /\ ~outs => Len(ss3) = 2 /\ ss3[2] = T
  <2>1. Last(ss2).end = IF outs THEN O.end ELSE R.end
    BY <1>2
  <2>3. ss3 = Append(ss2, T)
    BY <1>a, <1>t, <1>p, <1>2, <2>1, PushIs
  <2>. HIDE DEF ss3
  <2>. QED
    BY <1>2, <1>s, <2>3 DEF Last
<1>. HIDE DEF ss3
<1>4. /\ inns => ss4 = Append(ss3, I)
      /\ ~inns => ss4 = ss3
  BY <1>a, <1>i, <1>p, <1>3, PushIs
<1>. HIDE DEF ss4
<1>5. /\ ss4 \in Seq(S) /\ ss4[1] = R
      /\ Len(ss4) = 2 + (IF outs THEN 1 ELSE 0) + (IF inns THEN 1 ELSE 0)
      /\ outs => ss4[2] = O /\ ss4[3] = T
      /\ outs /\ inns => ss4[4] = I
      /\ ~outs => ss4[2] = T
      /\ ~outs /\ inns => ss4[3] = I
  <2>1. CASE inns
    <3>1. ss4 = Append(ss3, I)
      BY <1>4, <2>1
    <3>. QED
      BY <1>3, <1>s, <2>1, <3>1
  <2>2. CASE ~inns
    BY <1>3, <1>4, <2>2
  <2>. QED
    BY <2>1, <2>2
<1>. QED
  BY <1>b, <1>5 DEF R, O, T, I, S, outs, inns

-----------------------------------------------------------------------------
(* Exact angles. *)

\* What Build takes from the configuration, for a segment that is present.
Parts(c, sg) ==
  /\ sg.kind \in Kinds
  /\ sg.beta \in Nat /\ sg.beta > 0
  /\ sg.spec.type = sg.law /\ sg.spec.h = c.h /\ sg.spec.beta = sg.beta /\ sg.spec.omega = c.omega
  /\ sg.kind \in {"rise", "return"} => sg.law \in Laws /\ sg.beta % 2 = 0 /\ sg.beta \in {c.rise, c.return}
  /\ sg.kind \in {"outer_dwell", "inner_dwell"} => sg.law # "parabolic"

\* What is known of a segment, however its ends are rounded, ...
FieldsOK(c, sg) ==
  /\ Parts(c, sg)
  /\ sg.start \in Nat /\ sg.end \in Nat /\ sg.start < sg.end

\* ... and where they are exact.
SegmentOK(c, sg) ==
  /\ FieldsOK(c, sg)
  /\ sg.end = sg.start + sg.beta /\ sg.end <= 4 * FullTurn

\* The two kinds of neighbours.
Follows(k1, k2) ==
  \/ k1 = "rise" /\ k2 \in {"outer_dwell", "return"}
  \/ k1 = "outer_dwell" /\ k2 = "return"
  \/ k1 = "return" /\ k2 = "inner_dwell"

\* What the four angles make together.
AngleSum(c) == c.rise + c.outer + c.return + c.inner

\* Where the four segments lie when sums are exact.
LEMMA Layout ==
  ASSUME ExactSums, NEW c \in Configs, Validate(c)
  PROVE  LET o1 == c.rise
             o2 == c.rise + c.outer
             o3 == c.rise + c.outer + c.return
         IN  /\ AngleSum(c) = Total(c) /\ AngleSum(c) <= 4 * FullTurn
             /\ RiseSeg(c).start = 0 /\ RiseSeg(c).end = o1
             /\ OuterSeg(c).start = o1 /\ OuterSeg(c).end = o2
             /\ ReturnSeg(c).start = o2 /\ ReturnSeg(c).end = o3
             /\ InnerSeg(c).start = o3 /\ InnerSeg(c).end = AngleSum(c)
<1>a. /\ c.rise \in Nat /\ c.rise < FullTurn /\ c.outer \in Nat /\ c.outer < FullTurn
      /\ c.return \in Nat /\ c.return < FullTurn /\ c.inner \in Nat /\ c.inner < FullTurn
  BY ValidAngles
<1>b. FullTurn \in Nat
  BY KinematicsAssumption
<1>1. \A x \in Nat : x <= 4 * FullTurn => fl(x) = x
  BY <1>b DEF ExactSums
<1>2. /\ fl(c.rise + c.outer) = c.rise + c.outer
      /\ fl(c.rise + c.outer + c.return) = c.rise + c.outer + c.return
      /\ fl(c.rise + c.outer + c.return + c.inner) = c.rise + c.outer + c.return + c.inner
      /\ fl(0 + c.rise) = c.rise
  <2>1. /\ c.rise + c.outer \in Nat /\ c.rise + c.outer <= 4 * FullTurn
        /\ c.rise + c.outer + c.return \in Nat /\ c.rise + c.outer + c.return <= 4 * FullTurn
        /\ c.rise + c.outer + c.return + c.inner \in Nat /\ c.rise + c.outer + c.return + c.inner <= 4 * FullTurn
        /\ 0 + c.rise = c.rise /\ c.rise <= 4 * FullTurn
    BY <1>a, <1>b
  <2>. QED
    BY <1>a, <1>1, <2>1
<1>3. AngleSum(c) = Total(c) /\ AngleSum(c) <= 4 * FullTurn
  BY <1>a, <1>b, <1>2 DEF Total, AngleSum
<1>4. RiseSeg(c).start = 0 /\ RiseSeg(c).end = c.rise
  BY <1>2, SegmentFields DEF RiseSeg
<1>e. PICK none : none = ""
  OBVIOUS
<1>o. OuterSeg(c) = Segment("outer_dwell", RiseSeg(c).end, MotionSpec(none, c.h, c.outer, c.omega))
  BY <1>e, Zenon DEF OuterSeg
<1>i. InnerSeg(c) = Segment("inner_dwell", ReturnSeg(c).end, MotionSpec(none, c.h, c.inner, c.omega))
  BY <1>e, Zenon DEF InnerSeg
<1>5. OuterSeg(c).start = c.rise /\ OuterSeg(c).end = c.rise + c.outer
  BY <1>2, <1>4, <1>o, SegmentFields
<1>6. ReturnSeg(c).start = c.rise + c.outer /\ ReturnSeg(c).end = c.rise + c.outer + c.return
  <2>1. (IF c.outer > 0 THEN OuterSeg(c).end ELSE RiseSeg(c).end) = c.rise + c.outer
    BY <1>a, <1>4, <1>5
  <2>. QED
    BY <1>2, <2>1, SegmentFields DEF ReturnSeg
<1>7. InnerSeg(c).start = c.rise + c.outer + c.return /\ InnerSeg(c).end = AngleSum(c)
  BY <1>2, <1>6, <1>i, SegmentFields DEF AngleSum
<1>. QED
  BY <1>3, <1>4, <1>5, <1>6, <1>7

\* Each of the four has the parts of its kind, a dwell if it is present.
LEMMA SegmentsParts ==
  ASSUME NEW c \in Configs, Validate(c)
  PROVE  /\ Parts(c, RiseSeg(c)) /\ RiseSeg(c).kind = "rise" /\ RiseSeg(c).beta = c.rise
         /\ c.outer > 0 => Parts(c, OuterSeg(c))
         /\ OuterSeg(c).kind = "outer_dwell" /\ OuterSeg(c).beta = c.outer
         /\ Parts(c, ReturnSeg(c)) /\ ReturnSeg(c).kind = "return" /\ ReturnSeg(c).beta = c.return
         /\ c.inner > 0 => Parts(c, InnerSeg(c))
         /\ InnerSeg(c).kind = "inner_dwell" /\ InnerSeg(c).beta = c.inner
<1>a. /\ c.rise \in Nat /\ c.rise > 0 /\ c.rise % 2 = 0 /\ c.outer \in Nat
      /\ c.return \in Nat /\ c.return > 0 /\ c.return % 2 = 0 /\ c.inner \in Nat
      /\ c.riseLaw \in Laws /\ c.returnLaw \in Laws
  BY ValidAngles
<1>e. PICK none : none = ""
  OBVIOUS
<1>f. none # "parabolic"
  BY <1>e, Zenon
<1>o. OuterSeg(c) = Segment("outer_dwell", RiseSeg(c).end, MotionSpec(none, c.h, c.outer, c.omega))
  BY <1>e, Zenon DEF OuterSeg
<1>i. InnerSeg(c) = Segment("inner_dwell", ReturnSeg(c).end, MotionSpec(none, c.h, c.inner, c.omega))
  BY <1>e, Zenon DEF InnerSeg
<1>1. Parts(c, RiseSeg(c)) /\ RiseSeg(c).kind = "rise" /\ RiseSeg(c).beta = c.rise
  <2>1. /\ RiseSeg(c).kind = "rise" /\ RiseSeg(c).law = c.riseLaw /\ RiseSeg(c).beta = c.rise
        /\ RiseSeg(c).spec.type = c.riseLaw /\ RiseSeg(c).spec.h = c.h /\ RiseSeg(c).spec.beta = c.rise
        /\ RiseSeg(c).spec.omega = c.omega
    BY SegmentFields DEF RiseSeg
  <2>. QED
    BY <1>a, <2>1 DEF Parts, Kinds
<1>2. (c.outer > 0 => Parts(c, OuterSeg(c))) /\ OuterSeg(c).kind = "outer_dwell" /\ OuterSeg(c).beta = c.outer
  <2>1. /\ OuterSeg(c).kind = "outer_dwell" /\ OuterSeg(c).law = none /\ OuterSeg(c).beta = c.outer
        /\ OuterSeg(c).spec.type = none /\ OuterSeg(c).spec.h = c.h /\ OuterSeg(c).spec.beta = c.outer
        /\ OuterSeg(c).spec.omega = c.omega
    BY <1>o, SegmentFields
  <2>. QED
    BY <1>a, <1>f, <2>1 DEF Parts, Kinds
<1>3. Parts(c, ReturnSeg(c)) /\ ReturnSeg(c).kind = "return" /\ ReturnSeg(c).beta = c.return
  <2>1. /\ ReturnSeg(c).kind = "return" /\ ReturnSeg(c).law = c.returnLaw /\ ReturnSeg(c).beta = c.return
        /\ ReturnSeg(c).spec.type = c.returnLaw /\ ReturnSeg(c).spec.h = c.h /\ ReturnSeg(c).spec.beta = c.return
        /\ ReturnSeg(c).spec.omega = c.omega
    BY SegmentFields DEF ReturnSeg
  <2>. QED
    BY <1>a, <2>1 DEF Parts, Kinds
<1>4. (c.inner > 0 => Parts(c, InnerSeg(c))) /\ InnerSeg(c).kind = "inner_dwell" /\ InnerSeg(c).beta = c.inner
  <2>1. /\ InnerSeg(c).kind = "inner_dwell" /\ InnerSeg(c).law = none /\ InnerSeg(c).beta = c.inner
        /\ InnerSeg(c).spec.type = none /\ InnerSeg(c).spec.h = c.h /\ InnerSeg(c).spec.beta = c.inner
        /\ InnerSeg(c).spec.omega = c.omega
    BY <1>i, SegmentFields
  <2>. QED
    BY <1>a, <1>f, <2>1 DEF Parts, Kinds
<1>. QED
  BY <1>1, <1>2, <1>3, <1>4

\* Each of the four is well-formed where sums are exact, and ends within their sum.
LEMMA SegmentsOK ==
  ASSUME ExactSums, NEW c \in Configs, Validate(c)
  PROVE  /\ SegmentOK(c, RiseSeg(c)) /\ SegmentOK(c, ReturnSeg(c))
         /\ c.outer > 0 => SegmentOK(c, OuterSeg(c))
         /\ c.inner > 0 => SegmentOK(c, InnerSeg(c))
         /\ \A sg \in {RiseSeg(c), OuterSeg(c), ReturnSeg(c), InnerSeg(c)} : sg.end <= AngleSum(c)
<1>1. /\ c.rise \in Nat /\ c.rise > 0 /\ c.outer \in Nat /\ c.return \in Nat /\ c.return > 0 /\ c.inner \in Nat
      /\ FullTurn \in Nat
  BY ValidAngles, KinematicsAssumption
<1>2. /\ AngleSum(c) <= 4 * FullTurn /\ AngleSum(c) = c.rise + c.outer + c.return + c.inner
      /\ RiseSeg(c).start = 0 /\ RiseSeg(c).end = c.rise
      /\ OuterSeg(c).start = c.rise /\ OuterSeg(c).end = c.rise + c.outer
      /\ ReturnSeg(c).start = c.rise + c.outer /\ ReturnSeg(c).end = c.rise + c.outer + c.return
      /\ InnerSeg(c).start = c.rise + c.outer + c.return /\ InnerSeg(c).end = AngleSum(c)
  BY Layout DEF AngleSum
<1>3. /\ Parts(c, RiseSeg(c)) /\ Parts(c, ReturnSeg(c))
      /\ c.outer > 0 => Parts(c, OuterSeg(c))
      /\ c.inner > 0 => Parts(c, InnerSeg(c))
      /\ RiseSeg(c).beta = c.rise /\ OuterSeg(c).beta = c.outer
      /\ ReturnSeg(c).beta = c.return /\ InnerSeg(c).beta = c.inner
  BY SegmentsParts
<1>. QED
  BY <1>1, <1>2, <1>3 DEF SegmentOK, FieldsOK

\* The segments of an accepted configuration follow one another without a gap,
\* in the order of Build, and end where the angles add up to.
Chain(c, ss) ==
  /\ ss \in Seq({RiseSeg(c), OuterSeg(c), ReturnSeg(c), InnerSeg(c)})
  /\ Len(ss) \in 2 .. 4
  /\ \A i \in 1 .. Len(ss) : SegmentOK(c, ss[i]) /\ ss[i].end <= AngleSum(c)
  /\ \A i \in 1 .. Len(ss) - 1 : ss[i].end = ss[i + 1].start /\ Follows(ss[i].kind, ss[i + 1].kind)
  /\ ss[1].kind = "rise" /\ ss[1].start = 0
  /\ ss[Len(ss)].end = AngleSum(c)
  /\ ss[Len(ss)].kind = IF c.inner > 0 THEN "inner_dwell" ELSE "return"

\* They cover the turn if the angles make one.
Tiles(c, ss) == Chain(c, ss) /\ AngleSum(c) = FullTurn

\* Build makes such a chain, whichever dwells it leaves out and whether or not
\* the angles make a full turn.
LEMMA BuildChain ==
  ASSUME ExactSums, NEW c \in Configs, Validate(c)
  PROVE  Chain(c, Build(c))
<1>. DEFINE ss == Build(c)
            R == RiseSeg(c)
            O == OuterSeg(c)
            T == ReturnSeg(c)
            I == InnerSeg(c)
            ok(sg) == SegmentOK(c, sg) /\ sg.end <= AngleSum(c)
            sum == AngleSum(c)
            outer == c.outer
            inner == c.inner
<1>a. outer \in Nat /\ inner \in Nat /\ c.rise \in Nat /\ c.return \in Nat /\ FullTurn \in Nat
  BY ValidAngles, KinematicsAssumption
<1>b. /\ ss \in Seq({R, O, T, I})
      /\ Len(ss) = 2 + (IF outer > 0 THEN 1 ELSE 0) + (IF inner > 0 THEN 1 ELSE 0)
      /\ ss[1] = R
      /\ outer > 0 => ss[2] = O /\ ss[3] = T
      /\ outer > 0 /\ inner > 0 => ss[4] = I
      /\ ~(outer > 0) => ss[2] = T
      /\ ~(outer > 0) /\ inner > 0 => ss[3] = I
  BY BuildIs
<1>c. /\ ok(R) /\ R.kind = "rise" /\ O.kind = "outer_dwell"
      /\ outer > 0 => ok(O)
      /\ ok(T) /\ T.kind = "return" /\ I.kind = "inner_dwell"
      /\ inner > 0 => ok(I)
  BY SegmentsOK, SegmentsParts
<1>d. /\ R.start = 0
      /\ outer > 0 => R.end = O.start /\ O.end = T.start
      /\ ~(outer > 0) => R.end = T.start
      /\ T.end = I.start /\ I.end = sum
      /\ ~(inner > 0) => T.end = sum
  <2>1. /\ sum = c.rise + outer + c.return + inner
        /\ R.start = 0 /\ R.end = c.rise
        /\ O.start = c.rise /\ O.end = c.rise + outer
        /\ T.start = c.rise + outer /\ T.end = c.rise + outer + c.return
        /\ I.start = c.rise + outer + c.return /\ I.end = sum
    BY Layout DEF AngleSum
  <2>. HIDE DEF R, O, T, I, outer, inner, sum
  <2>. QED
    BY <1>a, <2>1
<1>. HIDE DEF ss, R, O, T, I, ok, outer, inner, sum
<1>1. Len(ss) \in 2 .. 4
  BY <1>b
<1>2. \A i \in 1 .. Len(ss) : ok(ss[i])
  <2>1. CASE outer > 0 /\ inner > 0
    BY <1>b, <1>c, <2>1
  <2>2. CASE outer > 0 /\ ~(inner > 0)
    BY <1>b, <1>c, <2>2
  <2>3. CASE ~(outer > 0) /\ inner > 0
    BY <1>b, <1>c, <2>3
  <2>4. CASE ~(outer > 0) /\ ~(inner > 0)
    BY <1>b, <1>c, <2>4
  <2>. QED
    BY <2>1, <2>2, <2>3, <2>4
<1>3. \A i \in 1 .. Len(ss) - 1 : ss[i].end = ss[i + 1].start /\ Follows(ss[i].kind, ss[i + 1].kind)
  <2>1. CASE outer > 0 /\ inner > 0
    BY <1>b, <1>c, <1>d, <2>1 DEF Follows
  <2>2. CASE outer > 0 /\ ~(inner > 0)
    BY <1>b, <1>c, <1>d, <2>2 DEF Follows
  <2>3. CASE ~(outer > 0) /\ inner > 0
    BY <1>b, <1>c, <1>d, <2>3 DEF Follows
  <2>4. CASE ~(outer > 0) /\ ~(inner > 0)
    BY <1>b, <1>c, <1>d, <2>4 DEF Follows
  <2>. QED
    BY <2>1, <2>2, <2>3, <2>4
<1>4. ss[1].kind = "rise" /\ ss[1].start = 0
  BY <1>b, <1>c, <1>d
<1>5. ss[Len(ss)].end = sum /\ ss[Len(ss)].kind = IF inner > 0 THEN "inner_dwell" ELSE "return"
  <2>1. CASE outer > 0 /\ inner > 0
    BY <1>b, <1>c, <1>d, <2>1
  <2>2. CASE outer > 0 /\ ~(inner > 0)
    BY <1>b, <1>c, <1>d, <2>2
  <2>3. CASE ~(outer > 0) /\ inner > 0
    BY <1>b, <1>c, <1>d, <2>3
  <2>4. CASE ~(outer > 0) /\ ~(inner > 0)
    BY <1>b, <1>c, <1>d, <2>4
  <2>. QED
    BY <2>1, <2>2, <2>3, <2>4
<1>. QED
  BY <1>b, <1>1, <1>2, <1>3, <1>4, <1>5 DEF Chain, ss, R, O, T, I, ok, inner, sum

\* Angles that make a full turn cover it.
LEMMA BuildTiles ==
  ASSUME ExactSums, NEW c \in Configs, Validate(c), Total(c) = FullTurn
  PROVE  Tiles(c, Build(c))
BY BuildChain, Layout DEF Tiles

\* What is left of it when sums are rounded: each segment still starts where the
\* one before it ends, before the full turn, and a motion that comes last is not
\* taken for half done at the full turn.
Rows(c, ss) ==
  /\ ss \in Seq({RiseSeg(c), OuterSeg(c), ReturnSeg(c), InnerSeg(c)})
  /\ Len(ss) \in 2 .. 4
  /\ \A i \in 1 .. Len(ss) : FieldsOK(c, ss[i])
  /\ \A i \in 1 .. Len(ss) - 1 : ss[i].end = ss[i + 1].start /\ ss[i].end < FullTurn
  /\ ss[1].kind = "rise" /\ ss[1].start = 0
  /\ ~isDwell(ss[Len(ss)]) => 2 * fl(FullTurn - ss[Len(ss)].start) # ss[Len(ss)].beta

\* Exact segments are such rows.
LEMMA TilesAreRows ==
  ASSUME ExactSums, NEW c, NEW ss, Tiles(c, ss)
  PROVE  Rows(c, ss)
<1>. DEFINE n == Len(ss)
            z == ss[n]
<1>1. n \in 2 .. 4 /\ n \in 1 .. n
  BY DEF Tiles, Chain
<1>2. \A i \in 1 .. n : SegmentOK(c, ss[i]) /\ ss[i].end <= FullTurn
  BY DEF Tiles, Chain
<1>3. \A i \in 1 .. n - 1 : ss[i].end = ss[i + 1].start
  BY DEF Tiles, Chain
<1>. HIDE DEF n
<1>4. ASSUME NEW i \in 1 .. n - 1
      PROVE  ss[i].end < FullTurn
  <2>1. i + 1 \in 1 .. n
    BY <1>1
  <2>2. SegmentOK(c, ss[i + 1]) /\ ss[i + 1].end <= FullTurn /\ ss[i].end = ss[i + 1].start
    BY <1>2, <1>3, <2>1
  <2>. QED
    BY <2>2, KinematicsAssumption DEF SegmentOK, FieldsOK
<1>5. 2 * fl(FullTurn - z.start) # z.beta
  <2>1. z.end = FullTurn
    BY DEF Tiles, Chain, n
  <2>2. SegmentOK(c, z)
    BY <1>1, <1>2
  <2>3. z.beta \in Nat /\ z.beta > 0 /\ FullTurn - z.start = z.beta /\ z.beta <= 4 * FullTurn /\ FullTurn \in Nat
    BY <2>1, <2>2, KinematicsAssumption DEF SegmentOK, FieldsOK, Parts
  <2>4. fl(z.beta) = z.beta
    BY <2>3 DEF ExactSums
  <2>. QED
    BY <2>3, <2>4
<1>. QED
  BY <1>1, <1>2, <1>3, <1>4, <1>5 DEF Rows, Tiles, Chain, SegmentOK, n

\* A segment ends before a later one starts.
LEMMA RowsOrder ==
  ASSUME NEW c, NEW ss, Rows(c, ss), NEW i \in 1 .. Len(ss), NEW j \in 1 .. Len(ss), i < j
  PROVE  ss[i].end <= ss[j].start
<1>. DEFINE s(k) == ss[k].start
            e(k) == ss[k].end
<1>1. Len(ss) \in 2 .. 4
  BY DEF Rows
<1>2. \A k \in 1 .. Len(ss) : s(k) \in Nat /\ e(k) \in Nat /\ s(k) < e(k)
  BY DEF Rows, FieldsOK, Parts
<1>3. \A k \in 1 .. Len(ss) - 1 : e(k) = s(k + 1)
  BY DEF Rows
<1>. HIDE DEF s, e
<1>4. /\ e(1) = s(2)
      /\ Len(ss) >= 3 => e(2) = s(3)
      /\ Len(ss) >= 4 => e(3) = s(4)
  BY <1>1, <1>3
<1>5. e(i) <= s(j)
  <2>1. CASE i = 1 /\ j = 2
    BY <1>1, <1>2, <1>4, <2>1
  <2>2. CASE i = 1 /\ j = 3
    BY <1>1, <1>2, <1>4, <2>2
  <2>3. CASE i = 1 /\ j = 4
    BY <1>1, <1>2, <1>4, <2>3
  <2>4. CASE i = 2 /\ j = 3
    BY <1>1, <1>2, <1>4, <2>4
  <2>5. CASE i = 2 /\ j = 4
    BY <1>1, <1>2, <1>4, <2>5
  <2>6. CASE i = 3 /\ j = 4
    BY <1>1, <1>2, <1>4, <2>6
  <2>7. \A n \in 2 .. 4 : \A a, b \in 1 .. n : a < b =>
          \/ (a = 1 /\ b = 2) \/ (a = 1 /\ b = 3) \/ (a = 1 /\ b = 4)
          \/ (a = 2 /\ b = 3) \/ (a = 2 /\ b = 4) \/ (a = 3 /\ b = 4)
    OBVIOUS
  <2>8. i < j
    OBVIOUS
  <2>. QED
    BY <1>1, <2>1, <2>2, <2>3, <2>4, <2>5, <2>6, <2>7, <2>8, Zenon
<1>. QED
  BY <1>5 DEF s, e

-----------------------------------------------------------------------------
(* Rounded angles. *)

\* Sums of angles are within reach of ulp, and their rounding is bounded by that
\* of four turns.
LEMMA SmallSums ==
  ASSUME NEW x \in Nat, x < 8 * FullTurn
  PROVE  LET E == ulp(4 * FullTurn)
         IN  /\ fl(x) \in Nat /\ x <= 2 * fl(x) /\ E \in Nat \ {0}
             /\ x <= 4 * FullTurn => 2 * fl(x) <= 2 * x + E /\ 2 * x <= 2 * fl(x) + E
<1>. DEFINE E == ulp(4 * FullTurn)
            M == 2^MaxExp * 2^Prec
<1>1. FullTurn \in Nat /\ FullTurn > 0
  BY KinematicsAssumption
<1>2. M \in Nat /\ 8 * FullTurn < M
  <2>1. 2^MaxExp \in Nat /\ 2^Prec \in Nat
    BY Powers
  <2>2. \A a, b \in Nat : a * b \in Nat
    OBVIOUS
  <2>. QED
    BY <2>1, <2>2, ExponentAssumption
<1>. HIDE DEF M
<1>3. x < M /\ 4 * FullTurn \in Nat /\ 4 * FullTurn < M
  BY <1>1, <1>2
<1>4. /\ fl(x) \in Nat /\ ulp(x) \in Nat \ {0} /\ x <= 2 * fl(x)
      /\ 2 * fl(x) <= 2 * x + ulp(x) /\ 2 * x <= 2 * fl(x) + ulp(x)
  BY <1>3, FlNear DEF M
<1>5. E \in Nat \ {0}
  BY <1>3, FlNear DEF M
<1>6. x <= 4 * FullTurn => ulp(x) <= E
  BY <1>3, UlpGrows DEF M
<1>. HIDE DEF E
<1>7. x <= 4 * FullTurn => 2 * fl(x) <= 2 * x + E /\ 2 * x <= 2 * fl(x) + E
  BY <1>4, <1>5, <1>6
<1>. QED
  BY <1>4, <1>5, <1>7 DEF E

\* Where the four segments lie, however the sums are rounded: the sums of Build
\* are those of Validate.
LEMMA RoundedLayout ==
  ASSUME NEW c \in Configs, Validate(c)
  PROVE  LET o2 == fl(c.rise + c.outer)
             o3 == fl(o2 + c.return)
         IN  /\ RiseSeg(c).start = 0 /\ RiseSeg(c).end = c.rise
             /\ OuterSeg(c).start = c.rise /\ OuterSeg(c).end = o2
             /\ ReturnSeg(c).start = o2 /\ ReturnSeg(c).end = o3
             /\ InnerSeg(c).start = o3 /\ InnerSeg(c).end = Total(c)
<1>1. /\ c.rise \in Nat /\ c.rise > 0 /\ c.outer \in Nat
      /\ fl(c.rise) = c.rise
  BY ValidAngles, InputAssumption
<1>2. 0 + c.rise = c.rise /\ (~(c.outer > 0) => c.rise + c.outer = c.rise)
  BY <1>1
<1>e. PICK none : none = ""
  OBVIOUS
<1>o. OuterSeg(c) = Segment("outer_dwell", RiseSeg(c).end, MotionSpec(none, c.h, c.outer, c.omega))
  BY <1>e, Zenon DEF OuterSeg
<1>i. InnerSeg(c) = Segment("inner_dwell", ReturnSeg(c).end, MotionSpec(none, c.h, c.inner, c.omega))
  BY <1>e, Zenon DEF InnerSeg
<1>3. RiseSeg(c).start = 0 /\ RiseSeg(c).end = c.rise
  BY <1>1, <1>2, SegmentFields DEF RiseSeg
<1>4. OuterSeg(c).start = c.rise /\ OuterSeg(c).end = fl(c.rise + c.outer)
  BY <1>3, <1>o, SegmentFields
<1>5. ReturnSeg(c).start = fl(c.rise + c.outer) /\ ReturnSeg(c).end = fl(fl(c.rise + c.outer) + c.return)
  <2>1. (IF c.outer > 0 THEN OuterSeg(c).end ELSE RiseSeg(c).end) = fl(c.rise + c.outer)
    BY <1>1, <1>2, <1>3, <1>4
  <2>. QED
    BY <2>1, SegmentFields DEF ReturnSeg
<1>6. /\ InnerSeg(c).start = fl(fl(c.rise + c.outer) + c.return)
      /\ InnerSeg(c).end = fl(fl(fl(c.rise + c.outer) + c.return) + c.inner)
  BY <1>5, <1>i, SegmentFields
<1>. QED
  BY <1>3, <1>4, <1>5, <1>6 DEF Total

\* If no angle is tiny, neither the tolerance of Validate nor the rounding of its
\* three sums changes the order of the boundaries and the full turn.
LEMMA RoundedOrder ==
  ASSUME NEW c \in Configs, Validate(c), Sizeable(c)
  PROVE  LET o2 == fl(c.rise + c.outer)
             o3 == fl(o2 + c.return)
         IN  /\ o2 \in Nat /\ o3 \in Nat /\ Total(c) \in Nat
             /\ c.outer > 0 => c.rise < o2
             /\ o2 < o3 /\ o2 < FullTurn
             /\ c.inner > 0 => o3 < Total(c) /\ o3 < FullTurn
             /\ ~(c.inner > 0) => 2 * fl(FullTurn - o2) # c.return
<1>. DEFINE F == FullTurn
            E == ulp(4 * FullTurn)
            o2 == fl(c.rise + c.outer)
            o3 == fl(o2 + c.return)
            o4 == fl(o3 + c.inner)
            x == F - o2
<1>1. /\ c.rise \in Nat /\ c.rise > 0 /\ c.rise < F /\ c.outer \in Nat /\ c.outer < F
      /\ c.return \in Nat /\ c.return > 0 /\ c.return < F /\ c.inner \in Nat /\ c.inner < F
      /\ F \in Nat /\ Tolerance \in Nat
  BY ValidAngles, KinematicsAssumption, TurnAssumption
<1>2. \A y \in Nat : y < 8 * F =>
        /\ fl(y) \in Nat /\ y <= 2 * fl(y) /\ E \in Nat \ {0}
        /\ y <= 4 * F => 2 * fl(y) <= 2 * y + E /\ 2 * y <= 2 * fl(y) + E
  BY SmallSums
<1>3. /\ c.rise > 3 * (Tolerance + E) /\ c.return > 3 * (Tolerance + E)
      /\ c.outer > 0 => c.outer > 3 * (Tolerance + E)
      /\ c.inner > 0 => c.inner > 3 * (Tolerance + E)
  BY <1>1 DEF Sizeable
<1>4. Total(c) = o4 /\ Abs(o4 - F) <= Tolerance
  BY DEF Total, Validate
<1>. HIDE DEF F, E
<1>5. E \in Nat /\ E >= 1
  BY <1>1, <1>2
<1>6. /\ c.rise + c.outer \in Nat /\ c.rise + c.outer < 8 * F /\ c.rise + c.outer <= 4 * F
  BY <1>1
<1>7. o2 \in Nat /\ 2 * o2 <= 2 * (c.rise + c.outer) + E /\ 2 * (c.rise + c.outer) <= 2 * o2 + E
  BY <1>2, <1>6
<1>. HIDE DEF o2
<1>8. o2 + c.return \in Nat /\ o2 + c.return < 8 * F /\ o2 + c.return <= 4 * F
  BY <1>1, <1>3, <1>5, <1>7
<1>9. o3 \in Nat /\ 2 * o3 <= 2 * (o2 + c.return) + E /\ 2 * (o2 + c.return) <= 2 * o3 + E
  BY <1>2, <1>8
<1>. HIDE DEF o3
<1>10. o3 + c.inner \in Nat /\ o3 + c.inner < 8 * F
  BY <1>1, <1>3, <1>5, <1>7, <1>9
<1>11. o4 \in Nat /\ o3 + c.inner <= 2 * o4
  BY <1>2, <1>10
<1>12. o4 <= F + Tolerance
  BY <1>1, <1>4, <1>11 DEF Abs
<1>13. o3 + c.inner <= 4 * F
  BY <1>1, <1>3, <1>5, <1>10, <1>11, <1>12
<1>14. 2 * (o3 + c.inner) <= 2 * o4 + E
  BY <1>2, <1>10, <1>13
<1>. HIDE DEF o4
<1>15. c.outer > 0 => c.rise < o2
  BY <1>1, <1>3, <1>5, <1>7
<1>16. o2 < o3
  BY <1>1, <1>3, <1>5, <1>7, <1>9
<1>17. c.inner > 0 => o3 < o4 /\ o3 < F
  BY <1>1, <1>3, <1>5, <1>9, <1>11, <1>12, <1>14
<1>18. c.return <= x + Tolerance + E /\ x \in Nat /\ x > 0 /\ x <= 4 * F
  BY <1>1, <1>3, <1>5, <1>7, <1>9, <1>11, <1>12, <1>14
<1>19. fl(x) \in Nat /\ 2 * x <= 2 * fl(x) + E
  BY <1>1, <1>2, <1>18
<1>. HIDE DEF x
<1>20. 2 * fl(x) > c.return
  BY <1>1, <1>3, <1>5, <1>18, <1>19
<1>21. o2 < F
  BY <1>1, <1>7, <1>18 DEF x
<1>. QED
  BY <1>1, <1>4, <1>7, <1>9, <1>11, <1>15, <1>16, <1>17, <1>19, <1>20, <1>21 DEF x, o2, o3, o4, F

\* Build puts the segments in rows.
LEMMA BuildRows ==
  ASSUME NEW c \in Configs, Validate(c), Regular(c)
  PROVE  Rows(c, Build(c))
<1>1. CASE ExactSums /\ Total(c) = FullTurn
  BY <1>1, BuildTiles, TilesAreRows
<1>2. CASE Sizeable(c)
  <2>. DEFINE ss == Build(c)
              R == RiseSeg(c)
              O == OuterSeg(c)
              T == ReturnSeg(c)
              I == InnerSeg(c)
              n == Len(ss)
              outer == c.outer
              inner == c.inner
              o2 == fl(c.rise + outer)
              o3 == fl(o2 + c.return)
              o4 == Total(c)
  <2>a. c.rise \in Nat /\ c.rise > 0 /\ c.rise < FullTurn /\ outer \in Nat /\ inner \in Nat
    BY ValidAngles
  <2>b. /\ ss \in Seq({R, O, T, I})
        /\ n = 2 + (IF outer > 0 THEN 1 ELSE 0) + (IF inner > 0 THEN 1 ELSE 0)
        /\ ss[1] = R
        /\ outer > 0 => ss[2] = O /\ ss[3] = T
        /\ outer > 0 /\ inner > 0 => ss[4] = I
        /\ ~(outer > 0) => ss[2] = T
        /\ ~(outer > 0) /\ inner > 0 => ss[3] = I
    BY BuildIs
  <2>c. /\ Parts(c, R) /\ R.kind = "rise"
        /\ Parts(c, T) /\ T.kind = "return" /\ T.beta = c.return
        /\ outer > 0 => Parts(c, O)
        /\ inner > 0 => Parts(c, I)
        /\ I.kind = "inner_dwell"
    BY SegmentsParts
  <2>d. /\ R.start = 0 /\ R.end = c.rise /\ O.start = c.rise /\ O.end = o2
        /\ T.start = o2 /\ T.end = o3 /\ I.start = o3 /\ I.end = o4
    BY RoundedLayout
  <2>e. /\ o2 \in Nat /\ o3 \in Nat /\ o4 \in Nat
        /\ outer > 0 => c.rise < o2
        /\ o2 < o3 /\ o2 < FullTurn
        /\ inner > 0 => o3 < o4 /\ o3 < FullTurn
        /\ ~(inner > 0) => 2 * fl(FullTurn - o2) # c.return
    BY <1>2, RoundedOrder
  <2>f. ~(outer > 0) => o2 = c.rise
    <3>1. fl(c.rise) = c.rise
      BY <2>a, InputAssumption
    <3>2. ~(outer > 0) => c.rise + outer = c.rise
      BY <2>a
    <3>. QED
      BY <3>1, <3>2
  <2>. HIDE DEF ss, R, O, T, I, n, outer, inner, o2, o3, o4
  <2>1. /\ FieldsOK(c, R) /\ FieldsOK(c, T)
        /\ outer > 0 => FieldsOK(c, O)
        /\ inner > 0 => FieldsOK(c, I)
    BY <2>a, <2>c, <2>d, <2>e DEF FieldsOK
  <2>2. n \in 2 .. 4
    BY <2>b
  <2>3. \A i \in 1 .. n : FieldsOK(c, ss[i])
    <3>1. CASE outer > 0
      BY <2>b, <2>1, <3>1
    <3>2. CASE ~(outer > 0)
      BY <2>b, <2>1, <3>2
    <3>. QED
      BY <3>1, <3>2
  <2>4. \A i \in 1 .. n - 1 : ss[i].end = ss[i + 1].start /\ ss[i].end < FullTurn
    <3>1. CASE outer > 0
      BY <2>a, <2>b, <2>d, <2>e, <3>1
    <3>2. CASE ~(outer > 0)
      BY <2>a, <2>b, <2>d, <2>e, <2>f, <3>2
    <3>. QED
      BY <3>1, <3>2
  <2>5. ~isDwell(ss[n]) => 2 * fl(FullTurn - ss[n].start) # ss[n].beta
    <3>1. CASE inner > 0
      <4>1. ss[n] = I
        BY <2>b, <3>1
      <4>. QED
        BY <2>c, <4>1 DEF isDwell
    <3>2. CASE ~(inner > 0)
      <4>1. ss[n] = T
        BY <2>b, <3>2
      <4>. QED
        BY <2>c, <2>d, <2>e, <3>2, <4>1
    <3>. QED
      BY <3>1, <3>2
  <2>6. ss[1].kind = "rise" /\ ss[1].start = 0
    BY <2>b, <2>c, <2>d
  <2>. QED
    BY <2>b, <2>2, <2>3, <2>4, <2>5, <2>6 DEF Rows, ss, n, R, O, T, I
<1>. QED
  BY <1>1, <1>2 DEF Regular

\* The last segment starts before the full turn.
LEMMA LastStarts ==
  ASSUME NEW c, NEW ss, Rows(c, ss)
  PROVE  Last(ss).start < FullTurn
<1>. DEFINE n == Len(ss)
<1>1. n \in 2 .. 4 /\ \A i \in 1 .. n - 1 : ss[i].end = ss[i + 1].start /\ ss[i].end < FullTurn
  BY DEF Rows
<1>. HIDE DEF n
<1>2. n - 1 \in 1 .. n - 1 /\ (n - 1) + 1 = n
  BY <1>1
<1>3. ss[n].start < FullTurn
  BY <1>1, <1>2
<1>. QED
  BY <1>3 DEF Last, n

-----------------------------------------------------------------------------
(* The displacement at the ends of a segment. *)

\* The displacement and the angle of a restored value.
LEMMA RestoreFields ==
  ASSUME NEW w, NEW sp, NEW theta, NEW time, NEW returning \in BOOLEAN
  PROVE  LET m == restore(w, sp, theta, time, returning)
         IN  /\ m.s = IF returning THEN sp.h * Unit - sp.h * w.y ELSE sp.h * w.y
             /\ m.theta = theta
BY DEF restore, Motion

\* The level a segment starts from, and the one it ends at.
StartLevel(c, kind) == IF kind \in {"rise", "inner_dwell"} THEN 0 ELSE c.h * Unit

EndLevel(c, kind) == IF kind \in {"rise", "outer_dwell"} THEN c.h * Unit ELSE 0

\* A dwell rests, whichever side it is asked for.
LEMMA DwellLevel ==
  ASSUME NEW c, NEW sg, FieldsOK(c, sg), isDwell(sg), NEW theta, NEW side
  PROVE  /\ sideMotion(sg, theta, side) = sideMotion(sg, theta, 0)
         /\ sideMotion(sg, theta, side).theta = theta
         /\ sideMotion(sg, theta, side).s = StartLevel(c, sg.kind)
         /\ sideMotion(sg, theta, side).s = EndLevel(c, sg.kind)
BY DEF sideMotion, Motion, StartLevel, EndLevel, FieldsOK, Parts, isDwell

\* A motion is sampled at the fraction of its angle that theta has reached.
LEMMA MovingIs ==
  ASSUME NEW c, NEW sg, FieldsOK(c, sg), ~isDwell(sg), NEW theta, NEW side
  PROVE  LET x == IF theta > sg.start THEN fl(theta - sg.start) ELSE 0
         IN  sideMotion(sg, theta, side) =
               restore(EvalSide(sg.law, [n |-> x, d |-> sg.beta], side), sg.spec, theta, sg.start,
                       sg.kind = "return")
BY DEF sideMotion, SampleSide, FieldsOK, Parts

\* A segment starts from its level, and the sides do not differ there.
LEMMA StartOf ==
  ASSUME NEW c, c.h \in Int, NEW sg, FieldsOK(c, sg), NEW side \in Int
  PROVE  /\ sideMotion(sg, sg.start, side) = sideMotion(sg, sg.start, 0)
         /\ sideMotion(sg, sg.start, side).s = StartLevel(c, sg.kind)
         /\ sideMotion(sg, sg.start, side).theta = sg.start
<1>1. CASE isDwell(sg)
  BY <1>1, DwellLevel
<1>2. CASE ~isDwell(sg)
  <2>. DEFINE w(k) == EvalSide(sg.law, [n |-> 0, d |-> sg.beta], k)
              ret == sg.kind = "return"
              m(k) == restore(w(k), sg.spec, sg.start, sg.start, ret)
  <2>1. /\ sg.law \in Laws /\ sg.beta \in Int /\ sg.beta > 0 /\ sg.spec.h = c.h /\ sg.start \in Int
        /\ sg.kind \in {"rise", "return"}
    BY <1>2 DEF FieldsOK, Parts, isDwell, Kinds
  <2>2. ~(sg.start > sg.start)
    BY <2>1
  <2>3. \A k \in Int : sideMotion(sg, sg.start, k) = m(k)
    BY <1>2, <2>2, MovingIs
  <2>4. w(side) = w(0) /\ w(side).y = 0
    BY <2>1, EvalStart
  <2>. HIDE DEF w
  <2>5. /\ m(side).s = IF ret THEN c.h * Unit - c.h * w(side).y ELSE c.h * w(side).y
        /\ m(side).theta = sg.start
    <3>1. ret \in BOOLEAN
      OBVIOUS
    <3>. HIDE DEF ret
    <3>. QED
      BY <2>1, <3>1, RestoreFields
  <2>6. c.h * Unit - c.h * 0 = c.h * Unit /\ c.h * 0 = 0
    BY DEF Unit
  <2>7. StartLevel(c, sg.kind) = IF ret THEN c.h * Unit ELSE 0
    BY <2>1 DEF StartLevel
  <2>8. m(side) = m(0)
    BY <2>4
  <2>. HIDE DEF m, ret
  <2>. QED
    BY <2>3, <2>4, <2>5, <2>6, <2>7, <2>8
<1>. QED
  BY <1>1, <1>2

\* A segment ends at its level.
LEMMA EndOf ==
  ASSUME ExactSums, NEW c, c.h \in Int, NEW sg, SegmentOK(c, sg), NEW side \in Int
  PROVE  sideMotion(sg, sg.end, side).s = EndLevel(c, sg.kind)
<1>1. CASE isDwell(sg)
  BY <1>1, DwellLevel DEF SegmentOK
<1>2. CASE ~isDwell(sg)
  <2>. DEFINE w == EvalSide(sg.law, [n |-> sg.beta, d |-> sg.beta], side)
              ret == sg.kind = "return"
              m == restore(w, sg.spec, sg.end, sg.start, ret)
  <2>1. /\ sg.law \in Laws /\ sg.beta \in Nat /\ sg.beta > 0 /\ sg.spec.h = c.h /\ sg.start \in Nat
        /\ sg.kind \in {"rise", "return"} /\ sg.end = sg.start + sg.beta /\ sg.end <= 4 * FullTurn
    BY <1>2 DEF SegmentOK, FieldsOK, Parts, isDwell, Kinds
  <2>2. sg.end > sg.start /\ sg.end - sg.start = sg.beta /\ sg.beta \in 0 .. 4 * FullTurn
    BY <2>1, KinematicsAssumption
  <2>3. fl(sg.end - sg.start) = sg.beta
    BY <2>2 DEF ExactSums
  <2>f. FieldsOK(c, sg)
    BY DEF SegmentOK
  <2>4. sideMotion(sg, sg.end, side) = m
    <3>. DEFINE x == IF sg.end > sg.start THEN fl(sg.end - sg.start) ELSE 0
    <3>1. sideMotion(sg, sg.end, side) =
            restore(EvalSide(sg.law, [n |-> x, d |-> sg.beta], side), sg.spec, sg.end, sg.start, ret)
      BY <1>2, <2>f, MovingIs
    <3>2. x = sg.beta
      BY <2>2, <2>3
    <3>. HIDE DEF x
    <3>. QED
      BY <3>1, <3>2, Zenon
  <2>5. w.y = Unit
    BY <2>1, EvalEnd
  <2>. HIDE DEF w
  <2>6. m.s = IF ret THEN c.h * Unit - c.h * w.y ELSE c.h * w.y
    <3>1. ret \in BOOLEAN
      OBVIOUS
    <3>. HIDE DEF ret
    <3>. QED
      BY <2>1, <3>1, RestoreFields
  <2>7. c.h * Unit - c.h * Unit = 0
    BY DEF Unit
  <2>8. EndLevel(c, sg.kind) = IF ret THEN 0 ELSE c.h * Unit
    BY <2>1 DEF EndLevel
  <2>. HIDE DEF m, ret
  <2>. QED
    BY <2>4, <2>5, <2>6, <2>7, <2>8
<1>. QED
  BY <1>1, <1>2

-----------------------------------------------------------------------------
(* The joints. *)

BoundaryJoint(ss, i) ==
  Joint(ss[i], ss[i + 1],
        Join(ss[i].end, "boundary", sideMotion(ss[i], ss[i].end, 1),
             sideMotion(ss[i + 1], ss[i + 1].start, -1)))

Boundaries(ss) == {BoundaryJoint(ss, i) : i \in 1 .. Len(ss) - 1}

Switches(ss) == {switchJoint(ss[i]) : i \in {k \in 1 .. Len(ss) : ss[k].law = "parabolic"}}

JointSet(ss) == Boundaries(ss) \cup Switches(ss) \cup {cyclicJoint(ss)}

Has(q, x) == \E k \in 1 .. Len(q) : q[k] = x

\* An element of one of two sequences is an element of their concatenation.
LEMMA ConcatHas ==
  ASSUME NEW S, NEW a \in Seq(S), NEW b \in Seq(S)
  PROVE  /\ a \o b \in Seq(S)
         /\ \A x : Has(a, x) \/ Has(b, x) => Has(a \o b, x)
<1>1. /\ a \o b \in Seq(S) /\ Len(a \o b) = Len(a) + Len(b) /\ Len(a) \in Nat /\ Len(b) \in Nat
      /\ \A i \in 1 .. Len(a) : (a \o b)[i] = a[i]
      /\ \A i \in 1 .. Len(b) : (a \o b)[Len(a) + i] = b[i]
  OBVIOUS
<1>2. ASSUME NEW x, NEW i \in 1 .. Len(a), a[i] = x
      PROVE  Has(a \o b, x)
  <2>1. i \in 1 .. Len(a \o b) /\ (a \o b)[i] = x
    BY <1>1, <1>2
  <2>. QED
    BY <2>1 DEF Has
<1>3. ASSUME NEW x, NEW i \in 1 .. Len(b), b[i] = x
      PROVE  Has(a \o b, x)
  <2>1. Len(a) + i \in 1 .. Len(a \o b) /\ (a \o b)[Len(a) + i] = x
    BY <1>1, <1>3
  <2>. QED
    BY <2>1 DEF Has
<1>. QED
  BY <1>1, <1>2, <1>3 DEF Has

\* The two loops of Discontinuities.
LEMMA JointParts ==
  ASSUME NEW S, NEW ss \in Seq(S), Len(ss) \in 2 .. 4
  PROVE  /\ boundaryJoints(ss) \o switchJoints(ss) \in Seq(JointSet(ss))
         /\ \A i \in 1 .. Len(ss) : ss[i].law = "parabolic" =>
              Has(boundaryJoints(ss) \o switchJoints(ss), switchJoint(ss[i]))
<1>. DEFINE J == JointSet(ss)
            at(i) == IF i <= Len(ss) /\ ss[i].law = "parabolic" THEN <<switchJoint(ss[i])>> ELSE <<>>
            bs == boundaryJoints(ss)
            sw == switchJoints(ss)
<1>1. bs \in Seq(J)
  <2>1. bs = [i \in 1 .. Len(ss) - 1 |-> BoundaryJoint(ss, i)]
    BY DEF boundaryJoints, BoundaryJoint
  <2>2. \A i \in 1 .. Len(ss) - 1 : BoundaryJoint(ss, i) \in J
    BY DEF JointSet, Boundaries
  <2>3. Len(ss) - 1 \in Nat
    OBVIOUS
  <2>. HIDE DEF J, bs
  <2>. QED
    BY <2>1, <2>2, <2>3
<1>2. \A i \in 1 .. 4 : at(i) \in Seq(J) /\ (i <= Len(ss) /\ ss[i].law = "parabolic" => Has(at(i), switchJoint(ss[i])))
  <2>. TAKE i \in 1 .. 4
  <2>1. CASE i <= Len(ss) /\ ss[i].law = "parabolic"
    <3>1. at(i) = <<switchJoint(ss[i])>>
      BY <2>1
    <3>2. switchJoint(ss[i]) \in J
      BY <2>1 DEF JointSet, Switches
    <3>. HIDE DEF J, at
    <3>3. at(i) \in Seq(J) /\ Len(at(i)) = 1 /\ at(i)[1] = switchJoint(ss[i])
      BY <3>1, <3>2
    <3>. QED
      BY <3>3 DEF Has
  <2>2. CASE ~(i <= Len(ss) /\ ss[i].law = "parabolic")
    BY <2>2 DEF Has
  <2>. QED
    BY <2>1, <2>2
<1>4. sw = at(1) \o at(2) \o at(3) \o at(4)
  BY DEF switchJoints
<1>. HIDE DEF J, at, bs
<1>6. sw \in Seq(J) /\ \A i \in 1 .. Len(ss) : ss[i].law = "parabolic" => Has(sw, switchJoint(ss[i]))
  <2>. DEFINE a2 == at(1) \o at(2)
              a3 == a2 \o at(3)
  <2>1. at(1) \in Seq(J) /\ at(2) \in Seq(J) /\ at(3) \in Seq(J) /\ at(4) \in Seq(J)
    BY <1>2
  <2>2. a2 \in Seq(J) /\ \A x : Has(at(1), x) \/ Has(at(2), x) => Has(a2, x)
    BY <2>1, ConcatHas, Zenon
  <2>. HIDE DEF a2
  <2>3. a3 \in Seq(J) /\ \A x : Has(a2, x) \/ Has(at(3), x) => Has(a3, x)
    BY <2>1, <2>2, ConcatHas, Zenon
  <2>4. sw = a3 \o at(4)
    BY <1>4 DEF a2
  <2>. HIDE DEF a3, sw
  <2>5. sw \in Seq(J) /\ \A x : Has(a3, x) \/ Has(at(4), x) => Has(sw, x)
    <3>0. a3 \in Seq(J) /\ at(4) \in Seq(J)
      BY <2>1, <2>3
    <3>1. a3 \o at(4) \in Seq(J) /\ \A x : Has(a3, x) \/ Has(at(4), x) => Has(a3 \o at(4), x)
      BY <3>0, ConcatHas, Zenon
    <3>. QED
      BY <2>4, <3>1, Zenon
  <2>6. \A i \in 1 .. 4 : \A x : Has(at(i), x) => Has(sw, x)
    BY <2>2, <2>3, <2>5
  <2>7. \A n \in 2 .. 4 : \A i \in 1 .. n : i \in 1 .. 4 /\ i <= n
    OBVIOUS
  <2>8. Len(ss) \in 2 .. 4
    OBVIOUS
  <2>. QED
    BY <1>2, <2>5, <2>6, <2>7, <2>8, Zenon
<1>. HIDE DEF sw
<1>7. bs \o sw \in Seq(J) /\ \A x : Has(sw, x) => Has(bs \o sw, x)
  BY <1>1, <1>6, ConcatHas, Zenon
<1>. QED
  BY <1>6, <1>7, Zenon DEF J, bs, sw

\* The list of joints holds nothing else, and every switch.
LEMMA JointsAre ==
  ASSUME NEW S, NEW ss \in Seq(S), Len(ss) \in 2 .. 4
  PROVE  /\ Discontinuities(ss) \in Seq(JointSet(ss))
         /\ \A i \in 1 .. Len(ss) : ss[i].law = "parabolic" =>
              Has(Discontinuities(ss), switchJoint(ss[i]))
<1>. DEFINE J == JointSet(ss)
            a == boundaryJoints(ss) \o switchJoints(ss)
            cy == <<cyclicJoint(ss)>>
<1>1. a \in Seq(J) /\ \A i \in 1 .. Len(ss) : ss[i].law = "parabolic" => Has(a, switchJoint(ss[i]))
  BY JointParts
<1>2. cy \in Seq(J)
  <2>1. cyclicJoint(ss) \in J
    BY DEF JointSet
  <2>. HIDE DEF J
  <2>. QED
    BY <2>1
<1>3. Discontinuities(ss) = a \o cy
  BY DEF Discontinuities
<1>. HIDE DEF a, cy, J
<1>4. a \o cy \in Seq(J) /\ \A x : Has(a, x) => Has(a \o cy, x)
  BY <1>1, <1>2, ConcatHas, Zenon
<1>. QED
  BY <1>1, <1>3, <1>4, Zenon DEF J

\* The velocity, the acceleration and the noise of the velocity.
LEMMA RestoreRates ==
  ASSUME NEW w, NEW sp, NEW theta, NEW time, NEW returning \in BOOLEAN
  PROVE  LET m == restore(w, sp, theta, time, returning)
             o(y) == MulDiv(y, sp.omega, sp.beta)
         IN  /\ m.v = IF returning THEN -o(sp.h * w.y1) ELSE o(sp.h * w.y1)
             /\ m.a = IF returning THEN -o(o(sp.h * w.y2)) ELSE o(o(sp.h * w.y2))
             /\ m.noise[1] = IF returning THEN -o(sp.h * w.noise[1]) ELSE o(sp.h * w.noise[1])
BY DEF restore, Motion, factor

\* The midpoint of a parabolic motion: both sides take half the stroke and the
\* same velocity, and the acceleration is reversed.
LEMMA Midpoint ==
  ASSUME ExactSums, NEW c \in Configs, Validate(c), NEW sg, SegmentOK(c, sg), sg.law = "parabolic"
  PROVE  LET theta == fl(sg.start + sg.beta \div 2)
             left == sideMotion(sg, theta, -1)
             right == sideMotion(sg, theta, 1)
         IN  /\ left.s = right.s
             /\ left.v = right.v /\ left.noise[1] = right.noise[1] /\ left.noise[1] \in Int
             /\ factor(sg.spec, <<0, 4 * Unit, 0>>)[2] # 0 => left.a # right.a
<1>. DEFINE b == sg.beta \div 2
            w(side) == EvalSide("parabolic", [n |-> b, d |-> sg.beta], side)
            theta == fl(sg.start + b)
            ret == sg.kind = "return"
            m(side) == restore(w(side), sg.spec, theta, sg.start, ret)
            o(y) == MulDiv(y, c.omega, sg.beta)
<1>1. /\ sg.beta \in Nat /\ sg.beta > 0 /\ sg.beta % 2 = 0 /\ sg.start \in Nat /\ sg.start + sg.beta <= 4 * FullTurn
      /\ sg.kind \in {"rise", "return"} /\ ~isDwell(sg) /\ sg.law = "parabolic"
      /\ sg.spec.h = c.h /\ sg.spec.beta = sg.beta /\ sg.spec.omega = c.omega
  BY DEF SegmentOK, FieldsOK, Parts, isDwell, Kinds
<1>2. b \in Nat /\ b > 0 /\ sg.beta = 2 * b
  BY <1>1
<1>3. sg.start + b \in 0 .. 4 * FullTurn /\ b \in 0 .. 4 * FullTurn
  BY <1>1, <1>2, KinematicsAssumption
<1>4. theta = sg.start + b /\ theta > sg.start /\ fl(theta - sg.start) = b
  <2>1. theta = sg.start + b
    BY <1>3 DEF ExactSums
  <2>2. sg.start + b > sg.start /\ (sg.start + b) - sg.start = b
    BY <1>1, <1>2
  <2>3. fl(b) = b
    BY <1>3 DEF ExactSums
  <2>. QED
    BY <2>1, <2>2, <2>3
<1>5. \A side \in {-1, 1} :
        w(side) = [y |-> Unit \div 2, y1 |-> 2 * Unit, y2 |-> IF side = 1 THEN -4 * Unit ELSE 4 * Unit,
                   y3 |-> 0, noise |-> <<0, 0, 0>>]
  BY <1>2, EvalMiddle
<1>6. \A side \in {-1, 1} : sideMotion(sg, theta, side) = m(side)
  <2>. HIDE DEF theta, b
  <2>1. \A side : LET x == IF theta > sg.start THEN fl(theta - sg.start) ELSE 0
                 IN  sideMotion(sg, theta, side) =
                       restore(EvalSide(sg.law, [n |-> x, d |-> sg.beta], side), sg.spec, theta, sg.start,
                               sg.kind = "return")
    BY <1>1, MovingIs, Zenon DEF SegmentOK
  <2>. QED
    BY <1>1, <1>4, <2>1
<1>7. /\ w(-1).y = w(1).y /\ w(-1).y1 = w(1).y1 /\ w(-1).noise[1] = 0 /\ w(1).noise[1] = 0
      /\ w(-1).y2 = 4 * Unit /\ w(1).y2 = -(4 * Unit)
  BY <1>5 DEF Unit
<1>. HIDE DEF w, theta
<1>8. ret \in BOOLEAN
  OBVIOUS
<1>. HIDE DEF ret
<1>9. \A side \in {-1, 1} :
        /\ m(side).s = IF ret THEN c.h * Unit - c.h * w(side).y ELSE c.h * w(side).y
        /\ m(side).v = IF ret THEN -o(c.h * w(side).y1) ELSE o(c.h * w(side).y1)
        /\ m(side).a = IF ret THEN -o(o(c.h * w(side).y2)) ELSE o(o(c.h * w(side).y2))
        /\ m(side).noise[1] = IF ret THEN -o(c.h * w(side).noise[1]) ELSE o(c.h * w(side).noise[1])
  BY <1>1, <1>8, RestoreFields, RestoreRates
<1>10. factor(sg.spec, <<0, 4 * Unit, 0>>)[2] = o(o(c.h * (4 * Unit)))
  BY <1>1 DEF factor
<1>11. c.h \in Int /\ c.omega \in Int
  BY ValidAngles
<1>12. /\ \A y \in Int : o(y) \in Int /\ o(-y) = -o(y)
       /\ o(0) = 0
  <2>. DEFINE om == c.omega
              be == sg.beta
  <2>1. om \in Int /\ be \in Int /\ be > 0
    BY <1>1, <1>11
  <2>. HIDE DEF om, be
  <2>2. \A y \in Int : MulDiv(y, om, be) \in Int /\ MulDiv(-y, om, be) = -MulDiv(y, om, be) /\ MulDiv(0, om, be) = 0
    BY <2>1, MulDivOdd, Zenon
  <2>. QED
    BY <2>2 DEF om, be
<1>. HIDE DEF m, o
<1>13. c.h * (4 * Unit) \in Int /\ c.h * (-(4 * Unit)) = -(c.h * (4 * Unit)) /\ c.h * 0 = 0
  BY <1>11 DEF Unit
<1>14. m(-1).noise[1] = m(1).noise[1] /\ m(-1).noise[1] \in Int
  BY <1>7, <1>9, <1>12, <1>13
<1>15. m(-1).s = m(1).s /\ m(-1).v = m(1).v
  BY <1>7, <1>9
<1>16. o(o(c.h * (4 * Unit))) # 0 => m(-1).a # m(1).a
  <2>. DEFINE x == c.h * (4 * Unit)
              A == o(o(x))
  <2>1. x \in Int /\ o(x) \in Int /\ o(-x) = -o(x) /\ o(-o(x)) = -A /\ A \in Int
    BY <1>12, <1>13
  <2>2. c.h * w(-1).y2 = x /\ c.h * w(1).y2 = -x
    BY <1>7, <1>13
  <2>. HIDE DEF x
  <2>3. o(o(c.h * w(-1).y2)) = A /\ o(o(c.h * w(1).y2)) = -A
    BY <2>1, <2>2
  <2>. HIDE DEF A
  <2>4. m(-1).a = (IF ret THEN -A ELSE A) /\ m(1).a = (IF ret THEN A ELSE -A)
    BY <1>9, <2>1, <2>3
  <2>5. A # 0 => m(-1).a # m(1).a
    BY <2>1, <2>4
  <2>. QED
    BY <2>5 DEF A, x
<1>17. sideMotion(sg, theta, -1) = m(-1) /\ sideMotion(sg, theta, 1) = m(1)
  BY <1>6
<1>. QED
  BY <1>10, <1>14, <1>15, <1>16, <1>17, Zenon DEF theta, b

\* No joint of a turn that closes has a displacement jump: neighbours meet at
\* the same level, the last segment comes back to 0 where the rise starts, and
\* the two halves of a parabolic motion meet at half the stroke.
LEMMA JointsLevel ==
  ASSUME ExactSums, NEW c \in Configs, Validate(c), NEW ss, Chain(c, ss),
         AngleSum(c) = FullTurn \/ c.inner > 0, NEW q \in JointSet(ss)
  PROVE  q.seam.sCont
<1>h. c.h \in Int
  BY ValidAngles
<1>l. Len(ss) \in 2 .. 4 /\ 1 \in 1 .. Len(ss) /\ Len(ss) \in 1 .. Len(ss)
  BY DEF Chain
<1>j. \A theta, kind, x, y, l, r :
        x.s = y.s => Joint(l, r, Join(theta, kind, x, y)).seam.sCont
  BY DEF Joint, Join
<1>1. CASE q \in Boundaries(ss)
  <2>1. PICK i \in 1 .. Len(ss) - 1 : q = BoundaryJoint(ss, i)
    BY <1>1 DEF Boundaries
  <2>. DEFINE l == ss[i]
              r == ss[i + 1]
  <2>2. i \in 1 .. Len(ss) /\ i + 1 \in 1 .. Len(ss)
    BY <1>l
  <2>3. SegmentOK(c, l) /\ SegmentOK(c, r) /\ Follows(l.kind, r.kind)
    BY <2>2 DEF Chain
  <2>4. sideMotion(l, l.end, 1).s = EndLevel(c, l.kind)
    BY <1>h, <2>3, EndOf
  <2>5. sideMotion(r, r.start, -1).s = StartLevel(c, r.kind)
    BY <1>h, <2>3, StartOf DEF SegmentOK
  <2>6. EndLevel(c, l.kind) = StartLevel(c, r.kind)
    BY <2>3 DEF Follows, EndLevel, StartLevel
  <2>7. q = Joint(l, r, Join(l.end, "boundary", sideMotion(l, l.end, 1), sideMotion(r, r.start, -1)))
    BY <2>1 DEF BoundaryJoint
  <2>. QED
    BY <1>j, <2>4, <2>5, <2>6, <2>7
<1>2. CASE q \in Switches(ss)
  <2>1. PICK i \in 1 .. Len(ss) : ss[i].law = "parabolic" /\ q = switchJoint(ss[i])
    BY <1>2 DEF Switches
  <2>. DEFINE sg == ss[i]
              theta == fl(sg.start + sg.beta \div 2)
  <2>2. SegmentOK(c, sg)
    BY DEF Chain
  <2>3. sideMotion(sg, theta, -1).s = sideMotion(sg, theta, 1).s
    BY <2>1, <2>2, Midpoint
  <2>4. q = Joint(sg, sg, Join(theta, "switch", sideMotion(sg, theta, -1), sideMotion(sg, theta, 1)))
    BY <2>1 DEF switchJoint
  <2>. QED
    BY <1>j, <2>3, <2>4
<1>3. CASE q = cyclicJoint(ss)
  <2>. DEFINE l == ss[Len(ss)]
              r == ss[1]
  <2>1. /\ SegmentOK(c, l) /\ l.kind \in {"return", "inner_dwell"}
        /\ l.end = FullTurn \/ isDwell(l)
        /\ SegmentOK(c, r) /\ r.start = 0 /\ r.kind = "rise"
    BY <1>l DEF Chain, isDwell
  <2>2. sideMotion(l, FullTurn, 1).s = EndLevel(c, l.kind)
    BY <1>h, <2>1, EndOf, DwellLevel DEF SegmentOK
  <2>3. sideMotion(r, 0, -1).s = StartLevel(c, r.kind)
    BY <1>h, <2>1, StartOf DEF SegmentOK
  <2>4. EndLevel(c, l.kind) = StartLevel(c, r.kind)
    BY <2>1 DEF EndLevel, StartLevel
  <2>5. q = Joint(l, r, Join(FullTurn, "cyclic", sideMotion(l, FullTurn, 1), sideMotion(r, 0, -1)))
    BY <1>3 DEF cyclicJoint, Last
  <2>. QED
    BY <1>j, <2>2, <2>3, <2>4, <2>5
<1>. QED
  BY <1>1, <1>2, <1>3 DEF JointSet

-----------------------------------------------------------------------------
(* The sample on a boundary. *)

\* The segments that contain a boundary, and the one that starts there.
LEMMA BoundaryIn ==
  ASSUME NEW c, NEW ss, Rows(c, ss), NEW i \in 1 .. Len(ss) - 1, NEW k \in 1 .. Len(ss)
  PROVE  LET theta == ss[i].end
         IN  /\ theta >= ss[k].start /\ theta <= ss[k].end <=> k \in {i, i + 1}
             /\ theta >= ss[k].start /\ theta < ss[k].end <=> k = i + 1
             /\ theta \in Nat /\ theta < FullTurn
<1>. DEFINE theta == ss[i].end
            s(m) == ss[m].start
            e(m) == ss[m].end
            n == Len(ss)
<1>1. n \in 2 .. 4
  BY DEF Rows
<1>2. \A m \in 1 .. n : s(m) \in Nat /\ e(m) \in Nat /\ s(m) < e(m)
  <2>1. \A m \in 1 .. n : FieldsOK(c, ss[m])
    BY DEF Rows
  <2>. HIDE DEF n
  <2>. QED
    BY <2>1 DEF FieldsOK, Parts
<1>3. e(i) = s(i + 1) /\ e(i) < FullTurn
  BY DEF Rows
<1>4. \A a, b \in 1 .. n : a < b => e(a) <= s(b)
  BY RowsOrder
<1>5. i \in 1 .. n /\ i + 1 \in 1 .. n /\ theta = e(i) /\ i \in Int /\ k \in Int
  BY <1>1
<1>6. FullTurn \in Nat
  BY KinematicsAssumption
<1>. HIDE DEF theta, s, e, n
<1>7. k \in 1 .. n
  BY DEF n
<1>8. CASE k < i
  <2>1. e(k) <= s(i)
    BY <1>4, <1>5, <1>7, <1>8
  <2>2. e(k) < theta /\ k # i /\ k # i + 1
    BY <1>2, <1>5, <1>7, <1>8, <2>1
  <2>3. theta < FullTurn /\ theta \in Nat
    BY <1>2, <1>3, <1>5, <1>6
  <2>. QED
    BY <1>2, <1>7, <2>2, <2>3 DEF s, e, theta
<1>9. CASE k > i + 1
  <2>1. e(i + 1) <= s(k)
    BY <1>4, <1>5, <1>7, <1>9
  <2>2. theta < s(k) /\ k # i /\ k # i + 1
    BY <1>2, <1>3, <1>5, <1>7, <1>9, <2>1
  <2>3. theta < FullTurn /\ theta \in Nat
    BY <1>2, <1>3, <1>5, <1>6
  <2>. QED
    BY <1>2, <1>7, <2>2, <2>3 DEF s, e, theta
<1>10. CASE k = i
  <2>1. theta >= s(k) /\ theta = e(k) /\ k # i + 1 /\ theta < FullTurn /\ theta \in Nat
    BY <1>2, <1>3, <1>5, <1>6, <1>10
  <2>. QED
    BY <1>10, <2>1 DEF s, e, theta
<1>11. CASE k = i + 1
  <2>1. theta = s(k) /\ theta < e(k) /\ theta < FullTurn /\ theta \in Nat /\ e(k) \in Nat
    BY <1>2, <1>3, <1>5, <1>6, <1>11
  <2>. QED
    BY <1>11, <2>1 DEF s, e, theta
<1>. QED
  BY <1>5, <1>8, <1>9, <1>10, <1>11

\* locate gives a boundary to the dwell that ends there, else to the segment
\* that starts there.
LEMMA LocateBoundary ==
  ASSUME NEW c, NEW ss, Rows(c, ss), NEW i \in 1 .. Len(ss) - 1
  PROVE  locate(ss, ss[i].end) = IF isDwell(ss[i]) THEN ss[i] ELSE ss[i + 1]
<1>. DEFINE theta == ss[i].end
            n == Len(ss)
            dwells(sg) == isDwell(sg) /\ theta >= sg.start /\ theta <= sg.end
            around(sg) == theta >= sg.start /\ theta < sg.end
            firstD(k) == dwells(ss[k]) /\ \A m \in 1 .. k - 1 : ~dwells(ss[m])
            firstA(k) == around(ss[k]) /\ \A m \in 1 .. k - 1 : ~around(ss[m])
<1>0. DOMAIN ss = 1 .. n /\ n \in Nat /\ i \in 1 .. n /\ i + 1 \in 1 .. n /\ i \in Int
  BY DEF Rows
<1>1. locate(ss, theta) =
        IF theta >= FullTurn THEN Last(ss)
        ELSE IF \E k \in DOMAIN ss : dwells(ss[k]) THEN ss[CHOOSE k \in DOMAIN ss : firstD(k)]
        ELSE IF \E k \in DOMAIN ss : around(ss[k]) THEN ss[CHOOSE k \in DOMAIN ss : firstA(k)]
        ELSE Last(ss)
  BY Zenon DEF locate, FirstIn
<1>2. \A k \in 1 .. n : /\ dwells(ss[k]) <=> isDwell(ss[k]) /\ k \in {i, i + 1}
                        /\ around(ss[k]) <=> k = i + 1
  BY BoundaryIn
<1>3. ~(theta >= FullTurn)
  <2>1. theta \in Nat /\ theta < FullTurn
    BY <1>0, BoundaryIn
  <2>. QED
    BY <2>1, KinematicsAssumption
<1>. HIDE DEF theta, n, dwells, around
<1>4. CASE isDwell(ss[i])
  <2>1. \A k \in 1 .. n : firstD(k) <=> k = i
    BY <1>0, <1>2, <1>4
  <2>2. (CHOOSE k \in DOMAIN ss : firstD(k)) = i
    BY <1>0, <2>1
  <2>3. \E k \in DOMAIN ss : dwells(ss[k])
    BY <1>0, <1>2, <1>4
  <2>4. locate(ss, theta) = ss[CHOOSE k \in DOMAIN ss : firstD(k)]
    BY <1>1, <1>3, <2>3, Zenon
  <2>5. locate(ss, theta) = ss[i]
    BY <2>2, <2>4, Zenon
  <2>. QED
    BY <1>4, <2>5, Zenon DEF theta
<1>5. CASE ~isDwell(ss[i]) /\ isDwell(ss[i + 1])
  <2>1. \A k \in 1 .. n : firstD(k) <=> k = i + 1
    BY <1>0, <1>2, <1>5
  <2>2. (CHOOSE k \in DOMAIN ss : firstD(k)) = i + 1
    BY <1>0, <2>1
  <2>3. \E k \in DOMAIN ss : dwells(ss[k])
    BY <1>0, <1>2, <1>5
  <2>4. locate(ss, theta) = ss[CHOOSE k \in DOMAIN ss : firstD(k)]
    BY <1>1, <1>3, <2>3, Zenon
  <2>5. locate(ss, theta) = ss[i + 1]
    BY <2>2, <2>4, Zenon
  <2>. QED
    BY <1>5, <2>5, Zenon DEF theta
<1>6. CASE ~isDwell(ss[i]) /\ ~isDwell(ss[i + 1])
  <2>1. \A k \in 1 .. n : firstA(k) <=> k = i + 1
    BY <1>0, <1>2
  <2>2. (CHOOSE k \in DOMAIN ss : firstA(k)) = i + 1
    BY <1>0, <2>1
  <2>3. ~\E k \in DOMAIN ss : dwells(ss[k])
    BY <1>0, <1>2, <1>6
  <2>4. \E k \in DOMAIN ss : around(ss[k])
    BY <1>0, <1>2
  <2>5. locate(ss, theta) = ss[CHOOSE k \in DOMAIN ss : firstA(k)]
    BY <1>1, <1>3, <2>3, <2>4, Zenon
  <2>6. locate(ss, theta) = ss[i + 1]
    BY <2>2, <2>5, Zenon
  <2>. QED
    BY <1>6, <2>6, Zenon DEF theta
<1>. QED
  BY <1>4, <1>5, <1>6

\* What BoundaryOwner says of one sample and one joint.
Owns(p, q) ==
  LET same(x, y) == <<x.s, x.v, x.a, x.j>> = <<y.s, y.v, y.a, y.j>>
      dwell(kind) == kind \in {"outer_dwell", "inner_dwell"}
  IN  q.seam.kind = "boundary" /\ q.seam.theta = p.motion.theta =>
        IF dwell(q.leftSegment)
        THEN p.segment = q.leftSegment /\ same(p.motion, q.seam.left)
        ELSE p.segment = q.rightSegment /\ same(p.motion, q.seam.right)

\* The sample at theta.
SampleAt(ss, theta) ==
  LET sg == locate(ss, theta) IN [segment |-> sg.kind, motion |-> sideMotion(sg, theta, 0)]

\* A sample carries its angle.
LEMMA SampleAngle ==
  ASSUME NEW sg, NEW theta, NEW side
  PROVE  sideMotion(sg, theta, side).theta = theta
<1>1. \A t, s, d, noise : Motion(theta, t, s, d, noise).theta = theta
  BY DEF Motion
<1>2. \A w, sp, t, ret : restore(w, sp, theta, t, ret).theta = theta
  BY <1>1 DEF restore
<1>. QED
  BY <1>1, <1>2 DEF sideMotion, SampleSide

\* A sample and a joint at the same boundary agree.
LEMMA BoundaryOwned ==
  ASSUME NEW c, c.h \in Int, NEW ss, Rows(c, ss), NEW i \in 1 .. Len(ss) - 1
  PROVE  Owns(SampleAt(ss, ss[i].end), BoundaryJoint(ss, i))
<1>. DEFINE l == ss[i]
            r == ss[i + 1]
            theta == l.end
            L == sideMotion(l, theta, 1)
            R == sideMotion(r, r.start, -1)
            q == BoundaryJoint(ss, i)
            p == SampleAt(ss, theta)
<1>1. /\ FieldsOK(c, l) /\ FieldsOK(c, r) /\ l.end = r.start
  <2>1. i \in 1 .. Len(ss) /\ i + 1 \in 1 .. Len(ss)
    BY DEF Rows
  <2>. QED
    BY <2>1 DEF Rows
<1>2. q.leftSegment = l.kind /\ q.rightSegment = r.kind /\ q.seam.left = L /\ q.seam.right = R
  BY DEF BoundaryJoint, Joint, Join
<1>3. locate(ss, theta) = IF isDwell(l) THEN l ELSE r
  BY LocateBoundary
<1>4. p.segment = locate(ss, theta).kind /\ p.motion = sideMotion(locate(ss, theta), theta, 0)
  BY DEF SampleAt
<1>5. isDwell(l) => L = sideMotion(l, theta, 0)
  BY <1>1, DwellLevel
<1>6. R = sideMotion(r, theta, 0)
  BY <1>1, StartOf
<1>7. isDwell(l) <=> l.kind \in {"outer_dwell", "inner_dwell"}
  BY DEF isDwell
<1>. HIDE DEF l, r, theta, L, R, q, p
<1>8. CASE isDwell(l)
  <2>1. p.segment = q.leftSegment /\ p.motion = q.seam.left
    BY <1>2, <1>3, <1>4, <1>5, <1>8
  <2>2. q.leftSegment \in {"outer_dwell", "inner_dwell"}
    BY <1>2, <1>7, <1>8
  <2>. QED
    BY <2>1, <2>2, Zenon DEF Owns, p, q, theta, l
<1>9. CASE ~isDwell(l)
  <2>1. p.segment = q.rightSegment /\ p.motion = q.seam.right
    BY <1>2, <1>3, <1>4, <1>6, <1>9
  <2>2. ~(q.leftSegment \in {"outer_dwell", "inner_dwell"})
    BY <1>2, <1>7, <1>9
  <2>. QED
    BY <2>1, <2>2, Zenon DEF Owns, p, q, theta, l
<1>. QED
  BY <1>8, <1>9

\* Every sample and every joint agree.
LEMMA SamplesOwned ==
  ASSUME NEW c, c.h \in Int, NEW ss, Rows(c, ss), NEW theta, NEW q \in JointSet(ss)
  PROVE  Owns(SampleAt(ss, theta), q)
<1>1. SampleAt(ss, theta).motion.theta = theta
  BY SampleAngle DEF SampleAt
<1>2. CASE q \in Boundaries(ss)
  <2>1. PICK i \in 1 .. Len(ss) - 1 : q = BoundaryJoint(ss, i)
    BY <1>2 DEF Boundaries
  <2>2. q.seam.theta = ss[i].end
    BY <2>1 DEF BoundaryJoint, Joint, Join
  <2>3. Owns(SampleAt(ss, ss[i].end), q)
    BY <2>1, BoundaryOwned
  <2>4. CASE theta = ss[i].end
    BY <2>3, <2>4
  <2>5. CASE theta # ss[i].end
    BY <1>1, <2>2, <2>5 DEF Owns
  <2>. QED
    BY <2>4, <2>5
<1>3. CASE q.seam.kind # "boundary"
  BY <1>3 DEF Owns
<1>4. q \in Boundaries(ss) \/ q.seam.kind # "boundary"
  <2>1. ASSUME NEW l, NEW r, NEW a, NEW kind, NEW x, NEW y
        PROVE  Joint(l, r, Join(a, kind, x, y)).seam.kind = kind
    BY DEF Joint, Join
  <2>2. ASSUME NEW sg
        PROVE  switchJoint(sg).seam.kind = "switch"
    BY <2>1 DEF switchJoint
  <2>3. cyclicJoint(ss).seam.kind = "cyclic"
    BY <2>1 DEF cyclicJoint
  <2>4. CASE q \in Switches(ss)
    BY <2>2, <2>4 DEF Switches
  <2>5. CASE q = cyclicJoint(ss)
    BY <2>3, <2>5
  <2>. QED
    BY <2>4, <2>5 DEF JointSet
<1>. QED
  BY <1>2, <1>3, <1>4

-----------------------------------------------------------------------------
(* Invariance. *)

\* What each step leaves behind: the segments are those of an accepted
\* configuration, the curve and the joints are computed from them and from
\* nothing else.
Progress ==
  /\ cfg \in Configs /\ points \in PointCounts
  /\ phase \in {"new", "built", "sampled", "checked", "refused"}
  /\ segs = <<>> \/ (Validate(cfg) /\ segs = Build(cfg))
  /\ phase \in {"built", "sampled", "checked"} => Validate(cfg) /\ points >= MinPoints /\ segs = Build(cfg)
  /\ phase \in {"sampled", "checked"} => curve = SegmentsCurve(segs, points)
  /\ phase = "checked" => joints = Discontinuities(segs)

\* The steps of serveCycle keep Progress.
LEMMA ProgressInvariant == Spec => []Progress
<1>1. Init => Progress
  BY DEF Init, Progress
<1>2. Progress /\ [Next]_vars => Progress'
  <2>. SUFFICES ASSUME Progress, [Next]_vars
                PROVE  Progress'
    OBVIOUS
  <2>1. CASE Refuse
    BY <2>1 DEF Progress, Refuse, Go
  <2>2. CASE BuildSegments
    BY <2>2 DEF Progress, BuildSegments, Go
  <2>3. CASE RefuseGrid
    BY <2>3 DEF Progress, RefuseGrid, Go
  <2>4. CASE SampleCurve
    BY <2>4 DEF Progress, SampleCurve, Go
  <2>5. CASE CheckJoints
    BY <2>5 DEF Progress, CheckJoints, Go
  <2>6. CASE UNCHANGED vars
    BY <2>6 DEF Progress, vars
  <2>. QED
    BY <2>1, <2>2, <2>3, <2>4, <2>5, <2>6 DEF Next
<1>. QED
  BY <1>1, <1>2, PTL DEF Spec

\* Build leaves out what has no angle.
LEMMA BuildFields ==
  ASSUME NEW c \in Configs, Validate(c)
  PROVE  \A i \in DOMAIN Build(c) : Build(c)[i].kind \in Kinds /\ Build(c)[i].beta \in Nat \ {0}
<1>. DEFINE ss == Build(c)
            R == RiseSeg(c)
            O == OuterSeg(c)
            T == ReturnSeg(c)
            I == InnerSeg(c)
            outer == c.outer
            inner == c.inner
            ok(sg) == sg.kind \in Kinds /\ sg.beta \in Nat \ {0}
<1>a. outer \in Nat /\ inner \in Nat /\ c.rise \in Nat \ {0} /\ c.return \in Nat \ {0}
  BY ValidAngles
<1>b. /\ ss \in Seq({R, O, T, I})
      /\ Len(ss) = 2 + (IF outer > 0 THEN 1 ELSE 0) + (IF inner > 0 THEN 1 ELSE 0)
      /\ ss[1] = R
      /\ outer > 0 => ss[2] = O /\ ss[3] = T
      /\ outer > 0 /\ inner > 0 => ss[4] = I
      /\ ~(outer > 0) => ss[2] = T
      /\ ~(outer > 0) /\ inner > 0 => ss[3] = I
  BY BuildIs
<1>e. PICK none : none = ""
  OBVIOUS
<1>o. O = Segment("outer_dwell", R.end, MotionSpec(none, c.h, c.outer, c.omega))
  BY <1>e, Zenon DEF OuterSeg
<1>i. I = Segment("inner_dwell", T.end, MotionSpec(none, c.h, c.inner, c.omega))
  BY <1>e, Zenon DEF InnerSeg
<1>c. /\ R.kind = "rise" /\ R.beta = c.rise /\ O.kind = "outer_dwell" /\ O.beta = outer
      /\ T.kind = "return" /\ T.beta = c.return /\ I.kind = "inner_dwell" /\ I.beta = inner
  <2>1. R.kind = "rise" /\ R.beta = c.rise
    BY SegmentFields DEF RiseSeg
  <2>2. T.kind = "return" /\ T.beta = c.return
    BY SegmentFields DEF ReturnSeg
  <2>. HIDE DEF R, O, T, I
  <2>3. O.kind = "outer_dwell" /\ O.beta = outer
    BY <1>o, SegmentFields
  <2>4. I.kind = "inner_dwell" /\ I.beta = inner
    BY <1>i, SegmentFields
  <2>. QED
    BY <2>1, <2>2, <2>3, <2>4
<1>. HIDE DEF ss, R, O, T, I, outer, inner
<1>d. ok(R) /\ ok(T) /\ (outer > 0 => ok(O)) /\ (inner > 0 => ok(I))
  BY <1>a, <1>c DEF Kinds
<1>. HIDE DEF ok
<1>1. DOMAIN ss = 1 .. Len(ss)
  BY <1>b
<1>2. \A i \in 1 .. Len(ss) : ok(ss[i])
  <2>1. CASE outer > 0 /\ inner > 0
    BY <1>b, <1>d, <2>1
  <2>2. CASE outer > 0 /\ ~(inner > 0)
    BY <1>b, <1>d, <2>2
  <2>3. CASE ~(outer > 0) /\ inner > 0
    BY <1>b, <1>d, <2>3
  <2>4. CASE ~(outer > 0) /\ ~(inner > 0)
    BY <1>b, <1>d, <2>4
  <2>. QED
    BY <2>1, <2>2, <2>3, <2>4
<1>. QED
  BY <1>1, <1>2 DEF ok, ss

\* The samples are those of the grid, one for each point.
LEMMA CurveIs ==
  ASSUME NEW ss, NEW n \in Nat
  PROVE  /\ DOMAIN SegmentsCurve(ss, n) = 1 .. n /\ Len(SegmentsCurve(ss, n)) = n
         /\ \A i \in 1 .. n : SegmentsCurve(ss, n)[i] = SampleAt(ss, (FullTurn * (i - 1)) \div (n - 1))
<1>1. SegmentsCurve(ss, n) = [i \in 1 .. n |-> SampleAt(ss, (FullTurn * (i - 1)) \div (n - 1))]
  BY Zenon DEF SegmentsCurve, SampleAt
<1>. QED
  BY <1>1

\* The points, the segments and the curve are what TypeOK says, rounded sums
\* and turns that do not close included.
THEOREM TypeCorrect == Spec => []TypeOK
<1>1. Progress => TypeOK
  <2>. SUFFICES ASSUME Progress
                PROVE  TypeOK
    OBVIOUS
  <2>1. /\ cfg \in Configs /\ points \in PointCounts
        /\ phase \in {"new", "built", "sampled", "checked", "refused"}
    BY DEF Progress
  <2>2. \A i \in DOMAIN segs : segs[i].kind \in Kinds /\ segs[i].beta \in Nat \ {0}
    <3>1. CASE segs = <<>>
      BY <3>1
    <3>2. CASE Validate(cfg) /\ segs = Build(cfg)
      BY <2>1, <3>2, BuildFields
    <3>. QED
      BY <3>1, <3>2 DEF Progress
  <2>3. phase \in {"sampled", "checked"} => Len(curve) = points
    <3>. SUFFICES ASSUME phase \in {"sampled", "checked"}
                  PROVE  Len(curve) = points
      OBVIOUS
    <3>1. curve = SegmentsCurve(segs, points) /\ points \in PointCounts /\ points >= MinPoints
      BY DEF Progress
    <3>2. points \in Nat
      BY <3>1, InputAssumption, KinematicsAssumption
    <3>. QED
      BY <3>1, <3>2, CurveIs
  <2>. QED
    BY <2>1, <2>2, <2>3 DEF TypeOK
<1>. QED
  BY <1>1, ProgressInvariant, PTL

-----------------------------------------------------------------------------
(* The response. *)

\* The segments of a checked cycle.
LEMMA CheckedChain ==
  ASSUME ExactSums, Progress, phase = "checked"
  PROVE  /\ cfg \in Configs /\ Validate(cfg) /\ cfg.h \in Int
         /\ Chain(cfg, segs) /\ AngleSum(cfg) = Total(cfg)
         /\ joints = Discontinuities(segs) /\ joints \in Seq(JointSet(segs))
         /\ curve = SegmentsCurve(segs, points) /\ points \in Nat
<1>1. /\ cfg \in Configs /\ Validate(cfg) /\ segs = Build(cfg) /\ points \in PointCounts /\ points >= MinPoints
      /\ curve = SegmentsCurve(segs, points) /\ joints = Discontinuities(segs)
  BY DEF Progress
<1>2. Chain(cfg, segs) /\ AngleSum(cfg) = Total(cfg)
  BY <1>1, BuildChain, Layout
<1>3. Discontinuities(segs) \in Seq(JointSet(segs))
  BY <1>2, JointsAre DEF Chain
<1>4. points \in Nat
  BY <1>1, InputAssumption, KinematicsAssumption
<1>5. cfg.h \in Int
  BY <1>1, InputAssumption
<1>. QED
  BY <1>1, <1>2, <1>3, <1>4, <1>5

\* displacement_jump is false for every legal cycle whose turn closes: whichever
\* laws, angles and dwells, no joint that Discontinuities reports, the cyclic one
\* included, has sides at different displacements. The angles need not make a
\* full turn if there is an inner dwell.
THEOREM NoDisplacementJumpEver ==
  ASSUME ExactSums
  PROVE  Spec => []NoDisplacementJump
<1>1. Progress => NoDisplacementJump
  <2>. SUFFICES ASSUME Progress, Closing(cfg), phase = "checked",
                       NEW k \in DOMAIN joints
                PROVE  joints[k].seam.sCont
    BY DEF NoDisplacementJump, HasDisplacementJump
  <2>1. /\ cfg \in Configs /\ Validate(cfg) /\ Chain(cfg, segs)
        /\ AngleSum(cfg) = FullTurn \/ cfg.inner > 0
        /\ joints \in Seq(JointSet(segs))
    BY CheckedChain DEF Closing
  <2>2. joints[k] \in JointSet(segs)
    BY <2>1
  <2>. QED
    BY <2>1, <2>2, JointsLevel
<1>. QED
  BY <1>1, ProgressInvariant, PTL

\* The segments of a checked cycle whose angles are exact or not tiny.
LEMMA CheckedRows ==
  ASSUME Progress, phase = "checked", Regular(cfg)
  PROVE  /\ cfg.h \in Int /\ Rows(cfg, segs)
         /\ joints = Discontinuities(segs) /\ joints \in Seq(JointSet(segs))
         /\ curve = SegmentsCurve(segs, points) /\ points \in Nat
<1>1. /\ cfg \in Configs /\ Validate(cfg) /\ segs = Build(cfg) /\ points \in PointCounts /\ points >= MinPoints
      /\ curve = SegmentsCurve(segs, points) /\ joints = Discontinuities(segs)
  BY DEF Progress
<1>2. Rows(cfg, segs)
  BY <1>1, BuildRows
<1>3. Discontinuities(segs) \in Seq(JointSet(segs))
  BY <1>2, JointsAre DEF Rows
<1>4. points \in Nat /\ cfg.h \in Int
  BY <1>1, InputAssumption, KinematicsAssumption
<1>. QED
  BY <1>1, <1>2, <1>3, <1>4

\* The curve and the joints agree on every boundary that the grid meets, for any
\* angles that are not tiny: that the ends of the segments are rounded sums does
\* not part them.
THEOREM BoundaryOwnerEver == Spec => [](Regular(cfg) => BoundaryOwner)
<1>1. Progress => (Regular(cfg) => BoundaryOwner)
  <2>. SUFFICES ASSUME Progress, Regular(cfg), phase = "checked",
                       NEW i \in DOMAIN curve, NEW k \in DOMAIN joints
                PROVE  Owns(curve[i], joints[k])
    BY DEF BoundaryOwner, Owns
  <2>1. /\ Rows(cfg, segs) /\ cfg.h \in Int /\ joints \in Seq(JointSet(segs))
        /\ curve = SegmentsCurve(segs, points) /\ points \in Nat
    BY CheckedRows
  <2>2. joints[k] \in JointSet(segs)
    BY <2>1
  <2>3. i \in 1 .. points /\ curve[i] = SampleAt(segs, (FullTurn * (i - 1)) \div (points - 1))
    BY <2>1, CurveIs
  <2>. QED
    BY <2>1, <2>2, <2>3, SamplesOwned
<1>. QED
  BY <1>1, ProgressInvariant, PTL

\* Every parabolic motion is reported with the jump of its acceleration at the
\* midpoint, velocity and displacement continuous, where sums are exact and the
\* acceleration is resolved, whatever the angles make together.
THEOREM SwitchReportedEver ==
  ASSUME ExactSums
  PROVE  Spec => [](Resolved(cfg) => SwitchReported)
<1>1. Progress => (Resolved(cfg) => SwitchReported)
  <2>. SUFFICES ASSUME Progress, Resolved(cfg), phase = "checked",
                       NEW i \in DOMAIN segs, segs[i].law = "parabolic"
                PROVE  \E k \in DOMAIN joints :
                         /\ joints[k].seam.kind = "switch" /\ joints[k].leftSegment = segs[i].kind
                         /\ joints[k].seam.sCont /\ joints[k].seam.vCont /\ ~joints[k].seam.aCont
    BY DEF SwitchReported
  <2>. DEFINE sg == segs[i]
              theta == fl(sg.start + sg.beta \div 2)
              left == sideMotion(sg, theta, -1)
              right == sideMotion(sg, theta, 1)
  <2>1. /\ cfg \in Configs /\ Validate(cfg) /\ Chain(cfg, segs) /\ cfg.h \in Int
        /\ joints = Discontinuities(segs) /\ joints \in Seq(JointSet(segs))
    BY CheckedChain
  <2>2. i \in 1 .. Len(segs) /\ Len(segs) \in 2 .. 4
    BY <2>1 DEF Chain
  <2>3. SegmentOK(cfg, sg)
    BY <2>1, <2>2 DEF Chain
  <2>4. PICK k \in 1 .. Len(joints) : joints[k] = switchJoint(sg)
    <3>1. Has(joints, switchJoint(sg))
      BY <2>1, <2>2, JointsAre DEF Chain
    <3>. QED
      BY <3>1 DEF Has
  <2>5. joints[k] = Joint(sg, sg, Join(theta, "switch", left, right))
    BY <2>4 DEF switchJoint
  <2>6. /\ left.s = right.s
        /\ left.v = right.v /\ left.noise[1] = right.noise[1] /\ left.noise[1] \in Int
        /\ factor(sg.spec, <<0, 4 * Unit, 0>>)[2] # 0 => left.a # right.a
    BY <2>1, <2>3, Midpoint
  <2>7. factor(sg.spec, <<0, 4 * Unit, 0>>)[2] # 0
    <3>1. /\ sg.beta \in {cfg.rise, cfg.return} /\ sg.spec.h = cfg.h /\ sg.spec.omega = cfg.omega
          /\ sg.spec.beta = sg.beta
      BY <2>3 DEF SegmentOK, FieldsOK, Parts, Kinds
    <3>. DEFINE sp == MotionSpec("parabolic", cfg.h, sg.beta, cfg.omega)
    <3>2. sp.h = cfg.h /\ sp.omega = cfg.omega /\ sp.beta = sg.beta
      BY DEF MotionSpec
    <3>3. factor(sp, <<0, 4 * Unit, 0>>)[2] # 0
      BY <3>1, Zenon DEF Resolved
    <3>. HIDE DEF sp, sg
    <3>4. factor(sg.spec, <<0, 4 * Unit, 0>>) = factor(sp, <<0, 4 * Unit, 0>>)
      BY <3>1, <3>2, Zenon DEF factor
    <3>. QED
      BY <3>3, <3>4, Zenon
  <2>. HIDE DEF left, right, theta, sg
  <2>8. approxEqual(left.v, right.v, left.noise[1], right.noise[1])
    BY <2>6, KinematicsAssumption DEF approxEqual, Abs
  <2>9. ~approxEqual(left.a, right.a, left.noise[2], right.noise[2])
    BY <2>6, <2>7 DEF approxEqual
  <2>10. /\ joints[k].seam.kind = "switch" /\ joints[k].leftSegment = sg.kind
         /\ joints[k].seam.sCont /\ joints[k].seam.vCont /\ ~joints[k].seam.aCont
    <3>. DEFINE q == Joint(sg, sg, Join(theta, "switch", left, right))
                va == approxEqual(left.v, right.v, left.noise[1], right.noise[1])
                aa == approxEqual(left.a, right.a, left.noise[2], right.noise[2])
    <3>1. q.leftSegment = sg.kind /\ q.seam = Join(theta, "switch", left, right)
      BY DEF Joint
    <3>2. /\ q.seam.kind = "switch" /\ q.seam.sCont = (left.s = right.s)
          /\ q.seam.vCont = va /\ q.seam.aCont = aa
      BY <3>1 DEF Join
    <3>. HIDE DEF va, aa, q
    <3>3. joints[k] = q /\ va /\ ~aa
      BY <2>5, <2>8, <2>9 DEF va, aa, q
    <3>. QED
      BY <2>6, <3>1, <3>2, <3>3
  <2>11. k \in DOMAIN joints
    BY <2>1
  <2>. QED
    BY <2>10, <2>11 DEF sg
<1>. QED
  BY <1>1, ProgressInvariant, PTL

-----------------------------------------------------------------------------
(* Where a motion meets a dwell. *)

Small(e) == e \in Int /\ -Floor <= e /\ e <= Floor

\* The motion at an end of a segment, as a comparison with a dwell sees it.
EndMotion(l, m) ==
  /\ m.v = 0 /\ Small(m.noise[1])
  /\ l = "cycloid" => m.a = 0 /\ Small(m.noise[2]) /\ m.j # 0
  /\ l # "cycloid" => m.a # 0 /\ m.j = 0 /\ Small(m.noise[3])

\* The components of factor.
LEMMA FactorIs ==
  ASSUME NEW sp, NEW x
  PROVE  LET o(y) == MulDiv(y, sp.omega, sp.beta)
         IN  /\ factor(sp, x)[1] = o(sp.h * x[1])
             /\ factor(sp, x)[2] = o(o(sp.h * x[2]))
             /\ factor(sp, x)[3] = o(o(o(sp.h * x[3])))
BY DEF factor

\* They are integers, vanish where the argument does, and are odd.
LEMMA FactorOdd ==
  ASSUME NEW sp, sp.h \in Int, sp.omega \in Int, sp.beta \in Int, sp.beta > 0, NEW x \in Int
  PROVE  LET o(y) == MulDiv(y, sp.omega, sp.beta)
         IN  /\ o(sp.h * x) \in Int /\ o(o(sp.h * x)) \in Int /\ o(o(o(sp.h * x))) \in Int
             /\ o(sp.h * 0) = 0 /\ o(o(sp.h * 0)) = 0 /\ o(o(o(sp.h * 0))) = 0
             /\ o(o(sp.h * (-x))) = -o(o(sp.h * x))
<1>. DEFINE o(y) == MulDiv(y, sp.omega, sp.beta)
<1>1. \A y \in Int : o(y) \in Int /\ o(0) = 0 /\ o(-y) = -o(y)
  BY MulDivOdd
<1>. HIDE DEF o
<1>2. sp.h * x \in Int /\ sp.h * (-x) = -(sp.h * x) /\ sp.h * 0 = 0
  OBVIOUS
<1>3. o(sp.h * x) \in Int /\ o(-(sp.h * x)) = -o(sp.h * x) /\ o(0) = 0
  BY <1>1, <1>2
<1>4. o(o(sp.h * x)) \in Int /\ o(-o(sp.h * x)) = -o(o(sp.h * x))
  BY <1>1, <1>3
<1>5. o(o(o(sp.h * x))) \in Int
  BY <1>1, <1>4
<1>6. /\ o(sp.h * x) \in Int /\ o(o(sp.h * x)) \in Int /\ o(o(o(sp.h * x))) \in Int
      /\ o(sp.h * 0) = 0 /\ o(o(sp.h * 0)) = 0 /\ o(o(o(sp.h * 0))) = 0
      /\ o(o(sp.h * (-x))) = -o(o(sp.h * x))
  BY <1>2, <1>3, <1>4, <1>5
<1>. QED
  BY <1>6 DEF o

\* The derivatives and the noise of a restored value.
LEMMA RestoreDerivatives ==
  ASSUME NEW w, NEW sp, NEW theta, NEW time, NEW returning \in BOOLEAN
  PROVE  LET m == restore(w, sp, theta, time, returning)
             f == factor(sp, <<w.y1, w.y2, w.y3>>)
             e == factor(sp, w.noise)
         IN  IF returning
             THEN /\ m.v = -f[1] /\ m.a = -f[2] /\ m.j = -f[3]
                  /\ m.noise[1] = -e[1] /\ m.noise[2] = -e[2] /\ m.noise[3] = -e[3]
             ELSE /\ m.v = f[1] /\ m.a = f[2] /\ m.j = f[3]
                  /\ m.noise[1] = e[1] /\ m.noise[2] = e[2] /\ m.noise[3] = e[3]
<1>. DEFINE f == factor(sp, <<w.y1, w.y2, w.y3>>)
            e == factor(sp, w.noise)
            s == IF returning THEN sp.h * Unit - sp.h * w.y ELSE sp.h * w.y
            neg(x) == IF returning THEN <<-x[1], -x[2], -x[3]>> ELSE x
            m == restore(w, sp, theta, time, returning)
<1>1. m = Motion(theta, time, s, neg(f), neg(e))
  BY Zenon DEF restore
<1>. HIDE DEF f, e, s, m
<1>2. m.v = neg(f)[1] /\ m.a = neg(f)[2] /\ m.j = neg(f)[3] /\ m.noise = neg(e)
  BY <1>1 DEF Motion
<1>3. CASE returning
  BY <1>2, <1>3 DEF f, e, m
<1>4. CASE ~returning
  BY <1>2, <1>4 DEF f, e, m
<1>. QED
  BY <1>3, <1>4

\* The law and the angle of a moving segment are those of its kind.
LEMMA MovingSegs ==
  ASSUME NEW c, NEW sg \in {RiseSeg(c), OuterSeg(c), ReturnSeg(c), InnerSeg(c)}
  PROVE  /\ sg.kind = "rise" => sg.spec = MotionSpec(c.riseLaw, c.h, c.rise, c.omega) /\ sg.law = c.riseLaw
         /\ sg.kind = "return" =>
              sg.spec = MotionSpec(c.returnLaw, c.h, c.return, c.omega) /\ sg.law = c.returnLaw
<1>1. \A kind, start, sp : Segment(kind, start, sp).kind = kind
  BY DEF Segment
<1>2. CASE sg = RiseSeg(c)
  <2>1. sg.kind = "rise" /\ sg.spec = MotionSpec(c.riseLaw, c.h, c.rise, c.omega) /\ sg.law = c.riseLaw
    BY <1>2 DEF RiseSeg, Segment, MotionSpec
  <2>. QED
    BY <2>1
<1>3. CASE sg = ReturnSeg(c)
  <2>1. sg.kind = "return" /\ sg.spec = MotionSpec(c.returnLaw, c.h, c.return, c.omega) /\ sg.law = c.returnLaw
    BY <1>3 DEF ReturnSeg, Segment, MotionSpec
  <2>. QED
    BY <2>1
<1>4. CASE sg = OuterSeg(c)
  <2>1. sg.kind = "outer_dwell"
    BY <1>1, <1>4, Zenon DEF OuterSeg
  <2>. QED
    BY <2>1
<1>5. CASE sg = InnerSeg(c)
  <2>1. sg.kind = "inner_dwell"
    BY <1>1, <1>5, Zenon DEF InnerSeg
  <2>. QED
    BY <2>1
<1>. QED
  BY <1>2, <1>3, <1>4, <1>5

\* At either of its ends a motion has no velocity; a cycloid has no acceleration
\* but a jerk, the other laws an acceleration but no jerk.
LEMMA SmoothEnd ==
  ASSUME ExactSums, NEW c \in Configs, Validate(c), Discernible(c), NEW sg, SegmentOK(c, sg), ~isDwell(sg),
         sg \in {RiseSeg(c), OuterSeg(c), ReturnSeg(c), InnerSeg(c)},
         NEW theta \in {sg.start, sg.end}, NEW side \in Int
  PROVE  EndMotion(sg.law, sideMotion(sg, theta, side))
<1>. DEFINE sp == sg.spec
            l == sg.law
            n == IF theta = sg.start THEN 0 ELSE sg.beta
            w == EvalSide(l, [n |-> n, d |-> sg.beta], side)
            p == UnitPeaks(l)
            ret == sg.kind = "return"
            m == sideMotion(sg, theta, side)
            o(y) == MulDiv(y, sp.omega, sp.beta)
            f == factor(sp, <<w.y1, w.y2, w.y3>>)
            e == factor(sp, w.noise)
<1>1. /\ sg.beta \in Nat /\ sg.beta > 0 /\ sg.start \in Nat /\ sg.end = sg.start + sg.beta /\ sg.end <= 4 * FullTurn
      /\ sg.kind \in {"rise", "return"} /\ l \in Laws
      /\ sp.type = l /\ sp.h = c.h /\ sp.beta = sg.beta /\ sp.omega = c.omega
  BY DEF SegmentOK, FieldsOK, Parts, isDwell, Kinds
<1>2. c.h \in Int /\ c.omega \in Int
  BY ValidAngles
<1>3. sp \in MovingSpecsOf(c)
  BY <1>1, MovingSegs DEF MovingSpecsOf
<1>4. m = restore(w, sp, theta, sg.start, ret)
  <2>1. fl(sg.beta) = sg.beta
    <3>1. sg.beta \in 0 .. 4 * FullTurn
      BY <1>1, KinematicsAssumption
    <3>. QED
      BY <3>1 DEF ExactSums
  <2>2. (IF theta > sg.start THEN fl(theta - sg.start) ELSE 0) = n
    <3>1. CASE theta = sg.start
      BY <1>1, <3>1
    <3>2. CASE theta # sg.start
      <4>1. theta = sg.end /\ theta > sg.start /\ theta - sg.start = sg.beta
        BY <1>1, <3>2
      <4>. QED
        BY <2>1, <3>2, <4>1
    <3>. QED
      BY <3>1, <3>2
  <2>3. FieldsOK(c, sg)
    BY DEF SegmentOK
  <2>. DEFINE x == IF theta > sg.start THEN fl(theta - sg.start) ELSE 0
  <2>4. m = restore(EvalSide(l, [n |-> x, d |-> sg.beta], side), sp, theta, sg.start, ret)
    BY <2>3, MovingIs
  <2>5. x = n
    BY <2>2
  <2>. HIDE DEF x, n
  <2>. QED
    BY <2>4, <2>5, Zenon
<1>5. n \in Int /\ (n = 0 \/ n >= sg.beta)
  BY <1>1
<1>. HIDE DEF n
<1>6. /\ w.y1 = 0
      /\ l = "cycloid" => w.y2 = 0 /\ w.y3 = p[3]
      /\ l # "cycloid" => w.y2 = (IF n = 0 THEN p[2] ELSE -p[2]) /\ w.y3 = 0
      /\ w.noise = IF n = 0 THEN <<0, 0, 0>> ELSE EndNoise(l)
  BY <1>1, <1>5, EvalEnds
<1>. HIDE DEF w, m
<1>7. p[2] \in Int /\ p[3] \in Int
  BY <1>1, PeaksAre DEF Laws
<1>8. /\ ClosedPeaks(sp).a = o(o(sp.h * p[2])) /\ ClosedPeaks(sp).j = o(o(o(sp.h * p[3])))
      /\ IF l = "cycloid" THEN ClosedPeaks(sp).j # 0 ELSE ClosedPeaks(sp).a # 0
      /\ \A k \in 1 .. 3 : Abs(factor(sp, EndNoise(l))[k]) <= Floor
  <2>1. ClosedPeaks(sp).a = factor(sp, p)[2] /\ ClosedPeaks(sp).j = factor(sp, p)[3]
    BY <1>1 DEF ClosedPeaks
  <2>2. factor(sp, p)[2] = o(o(sp.h * p[2])) /\ factor(sp, p)[3] = o(o(o(sp.h * p[3])))
    BY FactorIs
  <2>3. /\ IF sp.type = "cycloid" THEN ClosedPeaks(sp).j # 0 ELSE ClosedPeaks(sp).a # 0
        /\ \A k \in 1 .. 3 : Abs(factor(sp, EndNoise(sp.type))[k]) <= Floor
    BY <1>3 DEF Discernible
  <2>. HIDE DEF sp, l, p, o
  <2>. QED
    BY <1>1, <2>1, <2>2, <2>3
<1>. HIDE DEF p, l, sp
<1>9. /\ f[1] = o(sp.h * w.y1) /\ f[2] = o(o(sp.h * w.y2)) /\ f[3] = o(o(o(sp.h * w.y3)))
  <2>. DEFINE x == <<w.y1, w.y2, w.y3>>
  <2>1. x[1] = w.y1 /\ x[2] = w.y2 /\ x[3] = w.y3
    OBVIOUS
  <2>2. f = factor(sp, x)
    OBVIOUS
  <2>. HIDE DEF x, f, o
  <2>3. factor(sp, x)[1] = o(sp.h * x[1]) /\ factor(sp, x)[2] = o(o(sp.h * x[2])) /\ factor(sp, x)[3] = o(o(o(sp.h * x[3])))
    BY FactorIs DEF o
  <2>. QED
    BY <2>1, <2>2, <2>3
<1>10. \A x \in Int :
         /\ o(sp.h * x) \in Int /\ o(o(sp.h * x)) \in Int /\ o(o(o(sp.h * x))) \in Int
         /\ o(sp.h * 0) = 0 /\ o(o(sp.h * 0)) = 0 /\ o(o(o(sp.h * 0))) = 0
         /\ o(o(sp.h * (-x))) = -o(o(sp.h * x))
  <2>1. sp.h \in Int /\ sp.omega \in Int /\ sp.beta \in Int /\ sp.beta > 0
    BY <1>1, <1>2
  <2>. QED
    BY <2>1, FactorOdd
<1>11. Small(e[1]) /\ Small(e[2]) /\ Small(e[3])
  <2>. DEFINE x == w.noise
  <2>1. x[1] \in Int /\ x[2] \in Int /\ x[3] \in Int /\ (n = 0 => x[1] = 0 /\ x[2] = 0 /\ x[3] = 0)
    BY <1>1, <1>6, EndNoiseIs
  <2>. HIDE DEF x, o
  <2>2. e[1] = o(sp.h * x[1]) /\ e[2] = o(o(sp.h * x[2])) /\ e[3] = o(o(o(sp.h * x[3])))
    BY FactorIs DEF x, o
  <2>3. e[1] \in Int /\ e[2] \in Int /\ e[3] \in Int /\ (n = 0 => e[1] = 0 /\ e[2] = 0 /\ e[3] = 0)
    BY <1>10, <2>1, <2>2
  <2>4. n # 0 => Abs(e[1]) <= Floor /\ Abs(e[2]) <= Floor /\ Abs(e[3]) <= Floor
    BY <1>6, <1>8
  <2>. HIDE DEF e
  <2>5. Floor \in Nat
    BY KinematicsAssumption
  <2>. QED
    BY <2>3, <2>4, <2>5 DEF Small, Abs
<1>12. /\ f[1] = 0
       /\ l = "cycloid" => f[2] = 0 /\ f[3] \in Int /\ f[3] # 0
       /\ l # "cycloid" => f[2] \in Int /\ f[2] # 0 /\ f[3] = 0
  <2>. HIDE DEF f, o
  <2>1. f[1] = 0
    BY <1>6, <1>7, <1>9, <1>10
  <2>2. ASSUME l = "cycloid"
        PROVE  f[2] = 0 /\ f[3] \in Int /\ f[3] # 0
    BY <1>6, <1>7, <1>8, <1>9, <1>10, <2>2
  <2>3. ASSUME l # "cycloid"
        PROVE  f[2] \in Int /\ f[2] # 0 /\ f[3] = 0
    <3>1. o(o(sp.h * p[2])) \in Int /\ o(o(sp.h * p[2])) # 0 /\ o(o(sp.h * (-p[2]))) = -o(o(sp.h * p[2]))
      BY <1>7, <1>8, <1>10, <2>3
    <3>2. f[2] = o(o(sp.h * p[2])) \/ f[2] = o(o(sp.h * (-p[2])))
      BY <1>6, <1>9, <2>3
    <3>3. f[3] = 0
      BY <1>6, <1>7, <1>9, <1>10, <2>3
    <3>. QED
      BY <3>1, <3>2, <3>3
  <2>. QED
    BY <2>1, <2>2, <2>3
<1>. HIDE DEF f, e, ret
<1>13. IF ret
       THEN /\ m.v = -f[1] /\ m.a = -f[2] /\ m.j = -f[3]
            /\ m.noise[1] = -e[1] /\ m.noise[2] = -e[2] /\ m.noise[3] = -e[3]
       ELSE /\ m.v = f[1] /\ m.a = f[2] /\ m.j = f[3]
            /\ m.noise[1] = e[1] /\ m.noise[2] = e[2] /\ m.noise[3] = e[3]
  <2>1. ret \in BOOLEAN
    BY DEF ret
  <2>. QED
    BY <1>4, <2>1, RestoreDerivatives DEF f, e
<1>14. Floor \in Nat
  BY KinematicsAssumption
<1>15. EndMotion(l, m)
  BY <1>11, <1>12, <1>13, <1>14 DEF EndMotion, Small
<1>. QED
  BY <1>15 DEF l, m

\* A comparison of a dwell with the end of a motion, on whichever side it is.
LEMMA DwellJoin ==
  ASSUME NEW l, NEW x, NEW y, NEW theta, NEW kind, NEW m, NEW r,
         EndMotion(l, m), r.v = 0, r.a = 0, r.j = 0, r.noise = <<0, 0, 0>>,
         (x = r /\ y = m) \/ (x = m /\ y = r)
  PROVE  LET q == Join(theta, kind, x, y)
         IN  q.vCont /\ (q.aCont <=> l = "cycloid") /\ (q.jCont <=> l # "cycloid")
<1>. DEFINE q == Join(theta, kind, x, y)
<1>1. /\ q.vCont = approxEqual(x.v, y.v, x.noise[1], y.noise[1])
      /\ q.aCont = approxEqual(x.a, y.a, x.noise[2], y.noise[2])
      /\ q.jCont = approxEqual(x.j, y.j, x.noise[3], y.noise[3])
  BY DEF Join
<1>. HIDE DEF q
<1>2. Floor \in Nat
  BY KinematicsAssumption
<1>3. r.noise[1] = 0 /\ r.noise[2] = 0 /\ r.noise[3] = 0
  OBVIOUS
<1>4. \A e : Small(e) => approxEqual(0, 0, e, 0) /\ approxEqual(0, 0, 0, e)
  BY <1>2 DEF Small, approxEqual, Abs
<1>5. \A z, e1, e2 : z # 0 => ~approxEqual(z, 0, e1, e2) /\ ~approxEqual(0, z, e2, e1)
  BY DEF approxEqual
<1>6. approxEqual(x.v, y.v, x.noise[1], y.noise[1])
  BY <1>3, <1>4 DEF EndMotion
<1>7. ASSUME l = "cycloid"
      PROVE  /\ approxEqual(x.a, y.a, x.noise[2], y.noise[2])
             /\ ~approxEqual(x.j, y.j, x.noise[3], y.noise[3])
  BY <1>3, <1>4, <1>5, <1>7 DEF EndMotion
<1>8. ASSUME l # "cycloid"
      PROVE  /\ ~approxEqual(x.a, y.a, x.noise[2], y.noise[2])
             /\ approxEqual(x.j, y.j, x.noise[3], y.noise[3])
  BY <1>3, <1>4, <1>5, <1>8 DEF EndMotion
<1>9. q.vCont /\ (q.aCont <=> l = "cycloid") /\ (q.jCont <=> l # "cycloid")
  BY <1>1, <1>6, <1>7, <1>8
<1>. QED
  BY <1>9 DEF q

\* A dwell has no derivatives and no errors.
LEMMA DwellRests ==
  ASSUME NEW sg, isDwell(sg), NEW theta, NEW side
  PROVE  LET r == sideMotion(sg, theta, side)
         IN  r.v = 0 /\ r.a = 0 /\ r.j = 0 /\ r.noise = <<0, 0, 0>>
BY DEF sideMotion, Motion

\* What DwellSmoothness says of one joint.
Smooth(c, q) ==
  LET kinds == {q.leftSegment, q.rightSegment}
      l == IF "rise" \in kinds THEN c.riseLaw ELSE c.returnLaw
  IN  kinds \cap {"outer_dwell", "inner_dwell"} # {} =>
        /\ q.seam.vCont
        /\ q.seam.aCont <=> l = "cycloid"
        /\ q.seam.jCont <=> l # "cycloid"

\* Two neighbours of which one is a dwell.
LEMMA SmoothNeighbours ==
  ASSUME ExactSums, NEW c \in Configs, Validate(c), Discernible(c),
         NEW l, NEW r, SegmentOK(c, l), SegmentOK(c, r),
         l \in {RiseSeg(c), OuterSeg(c), ReturnSeg(c), InnerSeg(c)},
         r \in {RiseSeg(c), OuterSeg(c), ReturnSeg(c), InnerSeg(c)},
         Follows(l.kind, r.kind),
         NEW theta, NEW kind
  PROVE  Smooth(c, Joint(l, r, Join(theta, kind, sideMotion(l, l.end, 1), sideMotion(r, r.start, -1))))
<1>. DEFINE x == sideMotion(l, l.end, 1)
            y == sideMotion(r, r.start, -1)
            q == Joint(l, r, Join(theta, kind, x, y))
            seam == Join(theta, kind, x, y)
            law == IF "rise" \in {l.kind, r.kind} THEN c.riseLaw ELSE c.returnLaw
<1>1. q.leftSegment = l.kind /\ q.rightSegment = r.kind /\ q.seam = seam
  BY DEF Joint
<1>2. CASE isDwell(l)
  <2>1. ~isDwell(r) /\ r.kind \in {"rise", "return"} /\ law = r.law
    <3>1. l.kind = "outer_dwell" /\ r.kind = "return"
      BY <1>2 DEF isDwell, Follows
    <3>. QED
      BY <3>1, MovingSegs DEF isDwell
  <2>2. EndMotion(r.law, y)
    BY <2>1, SmoothEnd
  <2>3. x.v = 0 /\ x.a = 0 /\ x.j = 0 /\ x.noise = <<0, 0, 0>>
    BY <1>2, DwellRests
  <2>. HIDE DEF x, y, law
  <2>4. seam.vCont /\ (seam.aCont <=> r.law = "cycloid") /\ (seam.jCont <=> r.law # "cycloid")
    BY <2>2, <2>3, DwellJoin
  <2>. HIDE DEF q, seam
  <2>. QED
    BY <1>1, <2>1, <2>4 DEF Smooth, law, q, x, y
<1>3. CASE isDwell(r)
  <2>1. ~isDwell(l) /\ l.kind \in {"rise", "return"} /\ law = l.law
    <3>1. \/ l.kind = "rise" /\ r.kind = "outer_dwell"
          \/ l.kind = "return" /\ r.kind = "inner_dwell"
      BY <1>3 DEF isDwell, Follows
    <3>. QED
      BY <3>1, MovingSegs DEF isDwell
  <2>2. EndMotion(l.law, x)
    BY <2>1, SmoothEnd
  <2>3. y.v = 0 /\ y.a = 0 /\ y.j = 0 /\ y.noise = <<0, 0, 0>>
    BY <1>3, DwellRests
  <2>. HIDE DEF x, y, law
  <2>4. seam.vCont /\ (seam.aCont <=> l.law = "cycloid") /\ (seam.jCont <=> l.law # "cycloid")
    BY <2>2, <2>3, DwellJoin
  <2>. HIDE DEF q, seam
  <2>. QED
    BY <1>1, <2>1, <2>4 DEF Smooth, law, q, x, y
<1>4. CASE ~isDwell(l) /\ ~isDwell(r)
  <2>. HIDE DEF x, y, q
  <2>. QED
    BY <1>1, <1>4 DEF Smooth, isDwell, q, x, y
<1>. QED
  BY <1>2, <1>3, <1>4

\* A rise after a dwell at the end of the turn, wherever the dwell is looked at.
LEMMA SmoothAfterDwell ==
  ASSUME ExactSums, NEW c \in Configs, Validate(c), Discernible(c),
         NEW l, NEW r, SegmentOK(c, r), isDwell(l),
         r \in {RiseSeg(c), OuterSeg(c), ReturnSeg(c), InnerSeg(c)},
         r.kind = "rise", r.start = 0, NEW theta, NEW kind
  PROVE  Smooth(c, Joint(l, r, Join(theta, kind, sideMotion(l, theta, 1), sideMotion(r, 0, -1))))
<1>. DEFINE x == sideMotion(l, theta, 1)
            y == sideMotion(r, 0, -1)
            seam == Join(theta, kind, x, y)
            q == Joint(l, r, seam)
<1>1. q.leftSegment = l.kind /\ q.rightSegment = r.kind /\ q.seam = seam
  BY DEF Joint
<1>2. ~isDwell(r) /\ r.law = c.riseLaw
  BY MovingSegs DEF isDwell
<1>3. EndMotion(r.law, y)
  BY <1>2, SmoothEnd
<1>4. x.v = 0 /\ x.a = 0 /\ x.j = 0 /\ x.noise = <<0, 0, 0>>
  BY DwellRests
<1>. HIDE DEF x, y
<1>5. seam.vCont /\ (seam.aCont <=> r.law = "cycloid") /\ (seam.jCont <=> r.law # "cycloid")
  BY <1>3, <1>4, DwellJoin
<1>. HIDE DEF q, seam
<1>. QED
  BY <1>1, <1>2, <1>5 DEF Smooth, q, seam, x, y

\* Every joint of a chain of segments, whether or not it closes.
LEMMA JointsSmooth ==
  ASSUME ExactSums, NEW c \in Configs, Validate(c), Discernible(c), NEW ss, Chain(c, ss), NEW q \in JointSet(ss)
  PROVE  Smooth(c, q)
<1>. DEFINE four == {RiseSeg(c), OuterSeg(c), ReturnSeg(c), InnerSeg(c)}
<1>l. Len(ss) \in 2 .. 4 /\ 1 \in 1 .. Len(ss) /\ Len(ss) \in 1 .. Len(ss)
  BY DEF Chain
<1>s. \A i \in 1 .. Len(ss) : ss[i] \in four /\ SegmentOK(c, ss[i])
  BY DEF Chain
<1>. HIDE DEF four
<1>1. CASE q \in Boundaries(ss)
  <2>1. PICK i \in 1 .. Len(ss) - 1 : q = BoundaryJoint(ss, i)
    BY <1>1 DEF Boundaries
  <2>2. i \in 1 .. Len(ss) /\ i + 1 \in 1 .. Len(ss)
    BY <1>l
  <2>3. Follows(ss[i].kind, ss[i + 1].kind)
    BY DEF Chain
  <2>. QED
    BY <1>s, <2>1, <2>2, <2>3, SmoothNeighbours DEF BoundaryJoint, four
<1>2. CASE q \in Switches(ss)
  <2>1. PICK i \in 1 .. Len(ss) : ss[i].law = "parabolic" /\ q = switchJoint(ss[i])
    BY <1>2 DEF Switches
  <2>2. ss[i].kind \notin {"outer_dwell", "inner_dwell"}
    BY <1>s, <2>1 DEF SegmentOK, FieldsOK, Parts
  <2>3. q.leftSegment = ss[i].kind /\ q.rightSegment = ss[i].kind
    BY <2>1 DEF switchJoint, Joint
  <2>. QED
    BY <2>2, <2>3 DEF Smooth
<1>3. CASE q = cyclicJoint(ss)
  <2>. DEFINE l == ss[Len(ss)]
              r == ss[1]
  <2>1. /\ SegmentOK(c, l) /\ l.kind \in {"return", "inner_dwell"} /\ l \in four
        /\ SegmentOK(c, r) /\ r.start = 0 /\ r.kind = "rise" /\ r \in four
    BY <1>l, <1>s DEF Chain
  <2>2. q = Joint(l, r, Join(FullTurn, "cyclic", sideMotion(l, FullTurn, 1), sideMotion(r, 0, -1)))
    BY <1>3 DEF cyclicJoint, Last
  <2>. HIDE DEF l, r
  <2>3. CASE isDwell(l)
    BY <2>1, <2>2, <2>3, SmoothAfterDwell DEF four
  <2>4. CASE ~isDwell(l)
    <3>1. q.leftSegment = l.kind /\ q.rightSegment = r.kind
      BY <2>2 DEF Joint
    <3>. QED
      BY <2>1, <2>4, <3>1 DEF Smooth, isDwell
  <2>. QED
    BY <2>3, <2>4
<1>. QED
  BY <1>1, <1>2, <1>3 DEF JointSet

\* Where a motion meets a dwell, the cyclic joint included, the velocity is
\* continuous, the acceleration only for a cycloid and the jerk for the other
\* two, wherever sums are exact, the float errors of the law's end are below the
\* absolute floor and the peaks are resolved, whatever the angles make together.
\* (The run seam_floor shows that the hypothesis on the errors cannot be dropped.)
THEOREM DwellSmoothnessEver ==
  ASSUME ExactSums
  PROVE  Spec => [](Discernible(cfg) => DwellSmoothness)
<1>1. Progress => (Discernible(cfg) => DwellSmoothness)
  <2>. SUFFICES ASSUME Progress, Discernible(cfg), phase = "checked",
                       NEW k \in DOMAIN joints
                PROVE  Smooth(cfg, joints[k])
    BY DEF DwellSmoothness, Smooth
  <2>1. /\ cfg \in Configs /\ Validate(cfg) /\ Chain(cfg, segs)
        /\ joints \in Seq(JointSet(segs))
    BY CheckedChain
  <2>2. joints[k] \in JointSet(segs)
    BY <2>1
  <2>. QED
    BY <2>1, <2>2, JointsSmooth
<1>. QED
  BY <1>1, ProgressInvariant, PTL

-----------------------------------------------------------------------------
(* The displacement of a sample. *)

\* There is a first segment among those that pass a test.
LEMMA FirstExists ==
  ASSUME NEW n \in 2 .. 4, NEW D, \E i \in 1 .. n : i \in D
  PROVE  \E i \in 1 .. n : i \in D /\ \A k \in 1 .. i - 1 : k \notin D
<1>1. CASE 1 \in D
  <2>1. 1 \in 1 .. n /\ \A k \in 1 .. 1 - 1 : k \notin D
    OBVIOUS
  <2>. QED
    BY <1>1, <2>1
<1>2. CASE 1 \notin D /\ 2 \in D
  <2>1. 2 \in 1 .. n /\ \A k \in 1 .. 2 - 1 : k \notin D
    BY <1>2
  <2>. QED
    BY <1>2, <2>1
<1>3. CASE 1 \notin D /\ 2 \notin D /\ 3 \in D
  <2>1. 3 \in 1 .. n
    BY <1>3
  <2>2. \A k \in 1 .. 3 - 1 : k \notin D
    BY <1>3
  <2>. QED
    BY <1>3, <2>1, <2>2
<1>4. CASE 1 \notin D /\ 2 \notin D /\ 3 \notin D
  <2>1. 4 \in 1 .. n /\ 4 \in D
    BY <1>4
  <2>2. \A k \in 1 .. 4 - 1 : k \notin D
    BY <1>4
  <2>. QED
    BY <2>1, <2>2
<1>. QED
  BY <1>1, <1>2, <1>3, <1>4

\* locate gives a segment that contains the angle.
LEMMA LocateContains ==
  ASSUME NEW c, NEW ss, Tiles(c, ss), NEW theta \in Nat, theta <= FullTurn
  PROVE  \E i \in 1 .. Len(ss) :
           locate(ss, theta) = ss[i] /\ ss[i].start <= theta /\ theta <= ss[i].end
<1>. DEFINE n == Len(ss)
            s(k) == ss[k].start
            e(k) == ss[k].end
            dwells(sg) == isDwell(sg) /\ theta >= sg.start /\ theta <= sg.end
            around(sg) == theta >= sg.start /\ theta < sg.end
            firstD(k) == dwells(ss[k]) /\ \A m \in 1 .. k - 1 : ~dwells(ss[m])
            firstA(k) == around(ss[k]) /\ \A m \in 1 .. k - 1 : ~around(ss[m])
            here(i) == locate(ss, theta) = ss[i] /\ s(i) <= theta /\ theta <= e(i)
<1>0. DOMAIN ss = 1 .. n /\ n \in 2 .. 4
  BY DEF Tiles, Chain
<1>1. locate(ss, theta) =
        IF theta >= FullTurn THEN Last(ss)
        ELSE IF \E k \in DOMAIN ss : dwells(ss[k]) THEN ss[CHOOSE k \in DOMAIN ss : firstD(k)]
        ELSE IF \E k \in DOMAIN ss : around(ss[k]) THEN ss[CHOOSE k \in DOMAIN ss : firstA(k)]
        ELSE Last(ss)
  BY Zenon DEF locate, FirstIn
<1>2. \A k \in 1 .. n : s(k) \in Nat /\ e(k) \in Nat /\ s(k) < e(k)
  BY DEF Tiles, Chain, SegmentOK, FieldsOK, Parts
<1>3. s(1) = 0 /\ e(n) = FullTurn /\ Last(ss) = ss[n] /\ \A k \in 1 .. n - 1 : e(k) = s(k + 1)
  BY DEF Tiles, Chain, Last
<1>4. FullTurn \in Nat
  BY KinematicsAssumption
<1>5. \A k \in 1 .. n : dwells(ss[k]) \/ around(ss[k]) => s(k) <= theta /\ theta <= e(k)
  BY <1>2
<1>6. theta < FullTurn => \E k \in DOMAIN ss : around(ss[k])
  <2>1. \A k \in 1 .. n : around(ss[k]) <=> s(k) <= theta /\ theta < e(k)
    BY <1>2
  <2>. HIDE DEF around, s, e, n
  <2>2. /\ e(1) = s(2) /\ (n >= 3 => e(2) = s(3)) /\ (n >= 4 => e(3) = s(4))
        /\ s(1) \in Nat /\ s(2) \in Nat /\ (n >= 3 => s(3) \in Nat) /\ (n >= 4 => s(4) \in Nat)
    BY <1>0, <1>2, <1>3
  <2>3. theta < FullTurn => \E k \in 1 .. n : s(k) <= theta /\ theta < e(k)
    <3>. SUFFICES ASSUME theta < FullTurn
                  PROVE  \E k \in 1 .. n : s(k) <= theta /\ theta < e(k)
      OBVIOUS
    <3>1. CASE theta < s(2)
      BY <1>0, <1>3, <2>2, <3>1
    <3>2. CASE n = 2 /\ s(2) <= theta
      BY <1>3, <3>2
    <3>3. CASE n >= 3 /\ s(2) <= theta /\ theta < s(3)
      BY <1>0, <2>2, <3>3
    <3>4. CASE n = 3 /\ s(3) <= theta
      BY <1>3, <3>4
    <3>5. CASE n = 4 /\ s(3) <= theta /\ theta < s(4)
      BY <2>2, <3>5
    <3>6. CASE n = 4 /\ s(4) <= theta
      BY <1>3, <3>6
    <3>. QED
      BY <1>0, <2>2, <3>1, <3>2, <3>3, <3>4, <3>5, <3>6
  <2>. QED
    BY <1>0, <2>1, <2>3
<1>. HIDE DEF n, s, e, dwells, around
<1>7. ASSUME theta < FullTurn, \E k \in DOMAIN ss : dwells(ss[k])
      PROVE  \E i \in 1 .. n : here(i)
  <2>. DEFINE D == {k \in 1 .. n : dwells(ss[k])}
              ch == CHOOSE k \in DOMAIN ss : firstD(k)
  <2>1. \E k \in 1 .. n : k \in D
    BY <1>0, <1>7
  <2>2. \E k \in 1 .. n : k \in D /\ \A m \in 1 .. k - 1 : m \notin D
    <3>. HIDE DEF D
    <3>. QED
      BY <1>0, <2>1, FirstExists
  <2>3. \E k \in DOMAIN ss : firstD(k)
    BY <1>0, <2>2
  <2>4. ch \in DOMAIN ss /\ dwells(ss[ch])
    BY <2>3
  <2>5. locate(ss, theta) = ss[ch]
    <3>1. ~(theta >= FullTurn)
      BY <1>4, <1>7
    <3>. QED
      BY <1>1, <1>7, <3>1, Zenon
  <2>. HIDE DEF ch
  <2>. QED
    BY <1>0, <1>5, <2>4, <2>5
<1>8. ASSUME theta < FullTurn, ~\E k \in DOMAIN ss : dwells(ss[k])
      PROVE  \E i \in 1 .. n : here(i)
  <2>. DEFINE D == {k \in 1 .. n : around(ss[k])}
              ch == CHOOSE k \in DOMAIN ss : firstA(k)
  <2>1. \E k \in 1 .. n : k \in D
    BY <1>0, <1>6, <1>8
  <2>2. \E k \in 1 .. n : k \in D /\ \A m \in 1 .. k - 1 : m \notin D
    <3>. HIDE DEF D
    <3>. QED
      BY <1>0, <2>1, FirstExists
  <2>3. \E k \in DOMAIN ss : firstA(k)
    BY <1>0, <2>2
  <2>4. ch \in DOMAIN ss /\ around(ss[ch])
    BY <2>3
  <2>5. locate(ss, theta) = ss[ch]
    <3>1. ~(theta >= FullTurn) /\ \E k \in DOMAIN ss : around(ss[k])
      BY <1>4, <1>6, <1>8
    <3>. QED
      BY <1>1, <1>8, <3>1, Zenon
  <2>. HIDE DEF ch
  <2>. QED
    BY <1>0, <1>5, <2>4, <2>5
<1>9. CASE theta = FullTurn
  <2>1. theta >= FullTurn
    BY <1>4, <1>9
  <2>2. locate(ss, theta) = ss[n] /\ n \in 1 .. n
    BY <1>0, <1>1, <1>3, <2>1
  <2>3. s(n) <= theta /\ theta <= e(n)
    BY <1>2, <1>3, <1>9, <2>2
  <2>4. here(n)
    BY <2>2, <2>3
  <2>. HIDE DEF here
  <2>. QED
    BY <2>2, <2>4 DEF here, n, s, e
<1>10. theta < FullTurn \/ theta = FullTurn
  BY <1>4
<1>. QED
  BY <1>7, <1>8, <1>9, <1>10 DEF n, s, e

\* The displacement of a motion at an angle within it.
LEMMA MovingLevel ==
  ASSUME ExactSums, NEW c, NEW sg, SegmentOK(c, sg), ~isDwell(sg),
         NEW theta \in Nat, sg.start <= theta, theta <= sg.end
  PROVE  LET y == EvalSide(sg.law, [n |-> theta - sg.start, d |-> sg.beta], 0).y
         IN  sideMotion(sg, theta, 0).s = IF sg.kind = "return" THEN c.h * Unit - c.h * y ELSE c.h * y
<1>. DEFINE x == theta - sg.start
            w == EvalSide(sg.law, [n |-> x, d |-> sg.beta], 0)
            ret == sg.kind = "return"
<1>1. sg.start \in Nat /\ sg.end <= 4 * FullTurn /\ sg.end \in Nat /\ sg.spec.h = c.h
  BY DEF SegmentOK, FieldsOK, Parts
<1>2. x \in 0 .. 4 * FullTurn
  BY <1>1, KinematicsAssumption
<1>3. fl(x) = x /\ (theta > sg.start \/ x = 0)
  BY <1>1, <1>2 DEF ExactSums
<1>4. (IF theta > sg.start THEN fl(theta - sg.start) ELSE 0) = x
  BY <1>1, <1>3
<1>5. sideMotion(sg, theta, 0) = restore(w, sg.spec, theta, sg.start, ret)
  BY <1>4, MovingIs DEF SegmentOK
<1>6. ret \in BOOLEAN
  OBVIOUS
<1>. HIDE DEF w, ret
<1>7. sideMotion(sg, theta, 0).s = IF ret THEN c.h * Unit - c.h * w.y ELSE c.h * w.y
  BY <1>1, <1>5, <1>6, RestoreFields
<1>. QED
  BY <1>7 DEF w, ret

\* A sample has the displacement that the four angles prescribe.
LEMMA OnProfile ==
  ASSUME ExactSums, NEW c \in Configs, Validate(c), Total(c) = FullTurn,
         NEW theta \in Nat, theta <= FullTurn,
         theta - (c.rise + c.outer) \in 0 .. c.return =>
           (HalfTurn * (theta - (c.rise + c.outer))) % c.return = 0,
         NEW sg \in {RiseSeg(c), OuterSeg(c), ReturnSeg(c), InnerSeg(c)},
         SegmentOK(c, sg), sg.start <= theta, theta <= sg.end
  PROVE  Abs(sideMotion(sg, theta, 0).s - Profile(c, theta)) <= c.h
<1>. DEFINE o1 == c.rise
            o2 == c.rise + c.outer
            o3 == c.rise + c.outer + c.return
            y(l, x, b) == EvalSide(l, [n |-> x, d |-> b], 0).y
            s == sideMotion(sg, theta, 0).s
            pr == Profile(c, theta)
<1>1. /\ c.rise \in Nat /\ c.rise > 0 /\ c.return \in Nat /\ c.return > 0 /\ c.outer \in Nat /\ c.inner \in Nat
      /\ c.riseLaw \in Laws /\ c.returnLaw \in Laws /\ c.h \in Int /\ c.h > 0
  BY ValidAngles
<1>2. /\ o3 + c.inner = FullTurn
      /\ RiseSeg(c).start = 0 /\ RiseSeg(c).end = o1
      /\ OuterSeg(c).start = o1 /\ OuterSeg(c).end = o2
      /\ ReturnSeg(c).start = o2 /\ ReturnSeg(c).end = o3
      /\ InnerSeg(c).start = o3 /\ InnerSeg(c).end = FullTurn
  BY Layout DEF AngleSum
<1>3. pr = IF theta <= o1 THEN c.h * y(c.riseLaw, theta, c.rise)
           ELSE IF theta <= o2 THEN c.h * Unit ELSE c.h * y(c.returnLaw, o3 - theta, c.return)
  BY Zenon DEF Profile
<1>4. /\ RiseSeg(c).kind = "rise" /\ OuterSeg(c).kind = "outer_dwell"
      /\ ReturnSeg(c).kind = "return" /\ InnerSeg(c).kind = "inner_dwell"
  BY SegmentsParts
<1>5. \A l \in Laws, x \in Int, b \in Int : b > 0 =>
        /\ y(l, x, b) \in Int /\ (x <= 0 => y(l, x, b) = 0) /\ (x >= b => y(l, x, b) = Unit)
  <2>. TAKE l \in Laws, x \in Int, b \in Int
  <2>. HAVE b > 0
  <2>1. y(l, x, b) \in Int
    BY EvalInt
  <2>2. x <= 0 => y(l, x, b) = 0
    BY EvalBefore
  <2>3. x >= b => y(l, x, b) = Unit
    BY EvalEnd
  <2>. QED
    BY <2>1, <2>2, <2>3
<1>6. sg.kind \in {"rise", "return"} =>
        s = IF sg.kind = "return" THEN c.h * Unit - c.h * y(sg.law, theta - sg.start, sg.beta)
            ELSE c.h * y(sg.law, theta - sg.start, sg.beta)
  <2>. SUFFICES ASSUME sg.kind \in {"rise", "return"}
                PROVE  s = IF sg.kind = "return" THEN c.h * Unit - c.h * y(sg.law, theta - sg.start, sg.beta)
                           ELSE c.h * y(sg.law, theta - sg.start, sg.beta)
    OBVIOUS
  <2>1. ~isDwell(sg)
    BY DEF isDwell
  <2>. QED
    BY <2>1, MovingLevel
<1>7. /\ sg.kind = "outer_dwell" => s = c.h * Unit
      /\ sg.kind = "inner_dwell" => s = 0
  BY DwellLevel DEF isDwell, StartLevel, SegmentOK
<1>8. /\ sg.kind = "rise" => sg.law = c.riseLaw /\ sg.beta = c.rise
      /\ sg.kind = "return" => sg.law = c.returnLaw /\ sg.beta = c.return
  <2>1. sg.spec.beta = sg.beta
    BY DEF SegmentOK, FieldsOK, Parts
  <2>2. \A l, b : MotionSpec(l, c.h, b, c.omega).beta = b
    BY DEF MotionSpec
  <2>. QED
    BY <2>1, <2>2, MovingSegs
<1>9. ASSUME NEW l \in Laws, NEW b \in Int, b > 0, NEW x \in 0 .. b, (HalfTurn * x) % b = 0
      PROVE  y(l, b - x, b) \in {Unit - y(l, x, b) - 1, Unit - y(l, x, b), Unit - y(l, x, b) + 1}
  BY <1>9, EvalMirror
<1>. HIDE DEF y, s, pr
<1>z. \A z \in Int : Abs(z - z) <= c.h
  BY <1>1 DEF Abs
<1>10. CASE sg = RiseSeg(c)
  <2>1. theta - sg.start = theta /\ theta <= o1
    BY <1>2, <1>10
  <2>2. s = c.h * y(c.riseLaw, theta, c.rise) /\ pr = c.h * y(c.riseLaw, theta, c.rise)
    BY <1>3, <1>4, <1>6, <1>8, <1>10, <2>1
  <2>3. pr \in Int /\ s = pr
    BY <1>1, <1>5, <2>2
  <2>. QED
    BY <1>z, <2>3 DEF s, pr
<1>11. CASE sg = OuterSeg(c)
  <2>1. o1 <= theta /\ theta <= o2
    BY <1>2, <1>11
  <2>2. s = c.h * Unit
    BY <1>4, <1>7, <1>11
  <2>3. pr = c.h * Unit
    BY <1>1, <1>3, <1>5, <2>1
  <2>4. pr \in Int /\ s = pr
    BY <1>1, <2>2, <2>3 DEF Unit
  <2>. QED
    BY <1>z, <2>4 DEF s, pr
<1>12. CASE sg = ReturnSeg(c)
  <2>. DEFINE x == theta - o2
              u == y(c.returnLaw, x, c.return)
              v == y(c.returnLaw, c.return - x, c.return)
  <2>1. o2 <= theta /\ theta <= o3 /\ x \in 0 .. c.return /\ o3 - theta = c.return - x /\ x \in Int
    BY <1>1, <1>2, <1>12
  <2>2. s = c.h * 1000 - c.h * u
    BY <1>2, <1>4, <1>6, <1>8, <1>12 DEF Unit
  <2>3. u \in Int
    BY <1>1, <1>5, <2>1
  <2>4. CASE theta = o2
    <3>1. u = 0
      BY <1>1, <1>5, <2>1, <2>4
    <3>2. pr = c.h * 1000
      <4>1. theta >= c.rise /\ theta \in Int /\ c.rise \in Int /\ theta <= o2
        BY <1>1, <2>4
      <4>2. y(c.riseLaw, theta, c.rise) = Unit
        BY <1>1, <1>5, <4>1
      <4>. QED
        BY <1>3, <4>1, <4>2 DEF Unit
    <3>3. pr \in Int /\ s = pr
      BY <1>1, <2>2, <3>1, <3>2
    <3>. QED
      BY <1>z, <3>3 DEF s, pr
  <2>5. CASE theta # o2
    <3>1. ~(theta <= o1) /\ ~(theta <= o2)
      BY <1>1, <2>1, <2>5
    <3>2. pr = c.h * v
      BY <1>3, <2>1, <3>1
    <3>3. v \in {1000 - u - 1, 1000 - u, 1000 - u + 1}
      <4>1. (HalfTurn * x) % c.return = 0
        BY <2>1
      <4>2. c.return \in Int
        BY <1>1
      <4>. QED
        BY <1>1, <1>9, <2>1, <4>1, <4>2 DEF Unit
    <3>. HIDE DEF u, v
    <3>4. c.h * 1000 - c.h * u - c.h * v \in {c.h, 0, -c.h}
      BY <1>1, <2>3, <3>3
    <3>5. Abs(s - pr) <= c.h
      BY <1>1, <2>2, <3>2, <3>4 DEF Abs
    <3>. QED
      BY <3>5 DEF s, pr
  <2>. QED
    BY <2>4, <2>5
<1>13. CASE sg = InnerSeg(c)
  <2>1. o3 <= theta /\ ~(theta <= o1) /\ ~(theta <= o2) /\ o3 - theta <= 0 /\ o3 - theta \in Int
    BY <1>1, <1>2, <1>13
  <2>2. s = 0
    BY <1>4, <1>7, <1>13
  <2>3. pr = c.h * 0
    BY <1>1, <1>3, <1>5, <2>1
  <2>4. pr \in Int /\ s = pr
    BY <1>1, <2>2, <2>3
  <2>. QED
    BY <1>z, <2>4 DEF s, pr
<1>. QED
  BY <1>10, <1>11, <1>12, <1>13

\* Every sample has the displacement the four angles prescribe there, whichever
\* dwells Build leaves out and whichever segment locate chooses, where the angles
\* close exactly and the grid meets the table.
THEOREM CurveIsProfileEver ==
  ASSUME ExactSums
  PROVE  Spec => [](Total(cfg) = FullTurn /\ OnTable(cfg, points) => CurveIsProfile)
<1>1. Progress => (Total(cfg) = FullTurn /\ OnTable(cfg, points) => CurveIsProfile)
  <2>. SUFFICES ASSUME Progress, Total(cfg) = FullTurn, OnTable(cfg, points), phase = "checked",
                       NEW i \in DOMAIN curve
                PROVE  Abs(curve[i].motion.s - Profile(cfg, curve[i].motion.theta)) <= cfg.h
    BY DEF CurveIsProfile
  <2>. DEFINE theta == (FullTurn * (i - 1)) \div (points - 1)
              sg == locate(segs, theta)
  <2>1. /\ cfg \in Configs /\ Validate(cfg) /\ Tiles(cfg, segs)
        /\ curve = SegmentsCurve(segs, points) /\ points \in Nat
    BY CheckedChain DEF Tiles
  <2>2. points > 1
    BY <2>1, KinematicsAssumption DEF Progress
  <2>3. i \in 1 .. points /\ curve[i] = SampleAt(segs, theta)
    BY <2>1, CurveIs
  <2>4. theta \in Nat /\ theta <= FullTurn
    <3>. DEFINE a == FullTurn * (i - 1)
                b == points - 1
    <3>1. b \in Int /\ b > 0 /\ a \in Int /\ FullTurn \in Nat
      BY <2>1, <2>2, <2>3, KinematicsAssumption
    <3>2. 0 <= a /\ a <= FullTurn * b
      <4>1. i - 1 \in Nat /\ i - 1 <= b
        BY <2>1, <2>3
      <4>. HIDE DEF b
      <4>. QED
        BY <3>1, <4>1
    <3>3. FullTurn * b \in Int /\ (FullTurn * b) \div b = FullTurn /\ 0 \div b = 0
      BY <3>1, DivExact
    <3>. HIDE DEF a, b
    <3>4. 0 <= a \div b /\ a \div b <= FullTurn /\ a \div b \in Int
      BY <3>1, <3>2, <3>3, DivMonotone
    <3>. QED
      BY <3>4 DEF a, b
  <2>5. theta - (cfg.rise + cfg.outer) \in 0 .. cfg.return =>
          (HalfTurn * (theta - (cfg.rise + cfg.outer))) % cfg.return = 0
    BY <2>3 DEF OnTable
  <2>. HIDE DEF theta
  <2>6. PICK k \in 1 .. Len(segs) : sg = segs[k] /\ segs[k].start <= theta /\ theta <= segs[k].end
    BY <2>1, <2>4, LocateContains
  <2>7. SegmentOK(cfg, sg) /\ sg \in {RiseSeg(cfg), OuterSeg(cfg), ReturnSeg(cfg), InnerSeg(cfg)}
    BY <2>1, <2>6 DEF Tiles, Chain
  <2>8. curve[i].motion = sideMotion(sg, theta, 0) /\ curve[i].motion.theta = theta
    BY <2>3, SampleAngle DEF SampleAt
  <2>. HIDE DEF sg
  <2>9. Abs(sideMotion(sg, theta, 0).s - Profile(cfg, theta)) <= cfg.h
    BY <2>1, <2>4, <2>5, <2>6, <2>7, OnProfile
  <2>. QED
    BY <2>8, <2>9
<1>. QED
  BY <1>1, ProgressInvariant, PTL

-----------------------------------------------------------------------------
(* The closing of the curve. *)

\* The first sample is the start of the rise and the last one the end of the
\* last segment, dwell or not.
LEMMA LocateEnds ==
  ASSUME NEW c, NEW ss, Rows(c, ss)
  PROVE  locate(ss, 0) = ss[1] /\ locate(ss, FullTurn) = Last(ss)
<1>. DEFINE n == Len(ss)
            dwells(sg) == isDwell(sg) /\ 0 >= sg.start /\ 0 <= sg.end
            around(sg) == 0 >= sg.start /\ 0 < sg.end
            firstA(k) == around(ss[k]) /\ \A m \in 1 .. k - 1 : ~around(ss[m])
<1>0. DOMAIN ss = 1 .. n /\ n \in Nat /\ 1 \in 1 .. n /\ FullTurn \in Nat /\ FullTurn > 0
  BY KinematicsAssumption DEF Rows
<1>1. locate(ss, 0) =
        IF 0 >= FullTurn THEN Last(ss)
        ELSE IF \E k \in DOMAIN ss : dwells(ss[k]) THEN FirstIn(ss, dwells)
        ELSE IF \E k \in DOMAIN ss : around(ss[k]) THEN ss[CHOOSE k \in DOMAIN ss : firstA(k)]
        ELSE Last(ss)
  BY Zenon DEF locate, FirstIn
<1>2. \A k \in 1 .. n : ss[k].start \in Nat /\ ss[k].end \in Nat /\ ss[k].start < ss[k].end
  BY DEF Rows, FieldsOK, Parts
<1>3. ss[1].start = 0 /\ ~isDwell(ss[1])
  BY DEF Rows, isDwell
<1>4. \A k \in 1 .. n : k # 1 => ss[1].end <= ss[k].start
  BY <1>0, RowsOrder
<1>5. \A k \in 1 .. n : ~dwells(ss[k]) /\ (around(ss[k]) <=> k = 1)
  BY <1>0, <1>2, <1>3, <1>4
<1>. HIDE DEF n, dwells, around
<1>6. \A k \in 1 .. n : firstA(k) <=> k = 1
  BY <1>0, <1>5
<1>7. (CHOOSE k \in DOMAIN ss : firstA(k)) = 1
  BY <1>0, <1>6
<1>8. /\ ~(0 >= FullTurn) /\ ~\E k \in DOMAIN ss : dwells(ss[k])
      /\ \E k \in DOMAIN ss : around(ss[k])
  BY <1>0, <1>5
<1>9. locate(ss, 0) = ss[CHOOSE k \in DOMAIN ss : firstA(k)]
  BY <1>1, <1>8, Zenon
<1>10. locate(ss, 0) = ss[1]
  BY <1>7, <1>9, Zenon
<1>11. locate(ss, FullTurn) = Last(ss)
  <2>1. FullTurn >= FullTurn
    BY <1>0
  <2>. QED
    BY <2>1, Zenon DEF locate
<1>. QED
  BY <1>10, <1>11

\* At the full turn the last segment has one motion, whichever side is asked for.
LEMMA EndSides ==
  ASSUME NEW c, NEW ss, Rows(c, ss), NEW side \in Int
  PROVE  sideMotion(Last(ss), FullTurn, side) = sideMotion(Last(ss), FullTurn, 0)
<1>. DEFINE z == Last(ss)
            x == IF FullTurn > z.start THEN fl(FullTurn - z.start) ELSE 0
<1>0. FieldsOK(c, z)
  BY DEF Rows, Last
<1>1. CASE isDwell(z)
  BY <1>0, <1>1, DwellLevel
<1>2. CASE ~isDwell(z)
  <2>1. z.law \in Laws /\ z.beta \in Nat /\ z.beta > 0 /\ z.start \in Nat
    BY <1>0, <1>2 DEF FieldsOK, Parts, isDwell, Kinds
  <2>2. 2 * fl(FullTurn - z.start) # z.beta /\ z.start < FullTurn
    BY <1>2, LastStarts DEF Rows, Last
  <2>3. FullTurn > z.start /\ FullTurn - z.start \in Nat /\ FullTurn - z.start < 8 * FullTurn
    BY <2>1, <2>2, KinematicsAssumption
  <2>4. x \in Int /\ 2 * x # z.beta
    BY <2>2, <2>3, SmallSums
  <2>5. \A k \in Int : sideMotion(z, FullTurn, k) =
          restore(EvalSide(z.law, [n |-> x, d |-> z.beta], k), z.spec, FullTurn, z.start, z.kind = "return")
    BY <1>0, <1>2, MovingIs
  <2>. HIDE DEF z, x
  <2>6. EvalSide(z.law, [n |-> x, d |-> z.beta], side) = EvalSide(z.law, [n |-> x, d |-> z.beta], 0)
    BY <2>1, <2>4, EvalSides
  <2>7. 0 \in Int
    OBVIOUS
  <2>. QED
    BY <2>5, <2>6, <2>7, Zenon DEF z
<1>. QED
  BY <1>1, <1>2

\* The cyclic joint comes last.
LEMMA CyclicIsLast ==
  ASSUME NEW S, NEW ss \in Seq(S), Len(ss) \in 2 .. 4
  PROVE  Last(Discontinuities(ss)) = cyclicJoint(ss)
<1>. DEFINE J == JointSet(ss)
            a == boundaryJoints(ss) \o switchJoints(ss)
            cy == cyclicJoint(ss)
<1>1. a \in Seq(J)
  BY JointParts
<1>2. cy \in J
  BY DEF JointSet
<1>3. Discontinuities(ss) = a \o <<cy>>
  BY DEF Discontinuities
<1>. HIDE DEF a, cy, J
<1>4. Len(a) \in Nat /\ Len(a \o <<cy>>) = Len(a) + 1 /\ (a \o <<cy>>)[Len(a) + 1] = cy
  BY <1>1, <1>2
<1>. QED
  BY <1>3, <1>4 DEF Last, cy

\* What CurveCloses says, of the segments.
LEMMA Closes ==
  ASSUME NEW c, c.h \in Int, NEW ss, Rows(c, ss), NEW n \in Nat, n >= 2
  PROVE  LET q == Last(Discontinuities(ss)).seam
             left == Last(SegmentsCurve(ss, n)).motion
             right == SegmentsCurve(ss, n)[1].motion
         IN  /\ q = Join(FullTurn, "cyclic", left, right)
             /\ left.theta = FullTurn
<1>. DEFINE C == SegmentsCurve(ss, n)
            z == Last(ss)
            left == sideMotion(z, FullTurn, 0)
            right == sideMotion(ss[1], 0, 0)
<1>1. FullTurn \in Nat /\ FullTurn > 0
  BY KinematicsAssumption
<1>2. Len(C) = n /\ \A i \in 1 .. n : C[i] = SampleAt(ss, (FullTurn * (i - 1)) \div (n - 1))
  BY CurveIs
<1>3. (FullTurn * (1 - 1)) \div (n - 1) = 0 /\ (FullTurn * (n - 1)) \div (n - 1) = FullTurn
  <2>1. n - 1 \in Int /\ n - 1 > 0
    OBVIOUS
  <2>2. \A m \in Int : m > 0 => (FullTurn * (1 - 1)) \div m = 0
    BY <1>1
  <2>3. \A m \in Int : m > 0 => (FullTurn * m) \div m = FullTurn
    BY <1>1, DivExact
  <2>. QED
    BY <2>1, <2>2, <2>3
<1>4. \A theta : SampleAt(ss, theta).motion = sideMotion(locate(ss, theta), theta, 0)
  BY DEF SampleAt
<1>5. Last(C).motion = left /\ C[1].motion = right
  <2>1. 1 \in 1 .. n /\ n \in 1 .. n
    OBVIOUS
  <2>2. C[1] = SampleAt(ss, 0) /\ C[n] = SampleAt(ss, FullTurn)
    BY <1>2, <1>3, <2>1
  <2>3. Last(C) = C[n]
    BY <1>2 DEF Last
  <2>. HIDE DEF C
  <2>. QED
    BY <1>4, <2>2, <2>3, LocateEnds
<1>6. FieldsOK(c, ss[1]) /\ ss[1].start = 0
  BY DEF Rows
<1>7. sideMotion(z, FullTurn, 1) = left
  BY EndSides
<1>8. sideMotion(ss[1], 0, -1) = right
  BY <1>6, StartOf
<1>9. Last(Discontinuities(ss)) = cyclicJoint(ss)
  BY CyclicIsLast DEF Rows
<1>10. cyclicJoint(ss).seam = Join(FullTurn, "cyclic", sideMotion(z, FullTurn, 1), sideMotion(ss[1], 0, -1))
  BY DEF cyclicJoint, Joint
<1>11. left.theta = FullTurn
  BY SampleAngle
<1>. HIDE DEF left, right, C, z
<1>12. Last(Discontinuities(ss)).seam = Join(FullTurn, "cyclic", Last(C).motion, C[1].motion)
  BY <1>5, <1>7, <1>8, <1>9, <1>10, Zenon
<1>. QED
  BY <1>5, <1>11, <1>12, Zenon DEF C

\* The first and the last sample are the two sides of the cyclic joint: the
\* response never shows a curve that fails to close without saying so, for any
\* laws and grid and for any angles that are not tiny, rounded or not.
THEOREM CurveClosesEver == Spec => [](Regular(cfg) => CurveCloses)
<1>1. Progress => (Regular(cfg) => CurveCloses)
  <2>. SUFFICES ASSUME Progress, Regular(cfg), phase = "checked"
                PROVE  CurveCloses
    BY DEF CurveCloses
  <2>. DEFINE q == Last(joints).seam
              left == Last(curve).motion
              right == curve[1].motion
  <2>1. /\ Rows(cfg, segs) /\ cfg.h \in Int /\ joints = Discontinuities(segs)
        /\ curve = SegmentsCurve(segs, points) /\ points \in Nat
    BY CheckedRows
  <2>2. points >= 2
    BY <2>1, KinematicsAssumption DEF Progress
  <2>3. q = Join(FullTurn, "cyclic", left, right) /\ left.theta = FullTurn
    BY <2>1, <2>2, Closes
  <2>. HIDE DEF q, left, right
  <2>4. /\ q.kind = "cyclic" /\ q.theta = left.theta /\ q.left = left /\ q.right = right
        /\ q.sCont => left.s = right.s
        /\ q.vCont => left.v = right.v
        /\ q.aCont => left.a = right.a
    BY <2>3 DEF Join, approxEqual
  <2>5. \A o \in Orders : left[o.of] # right[o.of] => ~q[o.cont]
    BY <2>4 DEF Orders
  <2>. QED
    BY <2>4, <2>5 DEF CurveCloses, q, left, right
<1>. QED
  BY <1>1, ProgressInvariant, PTL
=============================================================================
