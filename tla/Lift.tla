--------------------------------- MODULE Lift ---------------------------------
(***************************************************************************)
(* serveLift: the curve of one rise, its closed-form peaks and its         *)
(* internal seams.                                                         *)
(***************************************************************************)
EXTENDS Kinematics, Sequences

VARIABLES
  spec,     \* the kinematics.Spec of the request
  grid,     \* its number of points
  stage,    \* "idle", "asked", "curve", "done" or "refused" (400)
  samples,  \* the points of the response
  peaks,    \* closed_form_peaks
  seams     \* internal_seams

NoSpec == MotionSpec("", 0, 0, 0)

NoPeaks == [v |-> 0, a |-> 0, j |-> 0]

liftVars == <<spec, grid, stage, samples, peaks, seams>>

LiftInit ==
  /\ spec = NoSpec /\ grid = 0 /\ stage = "idle"
  /\ samples = <<>> /\ peaks = NoPeaks /\ seams = <<>>

\* liftCurvePOST: the request gives all of the specification and the grid.
Ask(sp, n) ==
  /\ stage = "idle"
  /\ spec' = sp /\ grid' = n
  /\ stage' = "asked"
  /\ UNCHANGED <<samples, peaks, seams>>

\* 400: Validate, the lower limit of the handler or the upper one of Curve.
RefuseLift ==
  /\ stage = "asked"
  /\ ~ValidSpec(spec) \/ grid < MinPoints \/ grid > MaxPoints
  /\ stage' = "refused"
  /\ UNCHANGED <<spec, grid, samples, peaks, seams>>

SampleLift ==
  /\ stage = "asked"
  /\ ValidSpec(spec) /\ grid \in MinPoints .. MaxPoints
  /\ stage' = "curve"
  /\ samples' = Curve(spec, grid)
  /\ peaks' = ClosedPeaks(spec)
  /\ UNCHANGED <<spec, grid, seams>>

CheckSeams ==
  /\ stage = "curve"
  /\ stage' = "done"
  /\ seams' = InternalSeams(spec, 0)
  /\ UNCHANGED <<spec, grid, samples, peaks>>

-----------------------------------------------------------------------------
(* Properties. *)

\* What the rounding of the tables adds to a difference of two samples.
Slack(k) == factor(spec, <<4, 4, 4>>)[k] + 2 * spec.h

\* Each column of the curve is the derivative of the one before it with respect
\* to the time column, as Curve scales the closed forms of EvalSide by the right
\* powers: by Taylor's theorem x(t + dt) is x(t) + x'(t) dt up to dt / 2 times
\* the most that x' can change by in dt. A cell that holds an internal seam is
\* left out where the seam breaks x'; j has no peak of its derivative, which is
\* at most 2 pi omega / beta times that of j.
DerivativesAgree ==
  stage = "done" =>
    \A i \in 1 .. grid - 1 :
      LET p == samples[i]
          q == samples[i + 1]
          dt == q.time - p.time
          broken == \E k \in DOMAIN seams : seams[k].theta \in p.theta .. q.theta
          times(x) == Quot(x * dt, spec.omega)
          taylor(dx, x1, dx1, k) == Abs(dx - times(x1)) <= times(dx1) \div 2 + Slack(k)
      IN  /\ taylor(q.s - p.s, p.v, times(peaks.a), 1)
          /\ broken \/ taylor(q.v - p.v, p.a, times(peaks.j), 1)
          /\ broken \/ taylor(q.a - p.a, p.j, 7 * Quot(peaks.j * dt, spec.beta), 2)

\* closed_form_peaks are the largest absolute values of the columns v, a and j:
\* they bound them, and a grid that holds the quarters of the segment, where
\* the laws have their extrema, attains them.
PeaksAreMaxima ==
  stage = "done" =>
    \A o \in {"v", "a", "j"} :
      /\ \A i \in DOMAIN samples : Abs(samples[i][o]) <= peaks[o]
      /\ grid % 4 = 1 => \E i \in DOMAIN samples : Abs(samples[i][o]) = peaks[o]
=============================================================================
