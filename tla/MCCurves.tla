------------------------------- MODULE MCCurves -------------------------------
(***************************************************************************)
(* Instances of Curves for TLC: every combination of laws and of four      *)
(* angles from a small set, legal or not.                                  *)
(***************************************************************************)
EXTENDS Curves

CONSTANTS Angles, LawNames, Speed, Stroke

\* Angles that miss the full turn by the tolerance, or by more.
Offsets == {-2 - Tolerance, -Tolerance, Tolerance, Tolerance + 2}

MCConfigs ==
  [riseLaw : LawNames, returnLaw : LawNames, h : {Stroke}, omega : {Speed},
   rise : Angles, outer : Angles, return : Angles, inner : Angles]
    \cup [riseLaw : LawNames, returnLaw : LawNames, h : {Stroke}, omega : {Speed},
          rise : {FullTurn \div 3, FullTurn \div 2}, outer : {0, FullTurn \div 6},
          return : {FullTurn \div 3}, inner : {FullTurn \div 6 + x : x \in Offsets}]
    \cup [riseLaw : {"cosine", "sine"}, returnLaw : {"cosine", "sine"}, h : {0, Stroke}, omega : {0, Speed},
          rise : {FullTurn \div 2}, outer : {0}, return : {FullTurn \div 2}, inner : {0}]

\* At a moderate stroke and speed the theorems about Cycle speak of every
\* configuration that is accepted.
ASSUME HypothesesMet ==
  ExactSums /\ Stroke <= 2 /\ Speed <= 360 =>
    \A c \in MCConfigs : Validate(c) =>
      /\ Closing(c) /\ Sizeable(c) /\ Resolved(c) /\ Discernible(c)
      /\ \A n \in PointCounts : n \in MinPoints .. MaxPoints => OnTable(c, n)

\* Some are accepted although their angles do not make a full turn.
ASSUME ToleranceMet ==
  ExactSums =>
    \A d \in {-Tolerance, Tolerance} : \E c \in MCConfigs : Validate(c) /\ Total(c) = FullTurn + d

\* Where sums are rounded, the theorems about regular angles speak of accepted
\* configurations whose segments do not end where their angles say.
ASSUME RoundedMet ==
  ~ExactSums =>
    \E c \in MCConfigs : /\ Validate(c) /\ Sizeable(c)
                         /\ Build(c)[2].end # Build(c)[2].start + Build(c)[2].beta
=============================================================================
