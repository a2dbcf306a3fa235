--------------------------------- MODULE Law ---------------------------------
(***************************************************************************)
(* internal/law: the closed forms of the three laws of motion, y(T) and    *)
(* its first three derivatives.                                            *)
(*                                                                         *)
(* A value is an integer, in thousandths (Unit). T is a fraction n/d, and  *)
(* the sine is tabulated every 2.5 degrees: exact where T is a multiple of *)
(* 1/72, rounded to the nearest entry elsewhere. Of the errors of float64  *)
(* the model keeps the one that is not lost in a comparison with 0: sin of *)
(* the float pi is not 0, and a derivative that vanishes at T = 1 comes    *)
(* out as the noise, in units of 1e-16.                                    *)
(***************************************************************************)
EXTENDS Integers

Laws == {"cosine", "cycloid", "parabolic"}

\* law.Known
Known(l) == l \in Laws

Abs(x) == IF x < 0 THEN -x ELSE x

Sgn(x) == IF x > 0 THEN 1 ELSE IF x < 0 THEN -1 ELSE 0

\* The quotient x / y, rounded towards 0.
Quot(x, y) == Sgn(x) * (Abs(x) \div y)

\* The quotient x * m / y, where x * m may not fit in 32 bits.
MulDiv(x, m, y) == Sgn(x) * ((Abs(x) \div y) * m + ((Abs(x) % y) * m) \div y)

-----------------------------------------------------------------------------
(* math.Sin and math.Cos. *)

Unit == 1000
Pi   == 3142
Pi2  == 9870    \* pi squared
Pi3  == 31006   \* pi cubed

\* A half turn in steps of 2.5 degrees, and the sines of a quarter turn.
HalfTurn == 72

Sines == <<0, 44, 87, 131, 174, 216, 259, 301, 342, 383, 423, 462, 500, 537, 574, 609, 643, 676, 707,
           737, 766, 793, 819, 843, 866, 887, 906, 924, 940, 954, 966, 976, 985, 991, 996, 999, 1000>>

Sin(p) ==
  LET q == p % HalfTurn
      up == IF 2 * q <= HalfTurn THEN q ELSE HalfTurn - q
  IN  IF p % (2 * HalfTurn) < HalfTurn THEN Sines[up + 1] ELSE -Sines[up + 1]

Cos(p) == Sin(p + HalfTurn \div 2)

\* m * T, to the nearest step.
Steps(m, T) == (2 * m * T.n + T.d) \div (2 * T.d)

-----------------------------------------------------------------------------
(* EvalSide. *)

Clamp(T) ==
  IF T.n <= 0 THEN [n |-> 0, d |-> 1] ELSE IF T.n >= T.d THEN [n |-> 1, d |-> 1] ELSE T

AtEnd(T) == T.n = T.d

evalCosine(T) ==
  LET p == Steps(HalfTurn, T)
  IN  [ y     |-> (Unit - Cos(p)) \div 2,
        y1    |-> Quot(Pi * Sin(p), 2 * Unit),
        y2    |-> Quot(Pi2 * Cos(p), 2 * Unit),
        y3    |-> -Quot(Pi3 * Sin(p), 2 * Unit),
        noise |-> IF AtEnd(T) THEN <<2, 0, -19>> ELSE <<0, 0, 0>> ]

\* Mutant: y'' loses the factor that the derivative of 2*pi*T brings.
evalCycloidUnchained(T) ==
  LET q == Steps(2 * HalfTurn, T)
  IN  [ y     |-> (Unit * T.n) \div T.d - Quot(Unit * Sin(q), 2 * Pi),
        y1    |-> Unit - Cos(q),
        y2    |-> Sin(q),
        y3    |-> Quot(4 * Pi2 * Cos(q), Unit),
        noise |-> IF AtEnd(T) THEN <<0, -15, 0>> ELSE <<0, 0, 0>> ]

evalCycloid(T) ==
  LET q == Steps(2 * HalfTurn, T)
  IN  [ y     |-> (Unit * T.n) \div T.d - Quot(Unit * Sin(q), 2 * Pi),
        y1    |-> Unit - Cos(q),
        y2    |-> Quot(2 * Pi * Sin(q), Unit),
        y3    |-> Quot(4 * Pi2 * Cos(q), Unit),
        noise |-> IF AtEnd(T) THEN <<0, -15, 0>> ELSE <<0, 0, 0>> ]

\* The two halves meet at T = 1/2, where side chooses between them and 0 takes
\* the first.
evalParabolic(T, side) ==
  LET first == 2 * T.n < T.d \/ (2 * T.n = T.d /\ side <= 0)
      k == IF first THEN T.n ELSE T.d - T.n
      y == (2 * Unit * k * k) \div (T.d * T.d)
  IN  [ y     |-> IF first THEN y ELSE Unit - y,
        y1    |-> (4 * Unit * k) \div T.d,
        y2    |-> IF first THEN 4 * Unit ELSE -4 * Unit,
        y3    |-> 0,
        noise |-> <<0, 0, 0>> ]

EvalSide(l, T, side) ==
  CASE l = "cosine"    -> evalCosine(Clamp(T))
    [] l = "cycloid"   -> evalCycloid(Clamp(T))
    [] l = "parabolic" -> evalParabolic(Clamp(T), side)

\* Mutant: the peak of y'' of the cycloid is that of the cosine law.
UnitPeaksMixed(l) ==
  CASE l = "cosine"    -> <<Pi \div 2, Pi2 \div 2, Pi3 \div 2>>
    [] l = "cycloid"   -> <<2 * Unit, Pi2 \div 2, 4 * Pi2>>
    [] l = "parabolic" -> <<2 * Unit, 4 * Unit, 0>>

\* law.ClosedPeaks: the largest |y'|, |y''| and |y'''|.
UnitPeaks(l) ==
  CASE l = "cosine"    -> <<Pi \div 2, Pi2 \div 2, Pi3 \div 2>>
    [] l = "cycloid"   -> <<2 * Unit, 2 * Pi, 4 * Pi2>>
    [] l = "parabolic" -> <<2 * Unit, 4 * Unit, 0>>

\* The float errors at the end of a segment.
EndNoise(l) == EvalSide(l, [n |-> 1, d |-> 1], 0).noise
=============================================================================
