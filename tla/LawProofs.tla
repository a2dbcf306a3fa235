------------------------------ MODULE LawProofs ------------------------------
(***************************************************************************)
(* Proofs about Law: its arithmetic, and what the closed forms give at the *)
(* ends, in the middle and anywhere on a segment.                          *)
(***************************************************************************)
EXTENDS Law, Sequences, TLAPS

-----------------------------------------------------------------------------
(* Arithmetic. *)

\* A quotient is characterised by its remainder ...
LEMMA DivUnique ==
  ASSUME NEW a \in Int, NEW b \in Int, b > 0, NEW q \in Int, q * b <= a, a < (q + 1) * b
  PROVE  a \div b = q
OBVIOUS

\* ... and is exact when there is none.
LEMMA DivExact ==
  ASSUME NEW q \in Int, NEW b \in Int, b > 0
  PROVE  (q * b) \div b = q
OBVIOUS

\* The sines of the table are at most Unit.
LEMMA SinesBounded == \A i \in 1 .. 37 : Sines[i] \in 0 .. Unit
BY DEF Sines, Unit

\* So are the sines of all angles, and their negatives.
LEMMA SinBounded ==
  ASSUME NEW p \in Int
  PROVE  Sin(p) \in Int /\ -Unit <= Sin(p) /\ Sin(p) <= Unit
<1>. DEFINE q == p % 72
            up == IF 2 * q <= 72 THEN q ELSE 72 - q
            x == Sines[up + 1]
<1>1. up + 1 \in 1 .. 37
  OBVIOUS
<1>2. x \in 0 .. Unit
  BY <1>1, SinesBounded
<1>3. Sin(p) = x \/ Sin(p) = -x
  BY DEF Sin, HalfTurn
<1>. HIDE DEF x
<1>. QED
  BY <1>2, <1>3 DEF Unit

\* The two ends of a segment are entries of the table.
LEMMA StepsEnds ==
  /\ \A m \in Nat : Steps(m, [n |-> 0, d |-> 1]) = 0
  /\ \A m \in Nat : Steps(m, [n |-> 1, d |-> 1]) = m
BY DEF Steps

\* The sines of the quarter turns are exact.
LEMMA SinQuarters ==
  Sin(0) = 0 /\ Sin(36) = Unit /\ Sin(72) = 0 /\ Sin(108) = -Unit /\ Sin(144) = 0 /\ Sin(180) = Unit
<1>1. Sines[1] = 0 /\ Sines[37] = 1000
  BY DEF Sines
<1>2. \A p \in Int : LET q == p % 72
                         up == IF 2 * q <= 72 THEN q ELSE 72 - q
                     IN  Sin(p) = IF p % 144 < 72 THEN Sines[up + 1] ELSE -Sines[up + 1]
  BY DEF Sin, HalfTurn
<1>3. Sin(0) = Sines[1] /\ Sin(36) = Sines[37] /\ Sin(72) = -Sines[1]
  BY <1>2
<1>4. Sin(108) = -Sines[37] /\ Sin(144) = Sines[1] /\ Sin(180) = Sines[37]
  BY <1>2
<1>. QED
  BY <1>1, <1>3, <1>4 DEF Unit

-----------------------------------------------------------------------------
(* The closed forms at the ends and in the middle of a segment. *)

\* Before and at its start a segment has not moved, on either side.
LEMMA EvalStart ==
  ASSUME NEW l \in Laws, NEW d \in Int, d > 0, NEW side \in Int
  PROVE  /\ EvalSide(l, [n |-> 0, d |-> d], side) = EvalSide(l, [n |-> 0, d |-> d], 0)
         /\ EvalSide(l, [n |-> 0, d |-> d], side).y = 0
<1>. DEFINE T == [n |-> 0, d |-> 1]
<1>1. Clamp([n |-> 0, d |-> d]) = T
  BY DEF Clamp
<1>2. evalCosine(T).y = 0
  <2>1. evalCosine(T).y = (Unit - Cos(Steps(HalfTurn, T))) \div 2
    BY DEF evalCosine
  <2>2. Steps(HalfTurn, T) = 0
    BY StepsEnds DEF HalfTurn
  <2>3. Cos(0) = Unit
    BY SinQuarters DEF Cos, HalfTurn
  <2>. QED
    BY <2>1, <2>2, <2>3 DEF Unit
<1>3. evalCycloid(T).y = 0
  <2>1. evalCycloid(T).y = (Unit * 0) \div 1 - Quot(Unit * Sin(Steps(2 * HalfTurn, T)), 2 * Pi)
    BY DEF evalCycloid
  <2>2. Steps(2 * HalfTurn, T) = 0
    BY StepsEnds DEF HalfTurn
  <2>3. Sin(0) = 0
    BY SinQuarters
  <2>. QED
    BY <2>1, <2>2, <2>3 DEF Unit, Quot, Sgn, Abs, Pi
<1>4. evalParabolic(T, side) = evalParabolic(T, 0) /\ evalParabolic(T, side).y = 0
  BY DEF evalParabolic, Unit
<1>. HIDE DEF T
<1>5. \A s \in Int : EvalSide(l, [n |-> 0, d |-> d], s) =
        IF l = "cosine" THEN evalCosine(T) ELSE IF l = "cycloid" THEN evalCycloid(T) ELSE evalParabolic(T, s)
  BY <1>1 DEF EvalSide, Laws
<1>. QED
  BY <1>2, <1>3, <1>4, <1>5 DEF Laws

\* At and after its end a segment has moved all the way.
LEMMA EvalEnd ==
  ASSUME NEW l \in Laws, NEW d \in Int, d > 0, NEW n \in Int, n >= d, NEW side \in Int
  PROVE  EvalSide(l, [n |-> n, d |-> d], side).y = Unit
<1>. DEFINE T == [n |-> 1, d |-> 1]
<1>1. Clamp([n |-> n, d |-> d]) = T
  BY DEF Clamp
<1>2. evalCosine(T).y = Unit
  <2>1. evalCosine(T).y = (Unit - Cos(Steps(HalfTurn, T))) \div 2
    BY DEF evalCosine
  <2>2. Steps(HalfTurn, T) = 72
    BY StepsEnds DEF HalfTurn
  <2>3. Cos(72) = -Unit
    BY SinQuarters DEF Cos, HalfTurn
  <2>. QED
    BY <2>1, <2>2, <2>3 DEF Unit
<1>3. evalCycloid(T).y = Unit
  <2>1. evalCycloid(T).y = (Unit * 1) \div 1 - Quot(Unit * Sin(Steps(2 * HalfTurn, T)), 2 * Pi)
    BY DEF evalCycloid
  <2>2. Steps(2 * HalfTurn, T) = 144
    BY StepsEnds DEF HalfTurn
  <2>3. Sin(144) = 0
    BY SinQuarters
  <2>. QED
    BY <2>1, <2>2, <2>3 DEF Unit, Quot, Sgn, Abs, Pi
<1>4. evalParabolic(T, side).y = Unit
  BY DEF evalParabolic, Unit
<1>. HIDE DEF T
<1>. QED
  BY <1>1, <1>2, <1>3, <1>4 DEF EvalSide, Laws

\* The sides differ in the middle of a segment only.
LEMMA EvalSides ==
  ASSUME NEW l \in Laws, NEW n \in Int, NEW d \in Int, d > 0, 2 * n # d, NEW side \in Int
  PROVE  EvalSide(l, [n |-> n, d |-> d], side) = EvalSide(l, [n |-> n, d |-> d], 0)
<1>. DEFINE T == Clamp([n |-> n, d |-> d])
<1>1. T.n \in Int /\ T.d \in Int /\ 2 * T.n # T.d
  BY DEF Clamp
<1>. HIDE DEF T
<1>2. evalParabolic(T, side) = evalParabolic(T, 0)
  <2>. DEFINE first(s) == 2 * T.n < T.d \/ (2 * T.n = T.d /\ s <= 0)
  <2>1. first(side) <=> first(0)
    BY <1>1
  <2>2. (2 * T.n < T.d \/ (2 * T.n = T.d /\ side <= 0)) <=> (2 * T.n < T.d \/ (2 * T.n = T.d /\ 0 <= 0))
    BY <2>1
  <2>. QED
    BY <2>2, Zenon DEF evalParabolic
<1>3. \A s \in Int : EvalSide(l, [n |-> n, d |-> d], s) =
        IF l = "cosine" THEN evalCosine(T) ELSE IF l = "cycloid" THEN evalCycloid(T) ELSE evalParabolic(T, s)
  BY DEF EvalSide, Laws, T
<1>. QED
  BY <1>2, <1>3

\* The two halves of the parabolic law meet in the middle with the same y and
\* y', and with opposite y''.
LEMMA EvalMiddle ==
  ASSUME NEW n \in Int, n > 0, NEW d \in Int, d = 2 * n, NEW side \in {-1, 1}
  PROVE  EvalSide("parabolic", [n |-> n, d |-> d], side) =
           [y |-> Unit \div 2, y1 |-> 2 * Unit, y2 |-> IF side = 1 THEN -4 * Unit ELSE 4 * Unit,
            y3 |-> 0, noise |-> <<0, 0, 0>>]
<1>. DEFINE T == [n |-> n, d |-> d]
<1>1. Clamp(T) = T
  BY DEF Clamp
<1>2. (2 * Unit * n * n) \div (d * d) = 500
  <2>1. d * d > 0 /\ d * d \in Int
    OBVIOUS
  <2>2. 2 * Unit * n * n = 500 * (d * d)
    BY DEF Unit
  <2>. QED
    BY <2>1, <2>2, DivExact
<1>3. (4 * Unit * n) \div d = 2000
  <2>1. 4 * Unit * n = 2000 * d
    BY DEF Unit
  <2>. QED
    BY <2>1, DivExact
<1>4. d - n = n /\ ~(2 * n < d) /\ 2 * n = d
  OBVIOUS
<1>5. evalParabolic(T, side) =
        [y |-> Unit \div 2, y1 |-> 2 * Unit, y2 |-> IF side = 1 THEN -4 * Unit ELSE 4 * Unit,
         y3 |-> 0, noise |-> <<0, 0, 0>>]
  <2>1. CASE side = -1
    BY <1>2, <1>3, <1>4, <2>1 DEF evalParabolic, Unit
  <2>2. CASE side = 1
    BY <1>2, <1>3, <1>4, <2>2 DEF evalParabolic, Unit
  <2>. QED
    BY <2>1, <2>2
<1>. HIDE DEF T
<1>6. EvalSide("parabolic", T, side) = evalParabolic(Clamp(T), side)
  BY DEF EvalSide
<1>. QED
  BY <1>1, <1>5, <1>6 DEF T

-----------------------------------------------------------------------------
(* Scaling by omega / beta. *)

\* MulDiv is an integer, 0 at 0 and odd.
LEMMA MulDivOdd ==
  ASSUME NEW x \in Int, NEW m \in Int, NEW y \in Int, y > 0
  PROVE  MulDiv(x, m, y) \in Int /\ MulDiv(0, m, y) = 0 /\ MulDiv(-x, m, y) = -MulDiv(x, m, y)
<1>1. \A a \in Int : a \div y \in Int /\ a % y \in Int
  OBVIOUS
<1>. DEFINE M(a) == (a \div y) * m + ((a % y) * m) \div y
<1>2. \A a \in Int : M(a) \in Int
  BY <1>1
<1>3. \A a \in Int : MulDiv(a, m, y) = Sgn(a) * M(Abs(a)) /\ Abs(a) \in Int /\ Abs(-a) = Abs(a) /\ Sgn(-a) = -Sgn(a) /\ Sgn(a) \in {-1, 0, 1}
  BY DEF MulDiv, Abs, Sgn
<1>. HIDE DEF M
<1>4. \A a \in Int : MulDiv(a, m, y) \in Int /\ MulDiv(-a, m, y) = -MulDiv(a, m, y)
  BY <1>2, <1>3
<1>5. MulDiv(0, m, y) = 0
  BY <1>2, <1>3 DEF Sgn
<1>. QED
  BY <1>4, <1>5

\* Split as it is, MulDiv is the quotient of the product.
LEMMA MulDivIsQuotient ==
  ASSUME NEW x \in Nat, NEW m \in Nat, NEW y \in Nat, y > 0
  PROVE  MulDiv(x, m, y) = (x * m) \div y
<1>. DEFINE q == x \div y
            r == x % y
            s == (r * m) \div y
            t == (r * m) % y
<1>1. q \in Nat /\ r \in Nat /\ x = q * y + r
  OBVIOUS
<1>. HIDE DEF q, r
<1>2. s \in Int /\ t \in Int /\ r * m = s * y + t /\ 0 <= t /\ t < y
  BY <1>1
<1>. HIDE DEF s, t
<1>3. x * m = (q * m + s) * y + t
  <2>1. x * m = (q * m) * y + r * m
    BY <1>1
  <2>. QED
    BY <1>1, <1>2, <2>1
<1>4. (x * m) \div y = q * m + s
  <2>. DEFINE a == x * m
              b == q * m + s
  <2>1. a \in Int /\ b \in Int /\ a = b * y + t
    BY <1>1, <1>2, <1>3
  <2>. HIDE DEF a, b
  <2>2. b * y <= a /\ a < (b + 1) * y
    BY <1>2, <2>1
  <2>3. a \div y = b
    BY <2>1, <2>2, DivUnique
  <2>. QED
    BY <2>3 DEF a, b
<1>5. x > 0 => MulDiv(x, m, y) = q * m + s
  BY <1>1, <1>2 DEF MulDiv, Sgn, Abs, q, r, s
<1>6. x = 0 => MulDiv(x, m, y) = 0 /\ (x * m) \div y = 0
  BY <1>1, MulDivOdd
<1>. QED
  BY <1>4, <1>5, <1>6

\* A larger product has no smaller quotient.
LEMMA DivMonotone ==
  ASSUME NEW a \in Int, NEW b \in Int, a <= b, NEW y \in Int, y > 0
  PROVE  a \div y <= b \div y
OBVIOUS

\* MulDiv keeps bounds on absolute values.
LEMMA MulDivBound ==
  ASSUME NEW x \in Int, NEW z \in Nat, -z <= x, x <= z, NEW m \in Nat, NEW y \in Nat, y > 0
  PROVE  /\ MulDiv(z, m, y) \in Nat
         /\ -MulDiv(z, m, y) <= MulDiv(x, m, y) /\ MulDiv(x, m, y) <= MulDiv(z, m, y)
<1>1. \A a \in Nat : a <= z => 0 <= MulDiv(a, m, y) /\ MulDiv(a, m, y) <= MulDiv(z, m, y)
  <2>. TAKE a \in Nat
  <2>. HAVE a <= z
  <2>1. 0 <= a * m /\ a * m <= z * m /\ a * m \in Int /\ z * m \in Int
    OBVIOUS
  <2>2. 0 \div y <= (a * m) \div y /\ (a * m) \div y <= (z * m) \div y /\ 0 \div y = 0
    BY <2>1, DivMonotone
  <2>. QED
    BY <2>2, MulDivIsQuotient
<1>a. MulDiv(z, m, y) \in Int /\ 0 <= MulDiv(z, m, y)
  BY <1>1, MulDivOdd
<1>2. CASE x >= 0
  <2>1. x \in Nat /\ MulDiv(x, m, y) \in Int
    BY <1>2, MulDivOdd
  <2>2. 0 <= MulDiv(x, m, y) /\ MulDiv(x, m, y) <= MulDiv(z, m, y)
    BY <1>1, <2>1
  <2>. QED
    BY <1>a, <2>1, <2>2
<1>3. CASE x < 0
  <2>1. -x \in Nat /\ -x <= z
    BY <1>3
  <2>2. MulDiv(-(-x), m, y) = -MulDiv(-x, m, y) /\ -(-x) = x
    BY <2>1, MulDivOdd
  <2>3. MulDiv(-x, m, y) \in Int /\ 0 <= MulDiv(-x, m, y) /\ MulDiv(-x, m, y) <= MulDiv(z, m, y)
    BY <1>1, <2>1, MulDivOdd
  <2>4. MulDiv(x, m, y) = -MulDiv(-x, m, y)
    BY <2>2
  <2>. QED
    BY <1>a, <2>3, <2>4
<1>. QED
  BY <1>2, <1>3

-----------------------------------------------------------------------------
(* The peaks of the closed forms. *)

\* Quot keeps bounds on absolute values.
LEMMA QuotBound ==
  ASSUME NEW x \in Int, NEW z \in Nat, -z <= x, x <= z, NEW y \in Int, y > 0
  PROVE  Quot(x, y) \in Int /\ -(z \div y) <= Quot(x, y) /\ Quot(x, y) <= z \div y
<1>1. Abs(x) \in Int /\ 0 <= Abs(x) /\ Abs(x) <= z /\ Sgn(x) \in {-1, 0, 1}
  BY DEF Abs, Sgn
<1>2. 0 \div y = 0 /\ 0 \div y <= Abs(x) \div y /\ Abs(x) \div y <= z \div y
  BY <1>1, DivMonotone
<1>3. Abs(x) \div y \in Int /\ z \div y \in Int
  BY <1>1
<1>. HIDE DEF Abs
<1>4. Quot(x, y) \in {-(Abs(x) \div y), 0, Abs(x) \div y}
  BY <1>1, <1>3 DEF Quot
<1>. QED
  BY <1>2, <1>3, <1>4

\* The peaks of the three laws.
LEMMA PeaksAre ==
  ASSUME NEW l \in Laws
  PROVE  LET p == UnitPeaks(l)
         IN  /\ l = "cosine"    => p[1] = 1571 /\ p[2] = 4935 /\ p[3] = 15503
             /\ l = "cycloid"   => p[1] = 2000 /\ p[2] = 6284 /\ p[3] = 39480
             /\ l = "parabolic" => p[1] = 2000 /\ p[2] = 4000 /\ p[3] = 0
BY DEF UnitPeaks, Pi, Pi2, Pi3, Unit, Laws

\* A value within a bound.
Within(x, z) == x \in Int /\ -z <= x /\ x <= z

\* A multiple of a sine.
LEMMA QuotOfSine ==
  ASSUME NEW s \in Int, -1000 <= s, s <= 1000, NEW k \in Nat, NEW y \in Int, y > 0
  PROVE  Within(Quot(k * s, y), (k * 1000) \div y)
<1>. DEFINE x == k * s
            z == k * 1000
<1>1. x \in Int /\ z \in Nat /\ -z <= x /\ x <= z
  OBVIOUS
<1>. HIDE DEF x, z
<1>2. Within(Quot(x, y), z \div y)
  BY <1>1, QuotBound DEF Within
<1>. QED
  BY <1>2 DEF x, z

\* No sample of a law exceeds its peaks.
LEMMA EvalBound ==
  ASSUME NEW l \in Laws, NEW n \in Int, NEW d \in Int, d > 0, NEW side \in Int
  PROVE  LET w == EvalSide(l, [n |-> n, d |-> d], side)
         IN  /\ Within(w.y1, UnitPeaks(l)[1]) /\ Within(w.y2, UnitPeaks(l)[2]) /\ Within(w.y3, UnitPeaks(l)[3])
<1>. DEFINE T == Clamp([n |-> n, d |-> d])
            a == T.n
            b == T.d
            p == Steps(72, T)
            q == Steps(144, T)
<1>1. a \in Int /\ b \in Int /\ b > 0 /\ 0 <= a /\ a <= b
  BY DEF Clamp
<1>2. p = (2 * 72 * a + b) \div (2 * b) /\ q = (2 * 144 * a + b) \div (2 * b)
  BY DEF Steps
<1>. HIDE DEF T, a, b
<1>3. p \in Int /\ q \in Int
  <2>1. \A x \in Int : \A y \in Int : y > 0 => x \div y \in Int
    OBVIOUS
  <2>2. 2 * 72 * a + b \in Int /\ 2 * 144 * a + b \in Int /\ 2 * b \in Int /\ 2 * b > 0
    BY <1>1
  <2>. QED
    BY <1>2, <2>1, <2>2
<1>. HIDE DEF p, q
<1>4. \A x \in Int : /\ Sin(x) \in Int /\ -1000 <= Sin(x) /\ Sin(x) <= 1000
                     /\ Cos(x) \in Int /\ -1000 <= Cos(x) /\ Cos(x) <= 1000
  <2>1. \A x \in Int : Sin(x) \in Int /\ -1000 <= Sin(x) /\ Sin(x) <= 1000
    BY SinBounded DEF Unit
  <2>2. \A x \in Int : Cos(x) = Sin(x + 36) /\ x + 36 \in Int
    BY DEF Cos, HalfTurn
  <2>. QED
    BY <2>1, <2>2
<1>5. CASE l = "cosine"
  <2>. DEFINE w == EvalSide(l, [n |-> n, d |-> d], side)
  <2>1. w.y1 = Quot(3142 * Sin(p), 2000) /\ w.y2 = Quot(9870 * Cos(p), 2000) /\ w.y3 = -Quot(31006 * Sin(p), 2000)
    BY <1>5 DEF EvalSide, evalCosine, Pi, Pi2, Pi3, Unit, HalfTurn, p, T
  <2>. DEFINE s == Sin(p)
              c == Cos(p)
  <2>2. s \in Int /\ -1000 <= s /\ s <= 1000 /\ c \in Int /\ -1000 <= c /\ c <= 1000
    BY <1>3, <1>4
  <2>. HIDE DEF s, c
  <2>3. Within(Quot(3142 * s, 2000), (3142 * 1000) \div 2000)
    BY <2>2, QuotOfSine, SMT
  <2>4. Within(Quot(9870 * c, 2000), (9870 * 1000) \div 2000)
    BY <2>2, QuotOfSine, SMT
  <2>5. Within(Quot(31006 * s, 2000), (31006 * 1000) \div 2000)
    BY <2>2, QuotOfSine, SMT
  <2>6. (3142 * 1000) \div 2000 = 1571 /\ (9870 * 1000) \div 2000 = 4935 /\ (31006 * 1000) \div 2000 = 15503
    BY SMT
  <2>. HIDE DEF w
  <2>7. Within(w.y1, 1571) /\ Within(w.y2, 4935) /\ Within(w.y3, 15503)
    BY <2>1, <2>3, <2>4, <2>5, <2>6, SMT DEF s, c, Within
  <2>. QED
    BY <1>5, <2>7, PeaksAre DEF w
<1>6. CASE l = "cycloid"
  <2>. DEFINE w == EvalSide(l, [n |-> n, d |-> d], side)
  <2>1. w.y1 = 1000 - Cos(q) /\ w.y2 = Quot(6284 * Sin(q), 1000) /\ w.y3 = Quot(39480 * Cos(q), 1000)
    BY <1>6 DEF EvalSide, evalCycloid, Pi, Pi2, Unit, HalfTurn, q, T
  <2>. DEFINE s == Sin(q)
              c == Cos(q)
  <2>2. s \in Int /\ -1000 <= s /\ s <= 1000 /\ c \in Int /\ -1000 <= c /\ c <= 1000
    BY <1>3, <1>4
  <2>. HIDE DEF s, c
  <2>3. Within(1000 - c, 2000)
    BY <2>2 DEF Within
  <2>4. Within(Quot(6284 * s, 1000), (6284 * 1000) \div 1000)
    BY <2>2, QuotOfSine, SMT
  <2>5. Within(Quot(39480 * c, 1000), (39480 * 1000) \div 1000)
    BY <2>2, QuotOfSine, SMT
  <2>6. (6284 * 1000) \div 1000 = 6284 /\ (39480 * 1000) \div 1000 = 39480
    BY SMT
  <2>. HIDE DEF w
  <2>7. Within(w.y1, 2000) /\ Within(w.y2, 6284) /\ Within(w.y3, 39480)
    BY <2>1, <2>3, <2>4, <2>5, <2>6, SMT DEF s, c
  <2>. QED
    BY <1>6, <2>7, PeaksAre DEF w
<1>7. CASE l = "parabolic"
  <2>. DEFINE w == EvalSide(l, [n |-> n, d |-> d], side)
              first == 2 * a < b \/ (2 * a = b /\ side <= 0)
              k == IF first THEN a ELSE b - a
  <2>1. w.y1 = (4000 * k) \div b /\ w.y2 \in {4000, -4000} /\ w.y3 = 0
    BY <1>7 DEF EvalSide, evalParabolic, Unit, a, b, T
  <2>2. k \in Int /\ 0 <= k /\ 2 * k <= b
    BY <1>1
  <2>. HIDE DEF k, w
  <2>3. 0 <= 4000 * k /\ 4000 * k <= 2000 * b /\ 4000 * k \in Int /\ 2000 * b \in Int
    BY <1>1, <2>2
  <2>4. 0 \div b <= (4000 * k) \div b /\ (4000 * k) \div b <= (2000 * b) \div b /\ 0 \div b = 0
    BY <1>1, <2>3, DivMonotone
  <2>5. (2000 * b) \div b = 2000 /\ (4000 * k) \div b \in Int
    BY <1>1, <2>3, DivExact
  <2>6. Within(w.y1, 2000) /\ Within(w.y2, 4000) /\ Within(w.y3, 0)
    BY <2>1, <2>4, <2>5 DEF Within
  <2>. QED
    BY <1>7, <2>6, PeaksAre DEF w
<1>. QED
  BY <1>5, <1>6, <1>7 DEF Laws

\* Each peak is attained at a quarter of the segment.
LEMMA EvalAttains ==
  ASSUME NEW l \in Laws, NEW m \in Int, m > 0
  PROVE  LET w(k) == EvalSide(l, [n |-> k * m, d |-> 4 * m], 0)
         IN  /\ w(2).y1 = UnitPeaks(l)[1]
             /\ w(IF l = "cycloid" THEN 1 ELSE 0).y2 = UnitPeaks(l)[2]
             /\ w(IF l = "cosine" THEN 2 ELSE 0).y3 = IF l = "cosine" THEN -UnitPeaks(l)[3] ELSE UnitPeaks(l)[3]
<1>. DEFINE T(k) == [n |-> k * m, d |-> 4 * m]
            Z == [n |-> 0, d |-> 1]
<1>1. Clamp(T(0)) = Z /\ Clamp(T(1)) = T(1) /\ Clamp(T(2)) = T(2)
  BY DEF Clamp
<1>2. Steps(72, Z) = 0 /\ Steps(144, Z) = 0
  BY StepsEnds
<1>3. Steps(72, T(2)) = 36 /\ Steps(144, T(2)) = 72 /\ Steps(144, T(1)) = 36
  <2>1. (2 * 72 * (2 * m) + 4 * m) \div (2 * (4 * m)) = 36
    BY DivUnique
  <2>2. (2 * 144 * (2 * m) + 4 * m) \div (2 * (4 * m)) = 72
    BY DivUnique
  <2>3. (2 * 144 * (1 * m) + 4 * m) \div (2 * (4 * m)) = 36
    BY DivUnique
  <2>. QED
    BY <2>1, <2>2, <2>3 DEF Steps
<1>4. Sin(0) = 0 /\ Sin(36) = 1000 /\ Cos(0) = 1000 /\ Cos(72) = -1000
  BY SinQuarters DEF Cos, HalfTurn, Unit
<1>5. evalCosine(T(2)).y1 = 1571 /\ evalCosine(Z).y2 = 4935 /\ evalCosine(T(2)).y3 = -15503
  <2>1. evalCosine(T(2)).y1 = Quot(Pi * Sin(Steps(72, T(2))), 2 * Unit)
    BY DEF evalCosine, HalfTurn
  <2>2. evalCosine(Z).y2 = Quot(Pi2 * Cos(Steps(72, Z)), 2 * Unit)
    BY DEF evalCosine, HalfTurn
  <2>3. evalCosine(T(2)).y3 = -Quot(Pi3 * Sin(Steps(72, T(2))), 2 * Unit)
    BY DEF evalCosine, HalfTurn
  <2>. HIDE DEF T, Z
  <2>4. evalCosine(T(2)).y1 = 1571
    BY <1>3, <1>4, <2>1, SMT DEF Quot, Sgn, Abs, Pi, Unit
  <2>5. evalCosine(Z).y2 = 4935
    BY <1>2, <1>4, <2>2, SMT DEF Quot, Sgn, Abs, Pi2, Unit
  <2>6. evalCosine(T(2)).y3 = -15503
    BY <1>3, <1>4, <2>3, SMT DEF Quot, Sgn, Abs, Pi3, Unit
  <2>. QED
    BY <2>4, <2>5, <2>6, SMT
<1>6. evalCycloid(T(2)).y1 = 2000 /\ evalCycloid(T(1)).y2 = 6284 /\ evalCycloid(Z).y3 = 39480
  <2>1. evalCycloid(T(2)).y1 = Unit - Cos(Steps(144, T(2)))
    BY DEF evalCycloid, HalfTurn
  <2>2. evalCycloid(T(1)).y2 = Quot(2 * Pi * Sin(Steps(144, T(1))), Unit)
    BY DEF evalCycloid, HalfTurn
  <2>3. evalCycloid(Z).y3 = Quot(4 * Pi2 * Cos(Steps(144, Z)), Unit)
    BY DEF evalCycloid, HalfTurn
  <2>. HIDE DEF T, Z
  <2>4. evalCycloid(T(2)).y1 = 2000
    BY <1>3, <1>4, <2>1, SMT DEF Unit
  <2>5. evalCycloid(T(1)).y2 = 6284
    BY <1>3, <1>4, <2>2, SMT DEF Quot, Sgn, Abs, Pi, Unit
  <2>6. evalCycloid(Z).y3 = 39480
    BY <1>2, <1>4, <2>3, SMT DEF Quot, Sgn, Abs, Pi2, Unit
  <2>. QED
    BY <2>4, <2>5, <2>6, SMT
<1>7. evalParabolic(T(2), 0).y1 = 2000 /\ evalParabolic(Z, 0).y2 = 4000 /\ evalParabolic(Z, 0).y3 = 0
  <2>1. (4000 * (2 * m)) \div (4 * m) = 2000
    BY DivUnique
  <2>2. evalParabolic(T(2), 0).y1 = (4000 * (2 * m)) \div (4 * m)
    BY DEF evalParabolic, Unit
  <2>3. evalParabolic(Z, 0).y2 = 4000 /\ evalParabolic(Z, 0).y3 = 0
    BY DEF evalParabolic, Unit
  <2>. QED
    BY <2>1, <2>2, <2>3
<1>. HIDE DEF T, Z
<1>8. \A k \in {0, 1, 2} :
        /\ l = "cosine" => EvalSide(l, T(k), 0) = evalCosine(Clamp(T(k)))
        /\ l = "cycloid" => EvalSide(l, T(k), 0) = evalCycloid(Clamp(T(k)))
        /\ l = "parabolic" => EvalSide(l, T(k), 0) = evalParabolic(Clamp(T(k)), 0)
  BY DEF EvalSide
<1>9. /\ l = "cosine"    => UnitPeaks(l)[1] = 1571 /\ UnitPeaks(l)[2] = 4935 /\ UnitPeaks(l)[3] = 15503
      /\ l = "cycloid"   => UnitPeaks(l)[1] = 2000 /\ UnitPeaks(l)[2] = 6284 /\ UnitPeaks(l)[3] = 39480
      /\ l = "parabolic" => UnitPeaks(l)[1] = 2000 /\ UnitPeaks(l)[2] = 4000 /\ UnitPeaks(l)[3] = 0
  BY PeaksAre
<1>10. /\ EvalSide(l, T(2), 0).y1 = UnitPeaks(l)[1]
       /\ EvalSide(l, T(IF l = "cycloid" THEN 1 ELSE 0), 0).y2 = UnitPeaks(l)[2]
       /\ EvalSide(l, T(IF l = "cosine" THEN 2 ELSE 0), 0).y3 =
            IF l = "cosine" THEN -UnitPeaks(l)[3] ELSE UnitPeaks(l)[3]
  <2>1. CASE l = "cosine"
    BY <1>1, <1>5, <1>8, <1>9, <2>1
  <2>2. CASE l = "cycloid"
    BY <1>1, <1>6, <1>8, <1>9, <2>2
  <2>3. CASE l = "parabolic"
    BY <1>1, <1>7, <1>8, <1>9, <2>3
  <2>. QED
    BY <2>1, <2>2, <2>3 DEF Laws
<1>. QED
  BY <1>10 DEF T

-----------------------------------------------------------------------------
(* A closed form depends on the value of its fraction only. *)

\* Equal fractions have equal quotients.
LEMMA DivRatio ==
  ASSUME NEW a \in Int, NEW b \in Int, NEW c \in Int, NEW d \in Int, b > 0, d > 0, a * d = c * b
  PROVE  a \div b = c \div d
<1>. DEFINE q == a \div b
<1>1. q \in Int /\ q * b <= a /\ a < (q + 1) * b
  OBVIOUS
<1>. HIDE DEF q
<1>2. (q * d) * b <= c * b
  <2>1. (q * b) * d <= a * d
    BY <1>1
  <2>2. (q * b) * d = (q * d) * b
    BY <1>1
  <2>. QED
    BY <2>1, <2>2
<1>3. c * b < ((q + 1) * d) * b
  <2>1. a * d < ((q + 1) * b) * d
    BY <1>1
  <2>2. ((q + 1) * b) * d = ((q + 1) * d) * b
    BY <1>1
  <2>. QED
    BY <2>1, <2>2
<1>4. \A x \in Int, y \in Int : (x * b <= y * b => x <= y) /\ (x * b < y * b => x < y)
  OBVIOUS
<1>5. q * d <= c /\ c < (q + 1) * d
  BY <1>1, <1>2, <1>3, <1>4
<1>6. c \div d = q
  BY <1>1, <1>5, DivUnique
<1>. QED
  BY <1>6 DEF q

\* The order of a numerator and its denominator, likewise.
LEMMA RatioOrder ==
  ASSUME NEW a \in Int, NEW b \in Int, NEW c \in Int, NEW d \in Int, b > 0, d > 0, a * d = c * b
  PROVE  /\ a <= 0 <=> c <= 0
         /\ a >= b <=> c >= d
         /\ 2 * a < b <=> 2 * c < d
         /\ 2 * a = b <=> 2 * c = d
<1>1. \A x \in Int, y \in Int : x < y <=> x * d < y * d
  OBVIOUS
<1>2. \A x \in Int, y \in Int : x < y <=> x * b < y * b
  OBVIOUS
<1>3. b * d = d * b /\ (2 * a) * d = (2 * c) * b
  OBVIOUS
<1>4. /\ 0 < a <=> 0 < c
      /\ a < b <=> c < d
  <2>1. 0 * d = 0 /\ 0 * b = 0
    OBVIOUS
  <2>2. 0 < a <=> 0 * d < a * d
    BY <1>1
  <2>3. 0 < c <=> 0 * b < c * b
    BY <1>2
  <2>4. a < b <=> a * d < b * d
    BY <1>1
  <2>5. c < d <=> c * b < d * b
    BY <1>2
  <2>. QED
    BY <1>3, <2>1, <2>2, <2>3, <2>4, <2>5
<1>5. /\ 2 * a < b <=> 2 * c < d
      /\ b < 2 * a <=> d < 2 * c
  <2>0. 2 * a \in Int /\ 2 * c \in Int
    OBVIOUS
  <2>1. 2 * a < b <=> (2 * a) * d < b * d
    BY <1>1, <2>0
  <2>2. 2 * c < d <=> (2 * c) * b < d * b
    BY <1>2, <2>0
  <2>3. b < 2 * a <=> b * d < (2 * a) * d
    BY <1>1, <2>0
  <2>4. d < 2 * c <=> d * b < (2 * c) * b
    BY <1>2, <2>0
  <2>. QED
    BY <1>3, <2>1, <2>2, <2>3, <2>4
<1>6. (a <= 0 <=> ~(0 < a)) /\ (c <= 0 <=> ~(0 < c)) /\ (a >= b <=> ~(a < b)) /\ (c >= d <=> ~(c < d))
  OBVIOUS
<1>7. (2 * a = b <=> ~(2 * a < b) /\ ~(b < 2 * a)) /\ (2 * c = d <=> ~(2 * c < d) /\ ~(d < 2 * c))
  OBVIOUS
<1>. QED
  BY <1>4, <1>5, <1>6, <1>7

\* Two ways to write T give the same motion.
LEMMA EvalRatio ==
  ASSUME NEW l \in Laws, NEW side \in Int,
         NEW a \in Int, NEW b \in Int, NEW c \in Int, NEW d \in Int, b > 0, d > 0, a * d = c * b
  PROVE  EvalSide(l, [n |-> a, d |-> b], side) = EvalSide(l, [n |-> c, d |-> d], side)
<1>. DEFINE S == [n |-> a, d |-> b]
            T == [n |-> c, d |-> d]
            Eval(x) == IF l = "cosine" THEN evalCosine(x)
                       ELSE IF l = "cycloid" THEN evalCycloid(x) ELSE evalParabolic(x, side)
<1>0. \A x : EvalSide(l, x, side) = Eval(Clamp(x))
  BY DEF EvalSide, Laws
<1>1. (a <= 0 <=> c <= 0) /\ (a >= b <=> c >= d) /\ (2 * a < b <=> 2 * c < d) /\ (2 * a = b <=> 2 * c = d)
  BY RatioOrder
<1>2. CASE a <= 0 \/ a >= b
  <2>1. Clamp(S) = Clamp(T)
    BY <1>1, <1>2 DEF Clamp
  <2>. QED
    BY <1>0, <2>1
<1>3. CASE ~(a <= 0) /\ ~(a >= b)
  <2>1. Clamp(S) = S /\ Clamp(T) = T /\ ~AtEnd(S) /\ ~AtEnd(T)
    BY <1>1, <1>3 DEF Clamp, AtEnd
  <2>2. \A m \in Nat : Steps(m, S) = Steps(m, T)
    <3>. TAKE m \in Nat
    <3>. DEFINE x == 2 * m * a + b
                y == 2 * m * c + d
    <3>1. x * (2 * d) = y * (2 * b)
      <4>1. (2 * m) * (a * d) = (2 * m) * (c * b)
        OBVIOUS
      <4>2. x * (2 * d) = 2 * ((2 * m) * (a * d)) + 2 * (b * d)
        OBVIOUS
      <4>3. y * (2 * b) = 2 * ((2 * m) * (c * b)) + 2 * (b * d)
        OBVIOUS
      <4>. QED
        BY <4>1, <4>2, <4>3
    <3>2. x \in Int /\ y \in Int /\ 2 * b \in Int /\ 2 * b > 0 /\ 2 * d \in Int /\ 2 * d > 0
      OBVIOUS
    <3>. HIDE DEF x, y
    <3>3. x \div (2 * b) = y \div (2 * d)
      BY <3>1, <3>2, DivRatio
    <3>. QED
      BY <3>3 DEF Steps, x, y
  <2>3. (Unit * a) \div b = (Unit * c) \div d
    <3>1. (Unit * a) * d = (Unit * c) * b /\ Unit * a \in Int /\ Unit * c \in Int
      BY DEF Unit
    <3>. HIDE DEF Unit
    <3>. QED
      BY <3>1, DivRatio
  <2>4. evalCosine(S) = evalCosine(T)
    <3>1. Steps(HalfTurn, S) = Steps(HalfTurn, T)
      BY <2>2 DEF HalfTurn
    <3>. HIDE DEF S, T
    <3>. QED
      BY <2>1, <3>1, Zenon DEF evalCosine
  <2>5. evalCycloid(S) = evalCycloid(T)
    <3>1. Steps(2 * HalfTurn, S) = Steps(2 * HalfTurn, T)
      BY <2>2 DEF HalfTurn
    <3>2. (Unit * S.n) \div S.d = (Unit * T.n) \div T.d
      BY <2>3
    <3>. HIDE DEF S, T
    <3>. QED
      BY <2>1, <3>1, <3>2, Zenon DEF evalCycloid
  <2>6. evalParabolic(S, side) = evalParabolic(T, side)
    <3>. DEFINE first == 2 * a < b \/ (2 * a = b /\ side <= 0)
                j == IF first THEN a ELSE b - a
                k == IF first THEN c ELSE d - c
    <3>1. first <=> 2 * c < d \/ (2 * c = d /\ side <= 0)
      BY <1>1
    <3>2. j \in Int /\ k \in Int /\ j * d = k * b
      <4>1. (b - a) * d = (d - c) * b
        <5>1. (b - a) * d = b * d - a * d /\ (d - c) * b = b * d - c * b
          OBVIOUS
        <5>. QED
          BY <5>1
      <4>. QED
        BY <4>1
    <3>. HIDE DEF first, j, k
    <3>3. (4 * Unit * j) \div b = (4 * Unit * k) \div d
      <4>1. (4000 * j) * d = (4000 * k) * b
        BY <3>2
      <4>2. 4000 * j \in Int /\ 4000 * k \in Int
        BY <3>2
      <4>3. (4000 * j) \div b = (4000 * k) \div d
        BY <4>1, <4>2, DivRatio
      <4>. QED
        BY <4>3, SMT DEF Unit
    <3>4. (2 * Unit * j * j) \div (b * b) = (2 * Unit * k * k) \div (d * d)
      <4>. DEFINE x == 2000 * j * j
                  y == 2000 * k * k
      <4>1. x * (d * d) = y * (b * b)
        <5>1. (j * d) * (j * d) = (k * b) * (k * b)
          BY <3>2
        <5>2. x * (d * d) = 2000 * ((j * d) * (j * d))
          BY <3>2
        <5>3. y * (b * b) = 2000 * ((k * b) * (k * b))
          BY <3>2
        <5>. QED
          BY <5>1, <5>2, <5>3
      <4>2. x \in Int /\ y \in Int /\ b * b \in Int /\ b * b > 0 /\ d * d \in Int /\ d * d > 0
        BY <3>2
      <4>. HIDE DEF x, y
      <4>3. x \div (b * b) = y \div (d * d)
        BY <4>1, <4>2, DivRatio
      <4>. QED
        BY <4>3, SMT DEF Unit, x, y
    <3>5. evalParabolic(S, side) =
            [ y |-> IF first THEN (2 * Unit * j * j) \div (b * b) ELSE Unit - (2 * Unit * j * j) \div (b * b),
              y1 |-> (4 * Unit * j) \div b, y2 |-> IF first THEN 4 * Unit ELSE -4 * Unit,
              y3 |-> 0, noise |-> <<0, 0, 0>> ]
      BY DEF evalParabolic, first, j
    <3>6. evalParabolic(T, side) =
            [ y |-> IF first THEN (2 * Unit * k * k) \div (d * d) ELSE Unit - (2 * Unit * k * k) \div (d * d),
              y1 |-> (4 * Unit * k) \div d, y2 |-> IF first THEN 4 * Unit ELSE -4 * Unit,
              y3 |-> 0, noise |-> <<0, 0, 0>> ]
      <4>. DEFINE g == 2 * c < d \/ (2 * c = d /\ side <= 0)
                  kk == IF g THEN c ELSE d - c
      <4>1. evalParabolic(T, side) =
              [ y |-> IF g THEN (2 * Unit * kk * kk) \div (d * d) ELSE Unit - (2 * Unit * kk * kk) \div (d * d),
                y1 |-> (4 * Unit * kk) \div d, y2 |-> IF g THEN 4 * Unit ELSE -4 * Unit,
                y3 |-> 0, noise |-> <<0, 0, 0>> ]
        BY DEF evalParabolic
      <4>2. g = first
        BY <3>1
      <4>3. kk = k
        BY <4>2 DEF k
      <4>. HIDE DEF g, kk
      <4>. QED
        BY <4>1, <4>2, <4>3
    <3>. QED
      BY <3>3, <3>4, <3>5, <3>6
  <2>. HIDE DEF S, T
  <2>7. Eval(S) = Eval(T)
    BY <2>4, <2>5, <2>6
  <2>8. EvalSide(l, S, side) = EvalSide(l, T, side)
    BY <1>0, <2>1, <2>7
  <2>. QED
    BY <2>8 DEF S, T
<1>. QED
  BY <1>2, <1>3

-----------------------------------------------------------------------------
(* The derivatives at the two ends of a segment. *)

\* At either end y' vanishes; a cycloid has no y'' there and its largest y''',
\* the other laws have no y''' and their largest y'', against the motion at the
\* end. Only at the end is there an error.
LEMMA EvalEnds ==
  ASSUME NEW l \in Laws, NEW d \in Int, d > 0, NEW n \in Int, n = 0 \/ n >= d, NEW side \in Int
  PROVE  LET w == EvalSide(l, [n |-> n, d |-> d], side)
             p == UnitPeaks(l)
         IN  /\ w.y1 = 0
             /\ l = "cycloid" => w.y2 = 0 /\ w.y3 = p[3]
             /\ l # "cycloid" => w.y2 = (IF n = 0 THEN p[2] ELSE -p[2]) /\ w.y3 = 0
             /\ w.noise = IF n = 0 THEN <<0, 0, 0>> ELSE EndNoise(l)
<1>. DEFINE e == IF n = 0 THEN 0 ELSE 1
            T == [n |-> e, d |-> 1]
            w == EvalSide(l, [n |-> n, d |-> d], side)
            p == UnitPeaks(l)
<1>1. Clamp([n |-> n, d |-> d]) = T
  BY DEF Clamp
<1>2. Clamp([n |-> 1, d |-> 1]) = [n |-> 1, d |-> 1]
  BY DEF Clamp
<1>3. n # 0 => T = [n |-> 1, d |-> 1]
  OBVIOUS
<1>4. AtEnd(T) <=> n # 0
  BY DEF AtEnd
<1>5. \A m \in Nat : Steps(m, T) = IF n = 0 THEN 0 ELSE m
  BY StepsEnds
<1>6. T.n = e /\ T.d = 1
  OBVIOUS
<1>. HIDE DEF T
<1>7. /\ l = "cosine"  => p[2] = 4935
      /\ l = "cycloid" => p[3] = 39480
      /\ l = "parabolic" => p[2] = 4000
  BY PeaksAre
<1>8. CASE l = "cosine"
  <2>. DEFINE s == IF n = 0 THEN 0 ELSE 72
  <2>1. w = evalCosine(T) /\ (n # 0 => EndNoise(l) = evalCosine(T).noise)
    BY <1>1, <1>2, <1>3, <1>8 DEF EvalSide, EndNoise
  <2>2. Steps(HalfTurn, T) = s
    BY <1>5 DEF HalfTurn
  <2>3. Sin(s) = 0 /\ Cos(s) = IF n = 0 THEN 1000 ELSE -1000
    BY SinQuarters DEF Cos, HalfTurn, Unit
  <2>. HIDE DEF s
  <2>4. /\ evalCosine(T).y1 = Quot(Pi * Sin(s), 2 * Unit)
        /\ evalCosine(T).y2 = Quot(Pi2 * Cos(s), 2 * Unit)
        /\ evalCosine(T).y3 = -Quot(Pi3 * Sin(s), 2 * Unit)
        /\ evalCosine(T).noise = IF AtEnd(T) THEN <<2, 0, -19>> ELSE <<0, 0, 0>>
    BY <2>2 DEF evalCosine
  <2>5. /\ Quot(Pi * 0, 2 * Unit) = 0 /\ -Quot(Pi3 * 0, 2 * Unit) = 0
        /\ Quot(Pi2 * 1000, 2 * Unit) = 4935 /\ Quot(Pi2 * (-1000), 2 * Unit) = -4935
    <3>1. Pi * 0 = 0 /\ Pi3 * 0 = 0 /\ 2 * Unit = 2000 /\ Pi2 * 1000 = 9870000 /\ Pi2 * (-1000) = -9870000
      BY SMT DEF Pi, Pi2, Pi3, Unit
    <3>2. Quot(0, 2000) = 0
      BY SMT DEF Quot, Sgn, Abs
    <3>3. Quot(9870000, 2000) = 4935
      BY SMT DEF Quot, Sgn, Abs
    <3>4. Quot(-9870000, 2000) = -4935
      BY SMT DEF Quot, Sgn, Abs
    <3>. QED
      BY <3>1, <3>2, <3>3, <3>4, SMT
  <2>. QED
    BY <1>4, <1>7, <1>8, <2>1, <2>3, <2>4, <2>5
<1>9. CASE l = "cycloid"
  <2>. DEFINE s == IF n = 0 THEN 0 ELSE 144
  <2>1. w = evalCycloid(T) /\ (n # 0 => EndNoise(l) = evalCycloid(T).noise)
    BY <1>1, <1>2, <1>3, <1>9 DEF EvalSide, EndNoise
  <2>2. Steps(2 * HalfTurn, T) = s
    BY <1>5 DEF HalfTurn
  <2>3. Sin(s) = 0 /\ Cos(s) = 1000
    BY SinQuarters DEF Cos, HalfTurn, Unit
  <2>. HIDE DEF s
  <2>4. /\ evalCycloid(T).y1 = Unit - Cos(s)
        /\ evalCycloid(T).y2 = Quot(2 * Pi * Sin(s), Unit)
        /\ evalCycloid(T).y3 = Quot(4 * Pi2 * Cos(s), Unit)
        /\ evalCycloid(T).noise = IF AtEnd(T) THEN <<0, -15, 0>> ELSE <<0, 0, 0>>
    BY <2>2 DEF evalCycloid
  <2>5. Quot(2 * Pi * 0, Unit) = 0 /\ Quot(4 * Pi2 * 1000, Unit) = 39480 /\ Unit - 1000 = 0
    BY SMT DEF Quot, Sgn, Abs, Pi, Pi2, Unit
  <2>. QED
    BY <1>4, <1>7, <1>9, <2>1, <2>3, <2>4, <2>5
<1>10. CASE l = "parabolic"
  <2>1. w = evalParabolic(T, side) /\ (n # 0 => EndNoise(l) = evalParabolic(T, 0).noise)
    BY <1>1, <1>2, <1>3, <1>10 DEF EvalSide, EndNoise
  <2>2. \A k \in Int :
          LET v == evalParabolic(T, k)
          IN  v.y1 = 0 /\ v.y2 = (IF n = 0 THEN 4000 ELSE -4000) /\ v.y3 = 0 /\ v.noise = <<0, 0, 0>>
    BY <1>6 DEF evalParabolic, Unit
  <2>. QED
    BY <1>7, <1>10, <2>1, <2>2
<1>. QED
  BY <1>8, <1>9, <1>10 DEF Laws

\* The errors are integers.
LEMMA EndNoiseIs ==
  ASSUME NEW l \in Laws
  PROVE  EndNoise(l)[1] \in Int /\ EndNoise(l)[2] \in Int /\ EndNoise(l)[3] \in Int
<1>. DEFINE T == [n |-> 1, d |-> 1]
<1>1. Clamp(T) = T
  BY DEF Clamp
<1>. HIDE DEF T
<1>2. /\ evalCosine(T).noise = IF AtEnd(T) THEN <<2, 0, -19>> ELSE <<0, 0, 0>>
      /\ evalCycloid(T).noise = IF AtEnd(T) THEN <<0, -15, 0>> ELSE <<0, 0, 0>>
      /\ evalParabolic(T, 0).noise = <<0, 0, 0>>
  BY DEF evalCosine, evalCycloid, evalParabolic
<1>3. EndNoise(l) \in {<<2, 0, -19>>, <<0, -15, 0>>, <<0, 0, 0>>}
  BY <1>1, <1>2 DEF EndNoise, EvalSide, Laws, T
<1>. QED
  BY <1>3

-----------------------------------------------------------------------------
(* A return runs through its law backwards. *)

\* The sine of the other end of a turn.
LEMMA SinOpposite ==
  ASSUME NEW q \in 0 .. 144
  PROVE  Sin(144 - q) = -Sin(q) /\ Sin(q) \in Int
<1>1. \A p \in Int : LET r == p % 72
                         up == IF 2 * r <= 72 THEN r ELSE 72 - r
                     IN  Sin(p) = IF p % 144 < 72 THEN Sines[up + 1] ELSE -Sines[up + 1]
  BY DEF Sin, HalfTurn
<1>2. \A r \in 1 .. 71 : LET up == IF 2 * r <= 72 THEN r ELSE 72 - r
                         IN  Sin(r) = Sines[up + 1] /\ Sin(144 - r) = -Sines[up + 1]
  <2>. TAKE r \in 1 .. 71
  <2>. DEFINE up == IF 2 * r <= 72 THEN r ELSE 72 - r
  <2>1. r % 72 = r /\ r % 144 = r /\ (144 - r) % 72 = 72 - r /\ (144 - r) % 144 = 144 - r
    OBVIOUS
  <2>2. Sin(r) = Sines[up + 1]
    BY <1>1, <2>1
  <2>3. (IF 2 * (72 - r) <= 72 THEN 72 - r ELSE 72 - (72 - r)) = up
    OBVIOUS
  <2>. HIDE DEF up
  <2>4. Sin(144 - r) = -Sines[up + 1]
    BY <1>1, <2>1, <2>3
  <2>. QED
    BY <2>2, <2>4 DEF up
<1>3. \A p \in Int : Sin(p) \in Int
  BY SinBounded
<1>4. CASE q \in 1 .. 71
  BY <1>2, <1>3, <1>4
<1>5. CASE q \in 73 .. 143
  <2>. DEFINE r == 144 - q
  <2>1. r \in 1 .. 71 /\ q = 144 - r /\ r \in Int
    BY <1>5
  <2>. HIDE DEF r
  <2>2. Sin(144 - r) = -Sin(r) /\ Sin(r) \in Int
    BY <1>2, <1>3, <2>1
  <2>. QED
    BY <2>1, <2>2 DEF r
<1>6. CASE q \in {0, 72, 144}
  BY <1>6, SinQuarters
<1>. QED
  BY <1>4, <1>5, <1>6

\* A fraction on the table, and the one as far from the other end.
LEMMA StepsMirror ==
  ASSUME NEW d \in Int, d > 0, NEW n \in Int, NEW k \in Int, 72 * n = k * d
  PROVE  LET T(x) == [n |-> x, d |-> d]
         IN  /\ Steps(72, T(n)) = k /\ Steps(72, T(d - n)) = 72 - k
             /\ Steps(144, T(n)) = 2 * k /\ Steps(144, T(d - n)) = 144 - 2 * k
<1>1. \A m, x, j \in Int : m * x = j * d => Steps(m, [n |-> x, d |-> d]) = j
  <2>. TAKE m, x, j \in Int
  <2>. HAVE m * x = j * d
  <2>1. Steps(m, [n |-> x, d |-> d]) = (2 * m * x + d) \div (2 * d)
    BY DEF Steps
  <2>2. 2 * m * x + d = 2 * (j * d) + d /\ j * (2 * d) = 2 * (j * d) /\ (j + 1) * (2 * d) = 2 * (j * d) + 2 * d
    OBVIOUS
  <2>3. j * d \in Int /\ 2 * d \in Int /\ 2 * d > 0
    OBVIOUS
  <2>4. j * (2 * d) <= 2 * m * x + d /\ 2 * m * x + d < (j + 1) * (2 * d) /\ 2 * m * x + d \in Int
    BY <2>2, <2>3
  <2>5. (2 * m * x + d) \div (2 * d) = j
    BY <2>3, <2>4, DivUnique
  <2>. QED
    BY <2>1, <2>5
<1>2. 72 * (d - n) = (72 - k) * d /\ 144 * n = (2 * k) * d /\ 144 * (d - n) = (144 - 2 * k) * d
  OBVIOUS
<1>. QED
  BY <1>1, <1>2

\* Two complementary quotients miss the whole by one at most.
LEMMA DivComplement ==
  ASSUME NEW a \in Int, NEW z \in Int, NEW d \in Int, d > 0
  PROVE  (z * d - a) \div d \in {z - a \div d - 1, z - a \div d}
<1>. DEFINE q == a \div d
            r == a % d
<1>1. q \in Int /\ r \in 0 .. d - 1 /\ a = q * d + r
  OBVIOUS
<1>. HIDE DEF q, r
<1>2. CASE r = 0
  <2>1. z * d - a = (z - q) * d
    BY <1>1, <1>2
  <2>. QED
    BY <1>1, <2>1, DivExact DEF q
<1>3. CASE r > 0
  <2>. DEFINE b == z * d - a
              s == z - q - 1
  <2>1. b = s * d + (d - r) /\ b \in Int /\ s \in Int /\ s * d \in Int /\ (s + 1) * d = s * d + d
    BY <1>1
  <2>. HIDE DEF b, s
  <2>2. s * d <= b /\ b < (s + 1) * d
    BY <1>1, <1>3, <2>1
  <2>3. b \div d = s
    BY <2>1, <2>2, DivUnique
  <2>. QED
    BY <2>3 DEF b, s, q
<1>. QED
  BY <1>1, <1>2, <1>3

\* Where the table is exact, what a law has still to rise at T is what it has
\* risen at 1 - T, up to one unit of rounding.
LEMMA EvalMirror ==
  ASSUME NEW l \in Laws, NEW d \in Int, d > 0, NEW n \in 0 .. d, (HalfTurn * n) % d = 0
  PROVE  LET y(x) == EvalSide(l, [n |-> x, d |-> d], 0).y
         IN  y(n) \in Int /\ y(d - n) \in {Unit - y(n) - 1, Unit - y(n), Unit - y(n) + 1}
<1>. DEFINE y(x) == EvalSide(l, [n |-> x, d |-> d], 0).y
            T(x) == [n |-> x, d |-> d]
<1>1. CASE n = 0
  <2>1. y(0) = 0 /\ y(d) = Unit
    BY EvalStart, EvalEnd
  <2>2. d - n = d
    BY <1>1
  <2>. HIDE DEF y
  <2>3. y(n) \in Int /\ y(d - n) \in {Unit - y(n) - 1, Unit - y(n), Unit - y(n) + 1}
    BY <1>1, <2>1, <2>2 DEF Unit
  <2>. QED
    BY <2>3 DEF y
<1>2. CASE n = d
  <2>1. y(0) = 0 /\ y(d) = Unit
    BY EvalStart, EvalEnd
  <2>2. d - n = 0
    BY <1>2
  <2>. HIDE DEF y
  <2>3. y(n) \in Int /\ y(d - n) \in {Unit - y(n) - 1, Unit - y(n), Unit - y(n) + 1}
    BY <1>2, <2>1, <2>2 DEF Unit
  <2>. QED
    BY <2>3 DEF y
<1>3. CASE n \in 1 .. d - 1
  <2>. DEFINE k == (72 * n) \div d
  <2>1. 72 * n = k * d /\ k \in Int
    <3>. DEFINE a == 72 * n
    <3>1. a \in Int /\ a % d = 0
      BY DEF HalfTurn
    <3>. HIDE DEF a
    <3>2. a = (a \div d) * d /\ a \div d \in Int
      BY <3>1
    <3>. QED
      BY <3>2 DEF a
  <2>. HIDE DEF k
  <2>2. k \in 0 .. 72
    <3>1. 0 <= k * d /\ k * d <= 72 * d
      BY <1>3, <2>1
    <3>. QED
      BY <2>1, <3>1
  <2>3. Clamp(T(n)) = T(n) /\ Clamp(T(d - n)) = T(d - n)
    BY <1>3 DEF Clamp
  <2>4. /\ T(n).n = n /\ T(n).d = d /\ T(d - n).n = d - n /\ T(d - n).d = d
        /\ Steps(72, T(n)) = k /\ Steps(72, T(d - n)) = 72 - k
        /\ Steps(144, T(n)) = 2 * k /\ Steps(144, T(d - n)) = 144 - 2 * k
    <3>1. n \in Int
      BY <1>3
    <3>. QED
      BY <2>1, <3>1, StepsMirror
  <2>. HIDE DEF T
  <2>5. /\ l = "cosine"    => y(n) = evalCosine(T(n)).y /\ y(d - n) = evalCosine(T(d - n)).y
        /\ l = "cycloid"   => y(n) = evalCycloid(T(n)).y /\ y(d - n) = evalCycloid(T(d - n)).y
        /\ l = "parabolic" => y(n) = evalParabolic(T(n), 0).y /\ y(d - n) = evalParabolic(T(d - n), 0).y
    <3>1. y(n) = EvalSide(l, T(n), 0).y /\ y(d - n) = EvalSide(l, T(d - n), 0).y
      BY DEF T
    <3>. HIDE DEF y
    <3>. QED
      BY <2>3, <3>1 DEF EvalSide
  <2>. DEFINE u == y(n)
              v == y(d - n)
  <2>. HIDE DEF y
  <2>6. CASE l = "cosine"
    <3>. DEFINE C == Sin(36 + k)
    <3>1. C \in Int /\ Sin(144 - (36 + k)) = -C
      BY <2>2, SinOpposite
    <3>2. 72 - k + 36 = 144 - (36 + k) /\ k + 36 = 36 + k
      BY <2>2
    <3>3. Cos(k) = C /\ Cos(72 - k) = -C
      BY <3>1, <3>2 DEF Cos, HalfTurn
    <3>. HIDE DEF C
    <3>4. u = (1000 - C) \div 2 /\ v = (1000 + C) \div 2
      <4>1. u = (Unit - Cos(k)) \div 2 /\ v = (Unit - Cos(72 - k)) \div 2
        BY <2>4, <2>5, <2>6 DEF evalCosine, HalfTurn
      <4>2. 1000 - (-C) = 1000 + C
        BY <3>1
      <4>. QED
        BY <3>3, <4>1, <4>2 DEF Unit
    <3>. HIDE DEF u, v
    <3>5. u \in Int /\ v \in {1000 - u - 1, 1000 - u, 1000 - u + 1}
      BY <3>1, <3>4
    <3>. QED
      BY <3>5 DEF u, v, y, Unit
  <2>7. CASE l = "cycloid"
    <3>. DEFINE S == Sin(2 * k)
                s == Quot(1000 * S, 6284)
                a == 1000 * n
    <3>1. S \in Int /\ Sin(144 - 2 * k) = -S
      BY <2>2, SinOpposite
    <3>. HIDE DEF S
    <3>2. s \in Int /\ Quot(1000 * (-S), 6284) = -s
      BY <3>1 DEF Quot, Sgn, Abs
    <3>. HIDE DEF s
    <3>3. u = a \div d - s /\ v = (1000 * (d - n)) \div d + s
      <4>1. /\ u = (Unit * n) \div d - Quot(Unit * S, 2 * Pi)
            /\ v = (Unit * (d - n)) \div d - Quot(Unit * (-S), 2 * Pi)
        <5>1. 2 * HalfTurn = 144
          BY DEF HalfTurn
        <5>. QED
          BY <2>4, <2>5, <2>7, <3>1, <5>1 DEF evalCycloid, S
      <4>2. Unit = 1000 /\ 2 * Pi = 6284
        BY DEF Unit, Pi
      <4>3. (1000 * (d - n)) \div d \in Int
        BY <1>3
      <4>4. (1000 * (d - n)) \div d - (-s) = (1000 * (d - n)) \div d + s
        BY <3>2, <4>3
      <4>5. u = a \div d - Quot(1000 * S, 6284) /\ v = (1000 * (d - n)) \div d - Quot(1000 * (-S), 6284)
        BY <4>1, <4>2
      <4>. QED
        BY <3>2, <4>4, <4>5 DEF s
    <3>4. 1000 * (d - n) = 1000 * d - a /\ a \in Int
      BY <1>3
    <3>. HIDE DEF a
    <3>5. (1000 * d - a) \div d \in {1000 - a \div d - 1, 1000 - a \div d}
      BY <3>4, DivComplement
    <3>6. a \div d \in Int
      BY <3>4
    <3>. HIDE DEF u, v
    <3>7. u \in Int /\ v \in {1000 - u - 1, 1000 - u, 1000 - u + 1}
      BY <3>2, <3>3, <3>4, <3>5, <3>6
    <3>. QED
      BY <3>7 DEF u, v, y, Unit
  <2>8. CASE l = "parabolic"
    <3>. DEFINE z(x) == (2 * 1000 * x * x) \div (d * d)
    <3>1. /\ 2 * n <= d => u = z(n)
          /\ 2 * n > d  => u = 1000 - z(d - n)
          /\ 2 * n >= d => v = z(d - n)
          /\ 2 * n < d  => v = 1000 - z(n)
      <4>1. n \in Int /\ d - (d - n) = n
        BY <1>3
      <4>2. /\ 2 * n <= d <=> 2 * n < d \/ (2 * n = d /\ 0 <= 0)
            /\ 2 * n >= d <=> 2 * (d - n) < d \/ (2 * (d - n) = d /\ 0 <= 0)
        BY <4>1
      <4>3. evalParabolic(T(n), 0).y = IF 2 * n <= d THEN z(n) ELSE 1000 - z(d - n)
        BY <2>4, <4>1, <4>2 DEF evalParabolic, Unit
      <4>4. evalParabolic(T(d - n), 0).y = IF 2 * n >= d THEN z(d - n) ELSE 1000 - z(n)
        <5>. DEFINE x == d - n
        <5>1. x \in Int /\ d - x = n /\ T(x).n = x /\ T(x).d = d /\ (2 * n >= d <=> 2 * x <= d)
          BY <2>4, <4>1
        <5>2. 2 * x <= d <=> 2 * x < d \/ (2 * x = d /\ 0 <= 0)
          BY <5>1
        <5>. HIDE DEF x
        <5>3. evalParabolic(T(x), 0).y = IF 2 * x <= d THEN z(x) ELSE 1000 - z(d - x)
          BY <5>1, <5>2 DEF evalParabolic, Unit
        <5>. HIDE DEF z
        <5>4. evalParabolic(T(x), 0).y = IF 2 * n >= d THEN z(x) ELSE 1000 - z(n)
          BY <5>1, <5>3
        <5>. QED
          BY <5>4 DEF x
      <4>. HIDE DEF z
      <4>. QED
        BY <2>5, <2>8, <4>1, <4>3, <4>4
    <3>2. z(n) \in Int /\ z(d - n) \in Int
      <4>1. d * d \in Int /\ d * d > 0 /\ 2 * 1000 * n * n \in Int /\ 2 * 1000 * (d - n) * (d - n) \in Int
        BY <1>3
      <4>. QED
        BY <4>1
    <3>3. 2 * n = d => z(n) = 500 /\ z(d - n) = 500
      <4>. SUFFICES ASSUME 2 * n = d
                    PROVE  z(n) = 500 /\ z(d - n) = 500
        OBVIOUS
      <4>1. d - n = n /\ n \in Int
        BY <1>3
      <4>2. 2 * 1000 * n * n = 500 * (d * d) /\ d * d \in Int /\ d * d > 0
        BY <4>1
      <4>3. (500 * (d * d)) \div (d * d) = 500
        BY <4>2, DivExact
      <4>. QED
        BY <4>1, <4>2, <4>3
    <3>. HIDE DEF z, u, v
    <3>4. u \in Int /\ v \in {1000 - u - 1, 1000 - u, 1000 - u + 1}
      BY <1>3, <3>1, <3>2, <3>3
    <3>. QED
      BY <3>4 DEF u, v, y, Unit
  <2>. QED
    BY <2>6, <2>7, <2>8 DEF Laws
<1>. QED
  BY <1>1, <1>2, <1>3

\* The displacement is an integer.
LEMMA EvalInt ==
  ASSUME NEW l \in Laws, NEW n \in Int, NEW d \in Int, d > 0, NEW side \in Int
  PROVE  EvalSide(l, [n |-> n, d |-> d], side).y \in Int
<1>. DEFINE T == Clamp([n |-> n, d |-> d])
            a == T.n
            b == T.d
            p == Steps(72, T)
            q == Steps(144, T)
            w == EvalSide(l, [n |-> n, d |-> d], side)
<1>1. a \in Int /\ b \in Int /\ b > 0 /\ 0 <= a /\ a <= b
  BY DEF Clamp
<1>2. p = (2 * 72 * a + b) \div (2 * b) /\ q = (2 * 144 * a + b) \div (2 * b)
  BY DEF Steps
<1>3. /\ l = "cosine" => w.y = (1000 - Cos(p)) \div 2
      /\ l = "cycloid" => w.y = (1000 * a) \div b - Quot(1000 * Sin(q), 6284)
  BY DEF EvalSide, evalCosine, evalCycloid, Unit, HalfTurn, Pi
<1>4. l = "parabolic" => \E k \in {a, b - a} :
        w.y \in {(2 * 1000 * k * k) \div (b * b), 1000 - (2 * 1000 * k * k) \div (b * b)}
  BY DEF EvalSide, evalParabolic, Unit
<1>. HIDE DEF T, a, b, w
<1>5. \A x \in Int : \A y \in Int : y > 0 => x \div y \in Int
  OBVIOUS
<1>6. p \in Int /\ q \in Int
  <2>1. 2 * 72 * a + b \in Int /\ 2 * 144 * a + b \in Int /\ 2 * b \in Int /\ 2 * b > 0
    BY <1>1
  <2>. QED
    BY <1>2, <1>5, <2>1
<1>. HIDE DEF p, q
<1>7. CASE l = "cosine"
  <2>1. Cos(p) \in Int
    BY <1>6, SinBounded DEF Cos, HalfTurn
  <2>. QED
    BY <1>3, <1>7, <2>1 DEF w
<1>8. CASE l = "cycloid"
  <2>1. Sin(q) \in Int
    BY <1>6, SinBounded
  <2>2. \A x \in Int : Quot(x, 6284) \in Int
    BY DEF Quot, Sgn, Abs
  <2>3. 1000 * Sin(q) \in Int
    BY <2>1
  <2>4. Quot(1000 * Sin(q), 6284) \in Int /\ (1000 * a) \div b \in Int
    BY <1>1, <2>2, <2>3
  <2>. QED
    BY <1>3, <1>8, <2>4 DEF w
<1>9. CASE l = "parabolic"
  <2>1. \A k \in Int : (2 * 1000 * k * k) \div (b * b) \in Int
    <3>1. b * b \in Int /\ b * b > 0 /\ \A k \in Int : 2 * 1000 * k * k \in Int
      BY <1>1
    <3>. QED
      BY <1>5, <3>1
  <2>2. PICK k \in {a, b - a} :
          w.y \in {(2 * 1000 * k * k) \div (b * b), 1000 - (2 * 1000 * k * k) \div (b * b)}
    BY <1>4, <1>9
  <2>3. k \in Int
    BY <1>1
  <2>4. (2 * 1000 * k * k) \div (b * b) \in Int
    BY <2>1, <2>3
  <2>. QED
    BY <2>2, <2>4 DEF w
<1>. QED
  BY <1>7, <1>8, <1>9 DEF Laws

\* Before its start a segment has not moved.
LEMMA EvalBefore ==
  ASSUME NEW l \in Laws, NEW d \in Int, d > 0, NEW n \in Int, n <= 0, NEW side \in Int
  PROVE  EvalSide(l, [n |-> n, d |-> d], side).y = 0
<1>1. Clamp([n |-> n, d |-> d]) = Clamp([n |-> 0, d |-> d])
  BY DEF Clamp
<1>2. EvalSide(l, [n |-> n, d |-> d], side) = EvalSide(l, [n |-> 0, d |-> d], side)
  BY <1>1, Zenon DEF EvalSide
<1>. QED
  BY <1>2, EvalStart
=============================================================================
