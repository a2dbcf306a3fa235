---------------------------- MODULE RoundingProofs ----------------------------
(***************************************************************************)
(* Proofs about the float64 arithmetic of Kinematics: ulp is defined for   *)
(* every angle there is and grows with it, fl moves a value by half of it  *)
(* at most, and leaves alone what fits in the significant bits.            *)
(***************************************************************************)
EXTENDS Kinematics, LawProofs, WellFoundedInduction

-----------------------------------------------------------------------------
(* Powers of two. *)

\* A set of naturals that is not empty has a least element.
LEMMA LeastNatural ==
  ASSUME NEW T, T \subseteq Nat, T # {}
  PROVE  \E x \in T : \A y \in T : x <= y
<1>1. PICK R : R = {p \in Nat \X Nat : p[1] < p[2]}
  OBVIOUS
<1>2. R = OpToRel(<, Nat)
  BY <1>1, Zenon DEF OpToRel
<1>3. IsWellFoundedOn(R, Nat)
  BY <1>2, NatLessThanWellFounded, Zenon
<1>4. PICK x \in T : \A y \in T : ~(<<y, x>> \in R)
  BY <1>3, WFMin
<1>5. \A y \in T : x \in Nat /\ y \in Nat /\ ~(y < x)
  BY <1>1, <1>4
<1>6. \A y \in T : x <= y
  BY <1>5
<1>. QED
  BY <1>6

\* The powers of two and what Prec and MaxExp make of them.
LEMMA Powers ==
  /\ Prec \in Nat \ {0} /\ MaxExp \in Nat \ {0}
  /\ \A k \in 0 .. MaxExp : 2^k \in Nat \ {0}
  /\ \A k \in 0 .. MaxExp : k # 0 => k - 1 \in 0 .. MaxExp /\ 2^k = 2 * 2^(k - 1)
  /\ 2^Prec \in Nat \ {0} /\ 2^(Prec - 1) \in Nat \ {0} /\ 2^Prec = 2 * 2^(Prec - 1)
<1>1. Prec \in Nat \ {0} /\ MaxExp \in Nat \ {0}
  BY KinematicsAssumption
<1>2. \A k \in 0 .. MaxExp : 2^k \in Nat \ {0}
  BY <1>1, PowersOfTwo
<1>3. ASSUME NEW k \in 0 .. MaxExp, k # 0
      PROVE  k - 1 \in 0 .. MaxExp /\ 2^k = 2 * 2^(k - 1)
  <2>1. k - 1 \in 0 .. MaxExp /\ k - 1 \in 0 .. Prec + MaxExp /\ (k - 1) + 1 = k
    BY <1>1, <1>3
  <2>2. 2^((k - 1) + 1) = 2 * 2^(k - 1)
    BY <2>1, PowersOfTwo
  <2>. QED
    BY <2>1, <2>2
<1>4. 2^Prec \in Nat \ {0} /\ 2^(Prec - 1) \in Nat \ {0} /\ 2^Prec = 2 * 2^(Prec - 1)
  <2>1. Prec - 1 \in 0 .. Prec + MaxExp /\ Prec \in 0 .. Prec + MaxExp /\ (Prec - 1) + 1 = Prec
    BY <1>1
  <2>2. 2^Prec \in Nat \ {0} /\ 2^(Prec - 1) \in Nat \ {0} /\ 2^((Prec - 1) + 1) = 2 * 2^(Prec - 1)
    BY <2>1, PowersOfTwo
  <2>. QED
    BY <2>1, <2>2
<1>. QED
  BY <1>1, <1>2, <1>3, <1>4

\* A larger exponent at least doubles the power.
LEMMA PowersGrow ==
  ASSUME NEW m \in 0 .. MaxExp, NEW k \in 0 .. MaxExp, m < k
  PROVE  2 * 2^m <= 2^k
<1>. DEFINE p(j) == 2^j
            T == {j \in 0 .. MaxExp : m < j /\ ~(2 * p(m) <= p(j))}
<1>1. /\ \A j \in 0 .. MaxExp : p(j) \in Nat \ {0}
      /\ \A j \in 0 .. MaxExp : j # 0 => j - 1 \in 0 .. MaxExp /\ p(j) = 2 * p(j - 1)
  BY Powers
<1>. HIDE DEF p
<1>2. T = {}
  <2>. SUFFICES ASSUME T # {}
                PROVE  FALSE
    OBVIOUS
  <2>0. T \subseteq Nat
    BY Powers
  <2>1. PICK j \in T : \A i \in T : j <= i
    <3>. HIDE DEF T
    <3>. QED
      BY <2>0, LeastNatural
  <2>2. j \in 0 .. MaxExp /\ j # 0 /\ m < j /\ ~(2 * p(m) <= p(j))
    BY <2>1
  <2>3. j - 1 \in 0 .. MaxExp /\ p(j) = 2 * p(j - 1)
    BY <1>1, <2>2
  <2>4. CASE j - 1 = m
    BY <1>1, <2>2, <2>3, <2>4
  <2>5. CASE m < j - 1
    <3>1. j - 1 \notin T
      BY <2>1, <2>2
    <3>2. 2 * p(m) <= p(j - 1)
      BY <2>3, <2>5, <3>1
    <3>. QED
      BY <1>1, <2>2, <2>3, <3>2
  <2>. QED
    BY <2>2, <2>4, <2>5
<1>3. 2 * p(m) <= p(k)
  BY <1>2
<1>. QED
  BY <1>3 DEF p

-----------------------------------------------------------------------------
(* ulp. *)

\* Up to the largest exponent there is a unit for which x has Prec significant
\* bits, and ulp finds it.
LEMMA UlpIs ==
  ASSUME NEW x \in Nat, x < 2^MaxExp * 2^Prec
  PROVE  \E k \in 0 .. MaxExp : /\ ulp(x) = 2^k /\ x < 2^k * 2^Prec
                                /\ ulp(x) = 1 \/ x >= 2^k * 2^(Prec - 1)
<1>. DEFINE P == 2^Prec
            Q == 2^(Prec - 1)
            p(j) == 2^j
            U == {p(k) : k \in 0 .. MaxExp}
            test(u) == x < u * P /\ (u = 1 \/ x >= u * Q)
            T == {j \in 0 .. MaxExp : x < p(j) * P}
<1>1. /\ \A j \in 0 .. MaxExp : p(j) \in Nat \ {0}
      /\ \A j \in 0 .. MaxExp : j # 0 => j - 1 \in 0 .. MaxExp /\ p(j) = 2 * p(j - 1)
      /\ P \in Nat \ {0} /\ Q \in Nat \ {0} /\ P = 2 * Q /\ MaxExp \in Nat
  BY Powers
<1>2. p(0) = 1
  OBVIOUS
<1>3. x < p(MaxExp) * P
  OBVIOUS
<1>4. ulp(x) = CHOOSE u \in U : test(u)
  BY Zenon DEF ulp
<1>. HIDE DEF P, Q, p
<1>5. T \subseteq Nat /\ MaxExp \in T
  BY <1>1, <1>3
<1>6. PICK k \in T : \A i \in T : k <= i
  <2>. HIDE DEF T
  <2>. QED
    BY <1>5, LeastNatural
<1>7. k \in 0 .. MaxExp /\ x < p(k) * P
  BY <1>6
<1>8. p(k) = 1 \/ x >= p(k) * Q
  <2>1. CASE k = 0
    BY <1>2, <2>1
  <2>2. CASE k # 0
    <3>1. k - 1 \in 0 .. MaxExp /\ p(k) = 2 * p(k - 1)
      BY <1>1, <1>7, <2>2
    <3>2. k - 1 \notin T
      BY <1>6, <1>7
    <3>3. x >= p(k - 1) * P
      BY <1>1, <3>1, <3>2
    <3>4. p(k - 1) * P = p(k) * Q
      BY <1>1, <3>1
    <3>. QED
      BY <3>3, <3>4
  <2>. QED
    BY <2>1, <2>2
<1>9. p(k) \in U /\ test(p(k))
  BY <1>7, <1>8
<1>. HIDE DEF test, U
<1>10. ulp(x) \in U /\ test(ulp(x))
  BY <1>4, <1>9, Zenon
<1>11. PICK m \in 0 .. MaxExp : ulp(x) = p(m)
  BY <1>10 DEF U
<1>. QED
  BY <1>10, <1>11 DEF test, p, P, Q

\* A larger angle has no smaller unit.
LEMMA UlpGrows ==
  ASSUME NEW x \in Nat, NEW y \in Nat, x <= y, y < 2^MaxExp * 2^Prec
  PROVE  ulp(x) <= ulp(y)
<1>. DEFINE P == 2^Prec
            Q == 2^(Prec - 1)
            p(j) == 2^j
<1>1. /\ \A j \in 0 .. MaxExp : p(j) \in Nat \ {0}
      /\ P \in Nat \ {0} /\ Q \in Nat \ {0} /\ P = 2 * Q /\ MaxExp \in Nat \ {0}
  BY Powers
<1>2. y < p(MaxExp) * P
  OBVIOUS
<1>3. \A z \in Nat : z < p(MaxExp) * P =>
        \E k \in 0 .. MaxExp : ulp(z) = p(k) /\ z < p(k) * P /\ (ulp(z) = 1 \/ z >= p(k) * Q)
  BY UlpIs
<1>4. \A m, k \in 0 .. MaxExp : m < k => 2 * p(m) <= p(k)
  BY PowersGrow
<1>. HIDE DEF p, P, Q
<1>5. x < p(MaxExp) * P
  <2>1. p(MaxExp) * P \in Nat
    BY <1>1
  <2>. QED
    BY <1>2, <2>1
<1>6. PICK a \in 0 .. MaxExp : ulp(x) = p(a) /\ (ulp(x) = 1 \/ x >= p(a) * Q)
  BY <1>3, <1>5
<1>7. PICK b \in 0 .. MaxExp : ulp(y) = p(b) /\ y < p(b) * P
  BY <1>2, <1>3
<1>8. p(a) \in Nat /\ p(b) \in Nat /\ p(b) >= 1
  BY <1>1
<1>9. CASE b < a
  <2>1. CASE ulp(x) = 1
    BY <1>6, <1>7, <1>8, <2>1
  <2>2. CASE x >= p(a) * Q
    <3>1. 2 * p(b) <= p(a)
      BY <1>4, <1>9
    <3>2. p(a) * Q >= (2 * p(b)) * Q
      BY <1>1, <1>8, <3>1
    <3>3. (2 * p(b)) * Q = p(b) * P
      BY <1>1, <1>8
    <3>4. p(a) * Q \in Int /\ p(b) * P \in Int
      BY <1>1, <1>8
    <3>5. FALSE
      BY <1>7, <2>2, <3>2, <3>3, <3>4
    <3>. QED
      BY <3>5
  <2>. QED
    BY <1>6, <2>1, <2>2
<1>10. CASE a = b
  BY <1>6, <1>7, <1>8, <1>10
<1>11. CASE a < b
  BY <1>4, <1>6, <1>7, <1>8, <1>11
<1>. QED
  BY <1>9, <1>10, <1>11

-----------------------------------------------------------------------------
(* fl. *)

\* Rounding to the nearest moves a value by half a unit at most, and never to
\* less than half of it.
THEOREM FlNear ==
  ASSUME NEW x \in Nat, x < 2^MaxExp * 2^Prec
  PROVE  /\ fl(x) \in Nat /\ ulp(x) \in Nat \ {0}
         /\ 2 * fl(x) <= 2 * x + ulp(x)
         /\ 2 * x <= 2 * fl(x) + ulp(x)
         /\ x <= 2 * fl(x)
<1>. DEFINE u == ulp(x)
            q == x \div u
            r == x % u
            up == 2 * r > u \/ (2 * r = u /\ q % 2 = 1)
            m == IF up THEN q + 1 ELSE q
<1>1. PICK k \in 0 .. MaxExp : u = 2^k /\ (u = 1 \/ x >= 2^k * 2^(Prec - 1))
  BY UlpIs
<1>2. u \in Nat \ {0} /\ (u = 1 \/ x >= u)
  <2>1. 2^k \in Nat \ {0} /\ 2^(Prec - 1) \in Nat \ {0}
    BY Powers
  <2>2. \A a, b \in Nat \ {0} : a * b >= a
    OBVIOUS
  <2>3. 2^k * 2^(Prec - 1) >= 2^k /\ 2^k * 2^(Prec - 1) \in Int
    BY <2>1, <2>2
  <2>. QED
    BY <1>1, <2>1, <2>3
<1>3. fl(x) = u * m
  BY Zenon DEF fl
<1>. HIDE DEF u
<1>4. q \in Nat /\ r \in Nat /\ r < u /\ x = u * q + r
  BY <1>2
<1>5. u = 1 => r = 0
  BY <1>2, <1>4
<1>6. u # 1 => q >= 1
  BY <1>2, <1>4
<1>. HIDE DEF q, r
<1>7. u * q \in Nat /\ u * (q + 1) = u * q + u /\ (q >= 1 => u * q >= u)
  BY <1>2, <1>4
<1>8. \/ fl(x) = u * q /\ 2 * r <= u
      \/ fl(x) = u * q + u /\ 2 * r >= u
  <2>1. CASE up
    BY <1>2, <1>3, <1>4, <1>7, <2>1
  <2>2. CASE ~up
    BY <1>2, <1>3, <1>4, <2>2
  <2>. QED
    BY <2>1, <2>2
<1>9. PICK a \in Nat : a = u * q
  BY <1>7
<1>10. x = a + r /\ (u = 1 \/ a >= u)
  BY <1>4, <1>6, <1>7, <1>9
<1>11. (fl(x) = a /\ 2 * r <= u) \/ (fl(x) = a + u /\ 2 * r >= u)
  BY <1>8, <1>9
<1>12. fl(x) \in Nat /\ 2 * fl(x) <= 2 * x + u /\ 2 * x <= 2 * fl(x) + u
  BY <1>2, <1>4, <1>10, <1>11
<1>13. x <= 2 * fl(x)
  BY <1>2, <1>4, <1>5, <1>10, <1>11
<1>. QED
  BY <1>2, <1>12, <1>13 DEF u

\* A whole number of units that fits in the significant bits is a float: ulp
\* finds 1, and rounding changes nothing.
LEMMA FitsIsExact ==
  ASSUME NEW x \in Nat, x < 2^Prec
  PROVE  fl(x) = x
<1>. DEFINE P == 2^Prec
            Q == 2^(Prec - 1)
            T(u) == x < u * P /\ (u = 1 \/ x >= u * Q)
            U == {2^k : k \in 0 .. MaxExp}
<1>1. MaxExp \in Nat \ {0}
  BY Powers
<1>2. P \in Nat /\ Q \in Nat \ {0} /\ P = 2 * Q
  BY Powers
<1>3. 1 \in U
  <2>1. 2^0 = 1 /\ 0 \in 0 .. MaxExp
    BY <1>1
  <2>. QED
    BY <2>1
<1>4. ASSUME NEW k \in 0 .. MaxExp, k # 0
      PROVE  2^k \in Nat /\ 2^k >= 2
  <2>1. 2^(k - 1) \in Nat \ {0} /\ 2^k = 2 * 2^(k - 1)
    BY <1>4, Powers
  <2>. QED
    BY <2>1
<1>5. x < P
  OBVIOUS
<1>. HIDE DEF P, Q
<1>6. T(1)
  BY <1>2, <1>5
<1>7. \A u \in U : T(u) => u = 1
  <2>. SUFFICES ASSUME NEW k \in 0 .. MaxExp, T(2^k)
                PROVE  2^k = 1
    OBVIOUS
  <2>1. CASE k = 0
    BY <2>1
  <2>2. CASE k # 0
    <3>1. PICK u \in Nat : u = 2^k /\ u >= 2
      BY <1>4, <2>2
    <3>2. u * Q >= 2 * Q
      BY <1>2, <3>1
    <3>. QED
      BY <1>2, <1>5, <3>1, <3>2
  <2>. QED
    BY <2>1, <2>2
<1>8. ulp(x) = CHOOSE u \in U : T(u)
  BY Zenon DEF ulp, P, Q
<1>. HIDE DEF T, U
<1>9. ulp(x) = 1
  BY <1>3, <1>6, <1>7, <1>8, Zenon
<1>. QED
  BY <1>9 DEF fl
=============================================================================
