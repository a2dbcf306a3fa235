------------------------------ MODULE FileNames ------------------------------
(***************************************************************************)
(* The names of the archive and temporary files, and the order of          *)
(* sort.Strings. Module Store files a record under the pair of its kind    *)
(* and its name, and keeps temporary files apart from archive files; here  *)
(* the names are the strings of the code, as sequences of character codes, *)
(* and the theorems say that those pairs can stand for them.               *)
(***************************************************************************)
EXTENDS Integers, Sequences, SequenceTheorems, TLAPS

Chars == Nat

Kinds == {"recipe", "cycle"}

\* "recipe_" and "cycle_".
Prefix(kind) == IF kind = "recipe" THEN <<114, 101, 99, 105, 112, 101, 95>>
                                   ELSE <<99, 121, 99, 108, 101, 95>>

\* ".json" and ".tmp".
Json == <<46, 106, 115, 111, 110>>
Tmp  == <<46, 116, 109, 112>>

\* The archive file of a record, and its temporary file.
FileName(kind, name) == Prefix(kind) \o name \o Json
TmpName(kind, name) == FileName(kind, name) \o Tmp

\* filepath.Glob with the pattern prefix + "*.json".
Matches(kind, file) ==
  LET p == Len(Prefix(kind))
  IN  /\ Len(file) >= p + Len(Json)
      /\ \A i \in 1 .. p : file[i] = Prefix(kind)[i]
      /\ \A i \in 1 .. Len(Json) : file[Len(file) - Len(Json) + i] = Json[i]

\* The order of sort.Strings: byte by byte, a string before its extensions.
Before(s, t) ==
  \E k \in 0 .. Len(s) :
    /\ k < Len(t)
    /\ \A i \in 1 .. k : s[i] = t[i]
    /\ k < Len(s) => s[k + 1] < t[k + 1]

-----------------------------------------------------------------------------
\* The characters of a concatenation (ConcatProperties, at this alphabet).
LEMMA ConcatChars ==
  ASSUME NEW s \in Seq(Chars), NEW t \in Seq(Chars)
  PROVE  /\ s \o t \in Seq(Chars)
         /\ Len(s \o t) = Len(s) + Len(t)
         /\ \A i \in 1 .. Len(s) : (s \o t)[i] = s[i]
         /\ \A i \in 1 .. Len(t) : (s \o t)[Len(s) + i] = t[i]
<1>1. /\ s \o t \in Seq(Chars) /\ Len(s \o t) = Len(s) + Len(t)
      /\ \A i \in 1 .. Len(s) + Len(t) :
           (s \o t)[i] = IF i <= Len(s) THEN s[i] ELSE t[i - Len(s)]
  BY ConcatProperties, Zenon
<1>2. Len(s) \in Nat /\ Len(t) \in Nat
  OBVIOUS
<1>. QED
  BY <1>1, <1>2

\* The fixed parts of the names are strings, of these lengths; the kinds differ
\* in their first character, the suffixes in their last.
LEMMA FixedChars ==
  /\ Json \in Seq(Chars) /\ Len(Json) = 5 /\ Json[5] = 110
  /\ Tmp \in Seq(Chars) /\ Len(Tmp) = 4 /\ Tmp[4] = 112
  /\ \A kind : Prefix(kind) \in Seq(Chars) /\ Len(Prefix(kind)) \in Nat \ {0}
  /\ \A k1, k2 \in Kinds : Prefix(k1)[1] = Prefix(k2)[1] => k1 = k2
<1>1. Json \in Seq(Chars) /\ Len(Json) = 5 /\ Json[5] = 110
  BY DEF Json, Chars
<1>2. Tmp \in Seq(Chars) /\ Len(Tmp) = 4 /\ Tmp[4] = 112
  BY DEF Tmp, Chars
<1>3. \A kind : Prefix(kind) \in Seq(Chars) /\ Len(Prefix(kind)) \in Nat \ {0}
  BY DEF Prefix, Chars
<1>4. \A k1, k2 \in Kinds : Prefix(k1)[1] = Prefix(k2)[1] => k1 = k2
  BY DEF Prefix, Kinds
<1>. QED
  BY <1>1, <1>2, <1>3, <1>4

\* The characters of an archive file's name.
LEMMA FileNameChars ==
  ASSUME NEW kind, NEW n \in Seq(Chars)
  PROVE  /\ FileName(kind, n) \in Seq(Chars)
         /\ Len(FileName(kind, n)) = Len(Prefix(kind)) + Len(n) + 5
         /\ \A i \in 1 .. Len(Prefix(kind)) : FileName(kind, n)[i] = Prefix(kind)[i]
         /\ \A i \in 1 .. Len(n) : FileName(kind, n)[Len(Prefix(kind)) + i] = n[i]
         /\ \A i \in 1 .. 5 : FileName(kind, n)[Len(Prefix(kind)) + Len(n) + i] = Json[i]
<1>. DEFINE p == Prefix(kind)
            g == p \o n
            f == g \o Json
<1>1. p \in Seq(Chars) /\ Len(p) \in Nat \ {0} /\ Len(n) \in Nat
  BY FixedChars
<1>2. Json \in Seq(Chars) /\ Len(Json) = 5 /\ Json[5] = 110
  BY FixedChars
<1>3. f = FileName(kind, n)
  BY DEF FileName
<1>. HIDE DEF p
<1>4. /\ g \in Seq(Chars) /\ Len(g) = Len(p) + Len(n)
      /\ \A i \in 1 .. Len(p) : g[i] = p[i]
      /\ \A i \in 1 .. Len(n) : g[Len(p) + i] = n[i]
  BY <1>1, ConcatChars
<1>. HIDE DEF g
<1>5. /\ f \in Seq(Chars) /\ Len(f) = Len(g) + Len(Json)
      /\ \A i \in 1 .. Len(g) : f[i] = g[i]
      /\ \A i \in 1 .. Len(Json) : f[Len(g) + i] = Json[i]
  <2>1. g \in Seq(Chars) /\ Json \in Seq(Chars)
    BY <1>2, <1>4
  <2>. QED
    BY <2>1, ConcatChars
<1>. HIDE DEF f
<1>6. Len(f) = Len(p) + Len(n) + 5
  BY <1>1, <1>2, <1>4, <1>5
<1>7. \A i \in 1 .. Len(p) : f[i] = p[i]
  <2>. TAKE i \in 1 .. Len(p)
  <2>1. i \in 1 .. Len(g)
    BY <1>1, <1>4
  <2>. QED
    BY <1>4, <1>5, <2>1
<1>8. \A i \in 1 .. Len(n) : f[Len(p) + i] = n[i]
  <2>. TAKE i \in 1 .. Len(n)
  <2>1. Len(p) + i \in 1 .. Len(g)
    BY <1>1, <1>4
  <2>. QED
    BY <1>4, <1>5, <2>1
<1>9. \A i \in 1 .. 5 : f[Len(p) + Len(n) + i] = Json[i]
  BY <1>2, <1>4, <1>5
<1>. QED
  BY <1>3, <1>5, <1>6, <1>7, <1>8, <1>9, Zenon DEF p

\* A temporary file's name ends as no archive file's name does.
LEMMA TmpNameChars ==
  ASSUME NEW kind, NEW n \in Seq(Chars)
  PROVE  Len(TmpName(kind, n)) \in Nat /\ TmpName(kind, n)[Len(TmpName(kind, n))] = 112
<1>1. FileName(kind, n) \in Seq(Chars) /\ Tmp \in Seq(Chars) /\ Len(Tmp) = 4 /\ Tmp[4] = 112
  BY FileNameChars, FixedChars
<1>. DEFINE f == FileName(kind, n)
<1>2. TmpName(kind, n) = f \o Tmp
  BY DEF TmpName
<1>. HIDE DEF f
<1>3. f \in Seq(Chars)
  BY <1>1 DEF f
<1>4. /\ Len(f \o Tmp) = Len(f) + Len(Tmp)
      /\ \A i \in 1 .. Len(Tmp) : (f \o Tmp)[Len(f) + i] = Tmp[i]
  <2>1. Tmp \in Seq(Chars)
    BY <1>1
  <2>. QED
    BY <1>3, <2>1, ConcatChars
<1>5. 4 \in 1 .. Len(Tmp)
  BY <1>1
<1>6. Len(f \o Tmp) \in Nat /\ (f \o Tmp)[Len(f \o Tmp)] = 112
  BY <1>1, <1>3, <1>4, <1>5
<1>. QED
  BY <1>2, <1>6

\* Two records share an archive file (SaveRecipe, SaveCycle) only if they have
\* the same kind and the same name: no name, with or without dots, makes one
\* file of two records.
THEOREM FilesDistinct ==
  ASSUME NEW k1 \in Kinds, NEW k2 \in Kinds, NEW n1 \in Seq(Chars), NEW n2 \in Seq(Chars),
         FileName(k1, n1) = FileName(k2, n2)
  PROVE  k1 = k2 /\ n1 = n2
<1>1. k1 = k2
  <2>1. Prefix(k1)[1] = Prefix(k2)[1]
    <3>0. 1 \in 1 .. Len(Prefix(k1)) /\ 1 \in 1 .. Len(Prefix(k2))
      BY FixedChars
    <3>1. FileName(k1, n1)[1] = Prefix(k1)[1]
      BY <3>0, FileNameChars
    <3>2. FileName(k2, n2)[1] = Prefix(k2)[1]
      BY <3>0, FileNameChars
    <3>. QED
      BY <3>1, <3>2
  <2>2. \A a, b \in Kinds : Prefix(a)[1] = Prefix(b)[1] => a = b
    BY FixedChars
  <2>. QED
    BY <2>1, <2>2, Zenon
<1>2. Len(n1) = Len(n2)
  <2>1. Len(Prefix(k1)) + Len(n1) + 5 = Len(Prefix(k1)) + Len(n2) + 5
    <3>1. Len(FileName(k1, n1)) = Len(Prefix(k1)) + Len(n1) + 5
      BY FileNameChars
    <3>2. Len(FileName(k2, n2)) = Len(Prefix(k2)) + Len(n2) + 5
      BY FileNameChars
    <3>. QED
      BY <1>1, <3>1, <3>2, Zenon
  <2>2. Len(Prefix(k1)) \in Nat /\ Len(n1) \in Nat /\ Len(n2) \in Nat
    BY FixedChars
  <2>. QED
    BY <2>1, <2>2
<1>3. \A i \in 1 .. Len(n1) : n1[i] = n2[i]
  <2>. TAKE i \in 1 .. Len(n1)
  <2>1. FileName(k1, n1)[Len(Prefix(k1)) + i] = n1[i]
    BY FileNameChars
  <2>2. FileName(k2, n2)[Len(Prefix(k2)) + i] = n2[i]
    <3>1. \A j \in 1 .. Len(n2) : FileName(k2, n2)[Len(Prefix(k2)) + j] = n2[j]
      BY FileNameChars
    <3>2. i \in 1 .. Len(n2)
      BY <1>2
    <3>. QED
      BY <3>1, <3>2, Zenon
  <2>. QED
    BY <1>1, <2>1, <2>2
<1>4. n1 = n2
  BY <1>2, <1>3
<1>. QED
  BY <1>1, <1>4

\* The pattern of a list (ListRecipes, ListCycles) finds the files of its own
\* kind, all of them, and of no other, whatever the names.
THEOREM ListsOwnKind ==
  ASSUME NEW k1 \in Kinds, NEW k2 \in Kinds, NEW n \in Seq(Chars)
  PROVE  Matches(k2, FileName(k1, n)) <=> k1 = k2
<1>. DEFINE f == FileName(k1, n)
            p == Prefix(k1)
<1>1. /\ Len(f) = Len(p) + Len(n) + 5
      /\ \A i \in 1 .. Len(p) : f[i] = p[i]
      /\ \A i \in 1 .. 5 : f[Len(p) + Len(n) + i] = Json[i]
  BY FileNameChars
<1>2. Len(Json) = 5 /\ Len(p) \in Nat \ {0} /\ Len(Prefix(k2)) \in Nat \ {0} /\ Len(n) \in Nat
  BY FixedChars
<1>3. ASSUME Matches(k2, f)
      PROVE  k1 = k2
  <2>1. f[1] = Prefix(k2)[1] /\ f[1] = Prefix(k1)[1]
    BY <1>1, <1>2, <1>3 DEF Matches
  <2>2. Prefix(k1)[1] = Prefix(k2)[1]
    BY <2>1
  <2>3. \A a, b \in Kinds : Prefix(a)[1] = Prefix(b)[1] => a = b
    BY FixedChars
  <2>. QED
    BY <2>2, <2>3, Zenon
<1>. HIDE DEF f, p
<1>4. ASSUME k1 = k2
      PROVE  Matches(k2, f)
  <2>1. p = Prefix(k2)
    BY <1>4 DEF p
  <2>2. Len(f) >= Len(p) + Len(Json)
    BY <1>1, <1>2
  <2>3. \A i \in 1 .. Len(Json) : f[Len(f) - Len(Json) + i] = Json[i]
    <3>. TAKE i \in 1 .. Len(Json)
    <3>1. Len(f) - Len(Json) + i = Len(p) + Len(n) + i /\ i \in 1 .. 5
      BY <1>1, <1>2
    <3>. QED
      BY <1>1, <3>1
  <2>. QED
    BY <1>1, <2>1, <2>2, <2>3 DEF Matches
<1>. QED
  BY <1>3, <1>4 DEF f

\* No temporary file of atomicWriteJSON is the archive file of a record, and no
\* list reads one, whatever the names: one that ends in ".json" or in ".tmp"
\* included.
THEOREM TmpNeverListed ==
  ASSUME NEW k1 \in Kinds, NEW k2 \in Kinds, NEW n \in Seq(Chars)
  PROVE  /\ ~Matches(k2, TmpName(k1, n))
         /\ \A m \in Seq(Chars) : TmpName(k1, n) # FileName(k2, m)
<1>. DEFINE t == TmpName(k1, n)
<1>0. SUFFICES ~Matches(k2, t)
  <2>1. \A m \in Seq(Chars) : Matches(k2, FileName(k2, m))
    BY ListsOwnKind
  <2>. HIDE DEF t
  <2>. QED
    BY <1>0, <2>1, Zenon DEF t
<1>. SUFFICES ASSUME Matches(k2, t)
              PROVE  FALSE
  OBVIOUS
<1>1. t[Len(t)] = 112 /\ Len(t) \in Nat
  BY TmpNameChars
<1>2. Len(Json) = 5 /\ Json[5] = 110
  BY FixedChars
<1>3. \A i \in 1 .. Len(Json) : t[Len(t) - Len(Json) + i] = Json[i]
  BY DEF Matches
<1>. HIDE DEF t
<1>. QED
  BY <1>1, <1>2, <1>3

\* t continues s with a "." or a character before it: of those checkName allows,
\* with a dot or a hyphen.
ContinuesLow(s, t) ==
  Len(s) < Len(t) /\ (\A i \in 1 .. Len(s) : s[i] = t[i]) /\ t[Len(s) + 1] <= Json[1]

\* ListRecipes and ListCycles sort the paths, and their answer is in the order of
\* the names all the same, unless one name continues another with a dot or a
\* hyphen: the run that shows a list out of order has the only kind of example
\* there is.
THEOREM SortedByName ==
  ASSUME NEW kind, NEW n1 \in Seq(Chars), NEW n2 \in Seq(Chars),
         ~ContinuesLow(n1, n2), ~ContinuesLow(n2, n1)
  PROVE  Before(FileName(kind, n1), FileName(kind, n2)) <=> Before(n1, n2)
<1>. DEFINE p == Len(Prefix(kind))
            f1 == FileName(kind, n1)
            f2 == FileName(kind, n2)
            a == Len(n1)
            b == Len(n2)
<1>1. p \in Nat /\ a \in Nat /\ b \in Nat /\ Json[1] = 46
  BY FixedChars DEF Json
<1>2. /\ Len(f1) = p + a + 5 /\ Len(f2) = p + b + 5
      /\ \A i \in 1 .. p : f1[i] = f2[i]
      /\ \A i \in 1 .. a : f1[p + i] = n1[i]
      /\ \A i \in 1 .. b : f2[p + i] = n2[i]
      /\ \A i \in 1 .. 5 : f1[p + a + i] = Json[i]
      /\ \A i \in 1 .. 5 : f2[p + b + i] = Json[i]
  BY FileNameChars
<1>3. f1[p + a + 1] = 46 /\ f2[p + b + 1] = 46
  BY <1>1, <1>2
<1>4. /\ \A i \in 1 .. a : n1[i] \in Nat
      /\ \A i \in 1 .. b : n2[i] \in Nat
  BY DEF Chars
<1>5. /\ a < b /\ (\A i \in 1 .. a : n1[i] = n2[i]) => ~(n2[a + 1] <= 46)
      /\ b < a /\ (\A i \in 1 .. b : n2[i] = n1[i]) => ~(n1[b + 1] <= 46)
  BY <1>1 DEF ContinuesLow
<1>. HIDE DEF f1, f2, p, a, b
<1>6. ASSUME Before(n1, n2) PROVE Before(f1, f2)
  <2>1. PICK k \in 0 .. a : k < b /\ (\A i \in 1 .. k : n1[i] = n2[i]) /\ (k < a => n1[k + 1] < n2[k + 1])
    BY <1>6 DEF Before, a, b
  <2>2. \A i \in 1 .. p + k : f1[i] = f2[i]
    <3>. TAKE i \in 1 .. p + k
    <3>1. CASE i <= p
      BY <1>1, <1>2, <3>1
    <3>2. CASE i > p
      <4>1. i - p \in 1 .. k /\ i - p \in 1 .. a /\ i - p \in 1 .. b /\ p + (i - p) = i
        BY <1>1, <2>1, <3>2
      <4>2. f1[p + (i - p)] = n1[i - p] /\ f2[p + (i - p)] = n2[i - p] /\ n1[i - p] = n2[i - p]
        BY <1>2, <2>1, <4>1
      <4>. QED
        BY <4>1, <4>2
    <3>. QED
      BY <1>1, <3>1, <3>2
  <2>3. f2[p + (k + 1)] = n2[k + 1] /\ k + 1 \in 1 .. b
    BY <1>1, <1>2, <2>1
  <2>4. f1[p + (k + 1)] < f2[p + (k + 1)]
    <3>1. CASE k < a
      <4>1. f1[p + (k + 1)] = n1[k + 1]
        BY <1>1, <1>2, <2>1, <3>1
      <4>. QED
        BY <2>1, <2>3, <3>1, <4>1
    <3>2. CASE k = a
      <4>1. ~(n2[a + 1] <= 46) /\ n2[a + 1] \in Nat
        BY <1>1, <1>4, <1>5, <2>1, <2>3, <3>2
      <4>2. p + (k + 1) = p + a + 1
        BY <1>1, <3>2
      <4>. QED
        BY <1>3, <2>3, <3>2, <4>1, <4>2
    <3>. QED
      BY <1>1, <2>1, <3>1, <3>2
  <2>5. /\ p + k \in 0 .. Len(f1) /\ p + k < Len(f2) /\ (p + k) + 1 = p + (k + 1)
    BY <1>1, <1>2, <2>1
  <2>. QED
    BY <2>2, <2>4, <2>5 DEF Before
<1>7. ASSUME Before(f1, f2) PROVE Before(n1, n2)
  <2>1. PICK m \in 0 .. Len(f1) :
          m < Len(f2) /\ (\A i \in 1 .. m : f1[i] = f2[i]) /\ (m < Len(f1) => f1[m + 1] < f2[m + 1])
    BY <1>7 DEF Before
  <2>2. m >= p
    <3>1. ASSUME m < p PROVE FALSE
      <4>1. m + 1 \in 1 .. p /\ m < Len(f1)
        BY <1>1, <1>2, <2>1, <3>1
      <4>2. f1[m + 1] = f2[m + 1] /\ f1[m + 1] < f2[m + 1]
        BY <1>2, <2>1, <4>1
      <4>3. f1[m + 1] \in Nat
        <5>1. f1 \in Seq(Chars) /\ m + 1 \in 1 .. Len(f1)
          BY <1>1, <1>2, <4>1, FileNameChars DEF f1
        <5>. QED
          BY <5>1 DEF Chars
      <4>. QED
        BY <4>2, <4>3
    <3>. QED
      BY <1>1, <2>1, <3>1
  <2>. DEFINE k == m - p
  <2>3. k \in Nat /\ m = p + k
    BY <1>1, <1>2, <2>1, <2>2
  <2>. HIDE DEF k
  <2>4. \A i \in Nat : i \in 1 .. k /\ i <= a /\ i <= b => n1[i] = n2[i]
    <3>. TAKE i \in Nat
    <3>. HAVE i \in 1 .. k /\ i <= a /\ i <= b
    <3>1. p + i \in 1 .. m /\ i \in 1 .. a /\ i \in 1 .. b
      BY <1>1, <2>3
    <3>. QED
      BY <1>2, <2>1, <3>1
  <2>5. CASE k < a /\ k < b
    <3>1. k + 1 \in 1 .. a /\ k + 1 \in 1 .. b /\ m < Len(f1) /\ m + 1 = p + (k + 1)
      BY <1>1, <1>2, <2>3, <2>5
    <3>2. n1[k + 1] < n2[k + 1]
      BY <1>2, <2>1, <3>1
    <3>3. k \in 0 .. a /\ \A i \in 1 .. k : n1[i] = n2[i]
      BY <1>1, <2>3, <2>4, <2>5
    <3>. QED
      BY <2>5, <3>2, <3>3 DEF Before, a, b
  <2>6. CASE k >= a /\ a < b
    <3>1. a \in 0 .. a /\ a < b /\ ~(a < a) /\ \A i \in 1 .. a : n1[i] = n2[i]
      BY <1>1, <2>3, <2>4, <2>6
    <3>. QED
      BY <3>1 DEF Before, a, b
  <2>7. CASE k >= b /\ b < a
    <3>1. \A i \in 1 .. b : n2[i] = n1[i]
      BY <1>1, <2>3, <2>4, <2>7
    <3>2. b + 1 \in 1 .. a /\ n1[b + 1] \in Nat /\ ~(n1[b + 1] <= 46)
      BY <1>1, <1>4, <1>5, <2>7, <3>1
    <3>3. f1[p + b + 1] = n1[b + 1] /\ f2[p + b + 1] = 46
      <4>1. p + (b + 1) = p + b + 1
        BY <1>1
      <4>. QED
        BY <1>2, <1>3, <3>2, <4>1
    <3>4. CASE k = b
      <4>1. m + 1 = p + b + 1 /\ m < Len(f1)
        BY <1>1, <1>2, <2>3, <2>7, <3>4
      <4>. QED
        BY <2>1, <3>2, <3>3, <4>1
    <3>5. CASE k > b
      <4>1. p + b + 1 \in 1 .. m
        BY <1>1, <2>3, <3>5
      <4>. QED
        BY <2>1, <3>2, <3>3, <4>1
    <3>. QED
      BY <1>1, <2>3, <2>7, <3>4, <3>5
  <2>8. CASE k >= a /\ a = b
    <3>1. \A i \in 1 .. a : n1[i] = n2[i]
      BY <1>1, <2>3, <2>4, <2>8
    <3>2. n1 = n2
      BY <2>8, <3>1 DEF a, b
    <3>3. f1 = f2
      BY <3>2 DEF f1, f2
    <3>4. m < Len(f1) /\ f1[m + 1] < f1[m + 1] /\ m + 1 \in 1 .. Len(f1)
      BY <1>1, <1>2, <2>1, <3>3
    <3>5. f1[m + 1] \in Nat
      <4>1. f1 \in Seq(Chars)
        BY FileNameChars DEF f1
      <4>. QED
        BY <3>4, <4>1 DEF Chars
    <3>. QED
      BY <3>4, <3>5
  <2>. QED
    BY <1>1, <2>3, <2>5, <2>6, <2>7, <2>8
<1>. QED
  BY <1>6, <1>7 DEF f1, f2
=============================================================================
