----------------------------- MODULE MutexProofs -----------------------------
(***************************************************************************)
(* Proofs about Mutex, for every finite set of goroutines, any number of   *)
(* calls and any number of spins: that the lock excludes, that the runtime *)
(* never finds its word inconsistent, that it is the abstract lock, and    *)
(* that no wake-up is lost. SafeInv carries the first three; the last      *)
(* needs the rest of the inductive invariant too, who will wake whom.      *)
(***************************************************************************)
EXTENDS Mutex, FiniteSetTheorems, TLAPS

-----------------------------------------------------------------------------
(* The state word. *)

Bit(w, flag) == IF Has(w, flag) THEN 1 ELSE 0

\* The flags and the count are the binary digits of the word ...
LEMMA Digits ==
  ASSUME NEW w \in Nat
  PROVE  /\ Bit(w, mutexLocked) \in {0, 1} /\ Bit(w, mutexWoken) \in {0, 1}
         /\ Bit(w, mutexStarving) \in {0, 1} /\ Waiters(w) \in Nat
         /\ w = Bit(w, mutexLocked) + 2 * Bit(w, mutexWoken) + 4 * Bit(w, mutexStarving)
                  + 8 * Waiters(w)
BY DEF Bit, Has, Waiters, mutexLocked, mutexWoken, mutexStarving, mutexWaiter

Word(l, k, s, n) == l + 2 * k + 4 * s + 8 * n

\* ... and the word that is put together from such digits has these digits.
LEMMA FromDigits ==
  ASSUME NEW l \in {0, 1}, NEW k \in {0, 1}, NEW s \in {0, 1}, NEW n \in Nat
  PROVE  /\ Word(l, k, s, n) \in Nat
         /\ Has(Word(l, k, s, n), mutexLocked) <=> l = 1
         /\ Has(Word(l, k, s, n), mutexWoken) <=> k = 1
         /\ Has(Word(l, k, s, n), mutexStarving) <=> s = 1
         /\ Waiters(Word(l, k, s, n)) = n
BY DEF Word, Has, Waiters, mutexLocked, mutexWoken, mutexStarving, mutexWaiter

\* The word 0, and the word of a lock nobody waits for.
LEMMA Zero ==
  /\ ~Has(0, mutexLocked) /\ ~Has(0, mutexWoken) /\ ~Has(0, mutexStarving) /\ Waiters(0) = 0
  /\ mutexLocked \in Nat /\ Has(mutexLocked, mutexLocked) /\ ~Has(mutexLocked, mutexWoken)
  /\ ~Has(mutexLocked, mutexStarving) /\ Waiters(mutexLocked) = 0
BY DEF Has, Waiters, mutexLocked, mutexWoken, mutexStarving, mutexWaiter

\* Setting the woken flag, as a spinning goroutine does, changes nothing else.
LEMMA SetWoken ==
  ASSUME NEW w \in Nat, ~Has(w, mutexWoken)
  PROVE  /\ w + mutexWoken \in Nat
         /\ Has(w + mutexWoken, mutexWoken)
         /\ Has(w + mutexWoken, mutexLocked) <=> Has(w, mutexLocked)
         /\ Has(w + mutexWoken, mutexStarving) <=> Has(w, mutexStarving)
         /\ Waiters(w + mutexWoken) = Waiters(w)
BY DEF Has, Waiters, mutexLocked, mutexWoken, mutexStarving, mutexWaiter

\* Clearing the locked bit, as Unlock does first, changes nothing else.
LEMMA ClearLocked ==
  ASSUME NEW w \in Nat, Has(w, mutexLocked)
  PROVE  /\ w - mutexLocked \in Nat
         /\ ~Has(w - mutexLocked, mutexLocked)
         /\ Has(w - mutexLocked, mutexWoken) <=> Has(w, mutexWoken)
         /\ Has(w - mutexLocked, mutexStarving) <=> Has(w, mutexStarving)
         /\ Waiters(w - mutexLocked) = Waiters(w)
BY DEF Has, Waiters, mutexLocked, mutexWoken, mutexStarving, mutexWaiter

\* The right to wake one waiter, taken from a word without flags.
LEMMA WakeWord ==
  ASSUME NEW w \in Nat, w % mutexWaiter = 0, Waiters(w) # 0
  PROVE  LET v == w - mutexWaiter + mutexWoken
         IN  /\ ~Has(w, mutexLocked) /\ ~Has(w, mutexWoken) /\ ~Has(w, mutexStarving)
             /\ v \in Nat /\ Waiters(v) = Waiters(w) - 1
             /\ ~Has(v, mutexLocked) /\ Has(v, mutexWoken) /\ ~Has(v, mutexStarving)
BY DEF Has, Waiters, mutexLocked, mutexWoken, mutexStarving, mutexWaiter

\* The lock taken by the waiter it was handed to.
LEMMA OwnWord ==
  ASSUME NEW w \in Nat, ~Has(w, mutexLocked), Has(w, mutexStarving), Waiters(w) # 0,
         NEW x \in {0, mutexStarving}
  PROVE  LET v == w + mutexLocked - mutexWaiter - x
         IN  /\ v \in Nat /\ Waiters(v) = Waiters(w) - 1
             /\ Has(v, mutexLocked) /\ (Has(v, mutexWoken) <=> Has(w, mutexWoken))
             /\ Has(v, mutexStarving) <=> x = 0
BY DEF Has, Waiters, mutexLocked, mutexWoken, mutexStarving, mutexWaiter

\* What lockSlow makes of the word it has read.
LEMMA WantedWord ==
  ASSUME NEW l \in Locals, l.awoke => Has(l.old, mutexWoken)
  PROVE  /\ Wanted(l) \in Nat
         /\ Has(Wanted(l), mutexLocked) <=> Free(l.old) \/ Has(l.old, mutexLocked)
         /\ Has(Wanted(l), mutexWoken) <=> Has(l.old, mutexWoken) /\ ~l.awoke
         /\ Has(Wanted(l), mutexStarving)
              <=> Has(l.old, mutexStarving) \/ (l.starving /\ Has(l.old, mutexLocked))
         /\ Waiters(Wanted(l)) = Waiters(l.old) + (IF Free(l.old) THEN 0 ELSE 1)
<1>. DEFINE w == l.old
            starves == l.starving /\ Has(w, mutexLocked) /\ ~Has(w, mutexStarving)
<1>1. w \in Nat
  BY DEF Locals
<1>2. Wanted(l) = w + (IF Free(w) THEN 1 ELSE 8) + (IF starves THEN 4 ELSE 0) - (IF l.awoke THEN 2 ELSE 0)
  BY DEF Wanted, mutexLocked, mutexWaiter, mutexStarving, mutexWoken
<1>3. l.awoke => Has(w, mutexWoken)
  OBVIOUS
<1>4. Has(w, mutexStarving) \/ (l.starving /\ Has(w, mutexLocked)) <=> Has(w, mutexStarving) \/ starves
  OBVIOUS
<1>5. starves => ~Has(w, mutexStarving) /\ ~Free(w)
  BY DEF Free
<1>. HIDE DEF w, starves
<1>6. /\ Waiters(w) \in Nat
      /\ w = (IF Has(w, mutexLocked) THEN 1 ELSE 0) + 2 * (IF Has(w, mutexWoken) THEN 1 ELSE 0)
               + 4 * (IF Has(w, mutexStarving) THEN 1 ELSE 0) + 8 * Waiters(w)
  BY <1>1, Digits DEF Bit
<1>. DEFINE locked == IF Free(w) \/ Has(w, mutexLocked) THEN 1 ELSE 0
            woken == IF Has(w, mutexWoken) /\ ~l.awoke THEN 1 ELSE 0
            starving == IF Has(w, mutexStarving) \/ starves THEN 1 ELSE 0
            waiters == Waiters(w) + (IF Free(w) THEN 0 ELSE 1)
<1>7. Wanted(l) = Word(locked, woken, starving, waiters)
  <2>1. CASE Free(w)
    BY <1>1, <1>2, <1>3, <1>5, <1>6, <2>1 DEF Free, Word
  <2>2. CASE ~Free(w)
    BY <1>1, <1>2, <1>3, <1>5, <1>6, <2>2 DEF Free, Word
  <2>. QED
    BY <2>1, <2>2
<1>t. locked \in {0, 1} /\ woken \in {0, 1} /\ starving \in {0, 1} /\ waiters \in Nat
  BY <1>6
<1>8. /\ locked = 1 <=> Free(w) \/ Has(w, mutexLocked)
      /\ woken = 1 <=> Has(w, mutexWoken) /\ ~l.awoke
      /\ starving = 1 <=> Has(w, mutexStarving) \/ starves
  BY <1>6
<1>9. waiters = Waiters(w) + (IF Free(w) THEN 0 ELSE 1)
  OBVIOUS
<1>. HIDE DEF locked, woken, starving, waiters
<1>10. /\ Wanted(l) \in Nat
       /\ Has(Wanted(l), mutexLocked) <=> locked = 1
       /\ Has(Wanted(l), mutexWoken) <=> woken = 1
       /\ Has(Wanted(l), mutexStarving) <=> starving = 1
       /\ Waiters(Wanted(l)) = waiters
  <2>. DEFINE v == Word(locked, woken, starving, waiters)
  <2>1. /\ v \in Nat
        /\ Has(v, mutexLocked) <=> locked = 1
        /\ Has(v, mutexWoken) <=> woken = 1
        /\ Has(v, mutexStarving) <=> starving = 1
        /\ Waiters(v) = waiters
    BY <1>t, FromDigits
  <2>. QED
    BY <1>7, <2>1, Zenon
<1>. QED
  BY <1>4, <1>8, <1>9, <1>10 DEF w

-----------------------------------------------------------------------------
(* Counting goroutines. *)

\* Sets of goroutines that differ in g at most differ by one in their number.
LEMMA CountStep ==
  ASSUME NEW g \in Goroutines, NEW S \in SUBSET Goroutines, NEW T \in SUBSET Goroutines,
         S \ {g} = T \ {g}
  PROVE  /\ Cardinality(S) \in Nat /\ Cardinality(T) \in Nat
         /\ S = {} <=> Cardinality(S) = 0
         /\ T = {} <=> Cardinality(T) = 0
         /\ g \in S => Cardinality(S) >= 1
         /\ Cardinality(T) = Cardinality(S) + (IF g \in T THEN 1 ELSE 0) - (IF g \in S THEN 1 ELSE 0)
<1>1. IsFiniteSet(S) /\ IsFiniteSet(T)
  BY MutexAssumption, FS_Subset
<1>2. Cardinality(S) \in Nat /\ Cardinality(T) \in Nat
  BY <1>1, FS_CardinalityType
<1>3. (S = {} <=> Cardinality(S) = 0) /\ (T = {} <=> Cardinality(T) = 0)
  BY <1>1, FS_EmptySet
<1>4. CASE g \in S /\ g \notin T
  <2>1. T = S \ {g}
    BY <1>4
  <2>. QED
    BY <1>1, <1>2, <1>3, <1>4, <2>1, FS_RemoveElement
<1>5. CASE g \notin S /\ g \in T
  <2>1. S = T \ {g}
    BY <1>5
  <2>. QED
    BY <1>1, <1>2, <1>3, <1>5, <2>1, FS_RemoveElement
<1>6. CASE g \in S <=> g \in T
  <2>1. S = T
    BY <1>6
  <2>. QED
    BY <1>2, <1>3, <2>1
<1>. QED
  BY <1>4, <1>5, <1>6

\* A step of g alone.
OnlyMoves(g) ==
  \A h \in Goroutines \ {g} :
    pc'[h] = pc[h] /\ loc'[h] = loc[h] /\ (h \in ticket' <=> h \in ticket)

\* Such a step changes the three numbers by what becomes of g.
LEMMA Numbers ==
  ASSUME NEW g \in Goroutines, OnlyMoves(g)
  PROVE  /\ Cardinality(Sleepers) \in Nat /\ Cardinality(Carriers) \in Nat /\ Cardinality(Awake) \in Nat
         /\ Cardinality(Sleepers)' \in Nat /\ Cardinality(Carriers)' \in Nat /\ Cardinality(Awake)' \in Nat
         /\ g \in Sleepers => Cardinality(Sleepers) >= 1
         /\ g \in Carriers => Cardinality(Carriers) >= 1
         /\ g \in Awake => Cardinality(Awake) >= 1
         /\ Awake = {} <=> Cardinality(Awake) = 0
         /\ (Awake = {})' <=> Cardinality(Awake)' = 0
         /\ (Carriers = {})' <=> Cardinality(Carriers)' = 0
         /\ Cardinality(Sleepers)' = Cardinality(Sleepers)
              + (IF g \in Sleepers' THEN 1 ELSE 0) - (IF g \in Sleepers THEN 1 ELSE 0)
         /\ Cardinality(Carriers)' = Cardinality(Carriers)
              + (IF g \in Carriers' THEN 1 ELSE 0) - (IF g \in Carriers THEN 1 ELSE 0)
         /\ Cardinality(Awake)' = Cardinality(Awake)
              + (IF g \in Awake' THEN 1 ELSE 0) - (IF g \in Awake THEN 1 ELSE 0)
<1>1. /\ Sleepers \in SUBSET Goroutines /\ Sleepers' \in SUBSET Goroutines
      /\ Sleepers \ {g} = Sleepers' \ {g}
  BY DEF Sleepers, OnlyMoves
<1>2. /\ Carriers \in SUBSET Goroutines /\ Carriers' \in SUBSET Goroutines
      /\ Carriers \ {g} = Carriers' \ {g}
  BY DEF Carriers, OnlyMoves
<1>3. /\ Awake \in SUBSET Goroutines /\ Awake' \in SUBSET Goroutines
      /\ Awake \ {g} = Awake' \ {g}
  BY DEF Awake, OnlyMoves
<1>. QED
  BY <1>1, <1>2, <1>3, CountStep

-----------------------------------------------------------------------------
(* Facts that several steps need. *)

\* A call of Lock or Unlock starts with local variables of their types.
LEMMA NoLocalsType == NoLocals \in Locals /\ NoLocals.awoke = FALSE /\ NoLocals.starving = FALSE
BY DEF NoLocals, Locals

\* A step that leaves the semaphore's queue alone, of a goroutine that neither
\* sleeps nor is about to wake another.
LEMMA QueueSame ==
  ASSUME QueueInv, NEW g \in Goroutines, OnlyMoves(g), UNCHANGED <<queue, ticket>>,
         queue \in Seq(Goroutines), ticket \subseteq Goroutines,
         pc[g] \notin {"parked", "ready"}, pc'[g] # "rouse"
  PROVE  QueueInv'
<1>1. \A i \in 1 .. Len(queue) : queue[i] \in Goroutines
  OBVIOUS
<1>2. \A h \in Goroutines : h # g => pc'[h] = pc[h] /\ loc'[h] = loc[h]
  BY DEF OnlyMoves
<1>3. /\ \A i \in 1 .. Len(queue) : pc'[queue[i]] = "parked"
      /\ \A h \in ticket : pc'[h] = "ready"
  BY <1>1, <1>2 DEF QueueInv
<1>4. ASSUME NEW h \in Goroutines, pc'[h] = "rouse"
      PROVE  /\ loc'[h].next \in Goroutines /\ pc'[loc'[h].next] = "parked"
             /\ \A i \in 1 .. Len(queue) : queue[i] # loc'[h].next
             /\ \A k \in Goroutines : pc'[k] = "rouse" /\ loc'[k].next = loc'[h].next => k = h
  <2>1. h # g /\ pc[h] = "rouse" /\ loc'[h] = loc[h]
    BY <1>2, <1>4
  <2>. QED
    BY <1>2, <2>1 DEF QueueInv
<1>. QED
  BY <1>3, <1>4 DEF QueueInv

\* Every goroutine starts outside.
LEMMA InitSafeInv == Init => SafeInv
<1>. SUFFICES ASSUME Init PROVE SafeInv
  OBVIOUS
<1>1. TypeOK /\ NeverThrows
  BY DEF Init, TypeOK, NeverThrows, LockPcs, UnlockPcs
<1>2. LocalsInv /\ QueueInv
  BY NoLocalsType DEF Init, LocalsInv, QueueInv
<1>3. ~Has(word, mutexLocked) /\ ~Has(word, mutexWoken) /\ ~Has(word, mutexStarving) /\ Waiters(word) = 0
  BY Zero DEF Init
<1>4. Sleepers = {} /\ Carriers = {} /\ Awake = {}
  BY DEF Init, Sleepers, Carriers, Awake
<1>5. HeldInv /\ WakeInv /\ CountInv
  BY <1>3, <1>4, FS_EmptySet DEF Init, HeldInv, WakeInv, CountInv, Permits
<1>. QED
  BY <1>1, <1>2, <1>5 DEF SafeInv

-----------------------------------------------------------------------------
(* Lock. *)

\* The fast path takes a word that is 0, the slow path begins outside the
\* counts.
LEMMA LockSafeInv ==
  ASSUME SafeInv, NEW g \in Goroutines, Lock(g)
  PROVE  SafeInv'
<1>a. TypeOK /\ LocalsInv /\ HeldInv /\ WakeInv /\ CountInv /\ QueueInv /\ NeverThrows
  BY DEF SafeInv
<1>b. OnlyMoves(g) /\ pc[g] = "idle" /\ pc'[g] = (IF word = 0 THEN "held" ELSE "try")
  BY <1>a DEF OnlyMoves, Lock, Goto, TypeOK, LocalsInv
<1>c. /\ word' \in Nat
      /\ Has(word', mutexWoken) <=> Has(word, mutexWoken)
      /\ Has(word', mutexStarving) <=> Has(word, mutexStarving)
      /\ Waiters(word') = Waiters(word)
      /\ word # 0 => (Has(word', mutexLocked) <=> Has(word, mutexLocked))
      /\ word = 0 => Has(word', mutexLocked) /\ ~Has(word, mutexLocked) /\ ~Has(word, mutexStarving)
  <2>1. CASE word = 0
    BY <2>1, Zero DEF Lock
  <2>2. CASE word # 0
    BY <1>a, <2>2 DEF Lock, TypeOK
  <2>. QED
    BY <2>1, <2>2
<1>d. /\ g \notin Sleepers /\ g \notin Carriers /\ g \notin Awake
      /\ g \notin Sleepers' /\ g \notin Carriers' /\ g \notin Awake'
  BY <1>a, <1>b, NoLocalsType DEF Sleepers, Carriers, Awake, QueueInv, Lock, LocalsInv, Locals, NoLocals
<1>1. TypeOK' /\ NeverThrows'
  BY <1>a, <1>b, <1>c DEF TypeOK, NeverThrows, Lock, Goto, LockPcs, UnlockPcs
<1>2. LocalsInv'
  BY <1>a, <1>b, NoLocalsType DEF TypeOK, LocalsInv, Lock, Goto, Locals, NoLocals
<1>3. HeldInv'
  BY <1>a, <1>b, <1>c DEF HeldInv, OnlyMoves
<1>e. /\ Cardinality(Sleepers)' = Cardinality(Sleepers) /\ Permits' = Permits
      /\ Cardinality(Awake)' = Cardinality(Awake) /\ ((Awake = {})' <=> Awake = {})
  BY <1>b, <1>d, Numbers DEF Permits, Lock
<1>4. WakeInv' /\ CountInv'
  BY <1>a, <1>b, <1>c, <1>e DEF WakeInv, CountInv, OnlyMoves
<1>5. QueueInv'
  BY <1>a, <1>b, QueueSame DEF Lock, TypeOK
<1>. QED
  BY <1>1, <1>2, <1>3, <1>4, <1>5 DEF SafeInv

\* A goroutine that counts as awake has the woken flag set for it.
LEMMA AwakeHasFlag ==
  ASSUME SafeInv, NEW g \in Goroutines, pc[g] = "try", loc[g].awoke
  PROVE  /\ Has(word, mutexWoken) /\ ~Has(word, mutexStarving)
         /\ Permits = 0 /\ Cardinality(Awake) = 1
<1>1. g \in Awake /\ Awake \in SUBSET Goroutines /\ Carriers \in SUBSET Goroutines
  BY DEF Awake, Carriers
<1>2. Cardinality(Awake) \in Nat /\ Cardinality(Awake) >= 1 /\ Cardinality(Carriers) \in Nat
  BY <1>1, CountStep
<1>3. sema \in Nat
  BY DEF SafeInv, TypeOK
<1>4. Permits \in Nat
  BY <1>2, <1>3 DEF Permits
<1>5. ~Has(word, mutexStarving)
  BY <1>1 DEF SafeInv, WakeInv
<1>6. Permits + Cardinality(Awake) = (IF Has(word, mutexWoken) THEN 1 ELSE 0)
  BY <1>5 DEF SafeInv, WakeInv
<1>. QED
  BY <1>2, <1>4, <1>5, <1>6

\* A spinning goroutine that sets the woken flag becomes the one awake.
LEMMA SpinSafeInv ==
  ASSUME SafeInv, NEW g \in Goroutines, Spin(g)
  PROVE  SafeInv'
<1>. DEFINE sets == ~loc[g].awoke /\ ~Has(loc[g].old, mutexWoken) /\ Waiters(loc[g].old) # 0 /\ word = loc[g].old
<1>a. TypeOK /\ LocalsInv /\ HeldInv /\ WakeInv /\ CountInv /\ QueueInv /\ NeverThrows
  BY DEF SafeInv
<1>b. /\ OnlyMoves(g) /\ pc[g] = "try" /\ pc'[g] = "try" /\ pc' = pc
      /\ loc[g] \in Locals
      /\ loc' = [loc EXCEPT ![g] = [loc[g] EXCEPT !.awoke = @ \/ sets, !.iter = @ + 1, !.old = word']]
      /\ ~Has(loc[g].old, mutexStarving)
      /\ UNCHANGED <<sema, queue, ticket>>
  BY <1>a DEF OnlyMoves, Spin, Goto, TypeOK, LocalsInv
<1>c. /\ word' \in Nat
      /\ Has(word', mutexLocked) <=> Has(word, mutexLocked)
      /\ Has(word', mutexStarving) <=> Has(word, mutexStarving)
      /\ Waiters(word') = Waiters(word)
      /\ Has(word', mutexWoken) <=> Has(word, mutexWoken) \/ sets
      /\ sets => ~Has(word, mutexWoken) /\ ~Has(word, mutexStarving)
  <2>1. CASE sets
    <3>1. word' = word + mutexWoken /\ ~Has(word, mutexWoken) /\ word \in Nat
      BY <2>1, <1>a DEF Spin, TypeOK
    <3>. QED
      BY <2>1, <1>b, <3>1, SetWoken
  <2>2. CASE ~sets
    BY <1>a, <2>2 DEF Spin, TypeOK
  <2>. QED
    BY <2>1, <2>2
<1>. HIDE DEF sets
<1>d. /\ loc'[g] \in Locals /\ loc'[g].old = word' /\ (loc'[g].awoke <=> loc[g].awoke \/ sets)
      /\ loc'[g].starving = loc[g].starving
  <2>. DEFINE aw == loc[g].awoke \/ sets
  <2>1. loc'[g] = [loc[g] EXCEPT !.awoke = aw, !.iter = loc[g].iter + 1, !.old = word']
    BY <1>a, <1>b DEF LocalsInv
  <2>2. loc[g] \in Locals /\ word' \in Nat /\ aw \in BOOLEAN /\ loc[g].iter + 1 \in Nat
    BY <1>b, <1>c DEF Locals
  <2>3. aw <=> loc[g].awoke \/ sets
    OBVIOUS
  <2>. HIDE DEF aw
  <2>4. loc'[g] \in Locals /\ loc'[g].old = word' /\ loc'[g].awoke = aw /\ loc'[g].starving = loc[g].starving
    BY <2>1, <2>2 DEF Locals
  <2>. QED
    BY <2>3, <2>4
<1>1. TypeOK' /\ NeverThrows'
  BY <1>a, <1>b, <1>c DEF TypeOK, NeverThrows
<1>2. LocalsInv'
  <2>1. loc' \in [Goroutines -> Locals]
    BY <1>a, <1>b, <1>d DEF LocalsInv
  <2>2. loc'[g].awoke => Has(word', mutexWoken)
    BY <1>b, <1>c, <1>d, AwakeHasFlag
  <2>3. loc'[g].starving => loc'[g].awoke
    BY <1>a, <1>b, <1>d DEF LocalsInv
  <2>. QED
    BY <1>a, <1>b, <1>d, <2>1, <2>2, <2>3 DEF LocalsInv, OnlyMoves
<1>3. HeldInv'
  BY <1>a, <1>b, <1>c DEF HeldInv
<1>4. /\ Cardinality(Sleepers)' = Cardinality(Sleepers) /\ Permits' = Permits /\ Permits \in Nat
      /\ Cardinality(Awake) \in Nat
      /\ Cardinality(Awake)' = Cardinality(Awake) + (IF sets /\ ~loc[g].awoke THEN 1 ELSE 0)
      /\ ((Awake = {})' <=> Cardinality(Awake)' = 0) /\ (Awake = {} <=> Cardinality(Awake) = 0)
  <2>1. /\ g \notin Sleepers /\ g \notin Sleepers' /\ (g \in Carriers' <=> g \in Carriers)
        /\ (g \in Awake <=> loc[g].awoke) /\ (g \in Awake' <=> loc[g].awoke \/ sets)
    BY <1>b, <1>d DEF Sleepers, Carriers, Awake
  <2>2. Permits \in Nat /\ Permits' = Permits
    BY <1>a, <1>b, <2>1, Numbers DEF Permits, TypeOK
  <2>. QED
    BY <1>b, <2>1, <2>2, Numbers
<1>5. WakeInv' /\ CountInv'
  <2>1. sets => ~loc[g].awoke
    BY DEF sets
  <2>. QED
    BY <1>a, <1>b, <1>c, <1>4, <2>1 DEF WakeInv, CountInv
<1>6. QueueInv'
  BY <1>a, <1>b, QueueSame DEF TypeOK
<1>. QED
  BY <1>1, <1>2, <1>3, <1>5, <1>6 DEF SafeInv

\* A goroutine that has not won looks at the word again.
LEMMA RetrySafeInv ==
  ASSUME SafeInv, NEW g \in Goroutines, Try(g), word # loc[g].old
  PROVE  SafeInv'
<1>a. TypeOK /\ LocalsInv /\ HeldInv /\ WakeInv /\ CountInv /\ QueueInv /\ NeverThrows
  BY DEF SafeInv
<1>b. pc[g] = "try" /\ ~(loc[g].awoke /\ ~Has(loc[g].old, mutexWoken))
  BY <1>a DEF Try, Goto, LocalsInv
<1>c. pc'[g] = "try" /\ pc' = [pc EXCEPT ![g] = "try"] /\ UNCHANGED <<sema, queue, ticket>>
  BY <1>a, <1>b DEF Try, Goto, TypeOK
<1>d. loc' = [loc EXCEPT ![g].old = word] /\ word' = word
  BY <1>c DEF Try
<1>e. pc' = pc /\ word \in Nat /\ loc[g] \in Locals
  BY <1>a, <1>b, <1>c DEF TypeOK, LocalsInv
<1>f. /\ loc'[g] \in Locals /\ loc'[g].old = word
      /\ loc'[g].awoke = loc[g].awoke /\ loc'[g].starving = loc[g].starving
  <2>1. loc'[g] = [loc[g] EXCEPT !.old = word]
    BY <1>a, <1>d DEF LocalsInv
  <2>. QED
    BY <1>e, <2>1 DEF Locals
<1>g. OnlyMoves(g)
  BY <1>a, <1>c, <1>d, <1>e DEF OnlyMoves, LocalsInv
<1>1. TypeOK' /\ NeverThrows'
  BY <1>a, <1>c, <1>d, <1>e DEF TypeOK, NeverThrows
<1>2. LocalsInv'
  <2>1. loc' \in [Goroutines -> Locals]
    BY <1>a, <1>d, <1>f DEF LocalsInv
  <2>2. loc[g].awoke => Has(word, mutexWoken)
    BY <1>b, AwakeHasFlag
  <2>. QED
    BY <1>a, <1>b, <1>e, <1>f, <1>g, <2>1, <2>2 DEF LocalsInv, OnlyMoves
<1>3. HeldInv'
  BY <1>a, <1>d, <1>e DEF HeldInv
<1>4. Sleepers' = Sleepers /\ Carriers' = Carriers /\ Awake' = Awake
  BY <1>c, <1>e, <1>f, <1>g DEF Sleepers, Carriers, Awake, OnlyMoves
<1>5. WakeInv' /\ CountInv'
  BY <1>a, <1>c, <1>d, <1>e, <1>4 DEF WakeInv, CountInv, Permits
<1>6. QueueInv'
  BY <1>a, <1>b, <1>c, <1>g, QueueSame DEF TypeOK
<1>. QED
  BY <1>1, <1>2, <1>3, <1>5, <1>6 DEF SafeInv

\* The compare-and-swap succeeds: the goroutine has the lock, or is one more
\* waiter; it is not awake any longer, and if it has starved, nobody is.
LEMMA SwapSafeInv ==
  ASSUME SafeInv, NEW g \in Goroutines, Try(g), word = loc[g].old
  PROVE  SafeInv'
<1>. DEFINE l == loc[g]
<1>a. TypeOK /\ LocalsInv /\ HeldInv /\ WakeInv /\ CountInv /\ QueueInv /\ NeverThrows
  BY DEF SafeInv
<1>b. /\ pc[g] = "try" /\ l \in Locals /\ l.old = word
      /\ (l.awoke => Has(word, mutexWoken)) /\ (l.starving => l.awoke)
  BY <1>a DEF Try, Goto, LocalsInv
<1>c. pc' = [pc EXCEPT ![g] = IF Free(word) THEN "held" ELSE "acquire"] /\ UNCHANGED <<sema, queue, ticket>>
  BY <1>b DEF Try, Goto
<1>d. pc'[g] = (IF Free(word) THEN "held" ELSE "acquire")
  BY <1>a, <1>c DEF TypeOK
<1>e. word' = Wanted(l) /\ loc' = [loc EXCEPT ![g].lifo = l.waited, ![g].waited = TRUE]
  BY <1>d DEF Try
<1>f. /\ word' \in Nat
      /\ Has(word', mutexLocked) <=> Free(word) \/ Has(word, mutexLocked)
      /\ Has(word', mutexWoken) <=> Has(word, mutexWoken) /\ ~l.awoke
      /\ Has(word', mutexStarving) <=> Has(word, mutexStarving) \/ (l.starving /\ Has(word, mutexLocked))
      /\ Waiters(word') = Waiters(word) + (IF Free(word) THEN 0 ELSE 1)
  BY <1>b, <1>e, WantedWord
<1>g. loc' \in [Goroutines -> Locals] /\ OnlyMoves(g)
  <2>1. loc'[g] = [[l EXCEPT !.lifo = l.waited] EXCEPT !.waited = TRUE]
    BY <1>a, <1>e DEF LocalsInv
  <2>2. loc'[g] \in Locals
    BY <1>b, <2>1 DEF Locals
  <2>3. loc' \in [Goroutines -> Locals]
    BY <1>a, <1>e, <2>2 DEF LocalsInv
  <2>. QED
    BY <1>a, <1>c, <1>e, <2>3 DEF OnlyMoves, LocalsInv, TypeOK
<1>1. TypeOK' /\ NeverThrows'
  BY <1>a, <1>c, <1>d, <1>f DEF TypeOK, NeverThrows, LockPcs, UnlockPcs
<1>2. LocalsInv'
  BY <1>a, <1>d, <1>g DEF LocalsInv, OnlyMoves
<1>3. HeldInv'
  BY <1>a, <1>b, <1>d, <1>f, <1>g DEF HeldInv, OnlyMoves, Free
<1>4. /\ g \notin Sleepers /\ (g \in Sleepers' <=> ~Free(word))
      /\ g \notin Carriers /\ g \notin Carriers'
      /\ (g \in Awake <=> l.awoke) /\ g \notin Awake'
  BY <1>a, <1>b, <1>c, <1>d DEF Sleepers, Carriers, Awake, QueueInv
<1>. HIDE DEF l
<1>5. /\ Cardinality(Sleepers) \in Nat /\ Permits \in Nat /\ Permits' = Permits
      /\ Cardinality(Sleepers)' = Cardinality(Sleepers) + (IF Free(word) THEN 0 ELSE 1)
      /\ Cardinality(Awake) \in Nat
      /\ Cardinality(Awake)' = Cardinality(Awake) - (IF l.awoke THEN 1 ELSE 0)
      /\ ((Awake = {})' <=> Cardinality(Awake)' = 0) /\ (Awake = {} <=> Cardinality(Awake) = 0)
  <2>1. sema \in Nat /\ sema' = sema
    BY <1>a, <1>c DEF TypeOK
  <2>2. Permits \in Nat /\ Permits' = Permits
    BY <1>g, <1>4, <2>1, Numbers DEF Permits
  <2>. QED
    BY <1>g, <1>4, <2>2, Numbers
<1>6. l.awoke => Permits = 0 /\ Cardinality(Awake) = 1 /\ ~Has(word, mutexStarving)
  BY <1>b, AwakeHasFlag DEF l
<1>7. WakeInv'
  BY <1>a, <1>b, <1>d, <1>f, <1>g, <1>5, <1>6 DEF WakeInv, Free, OnlyMoves
<1>8. CountInv'
  <2>1. Waiters(word) \in Nat
    BY <1>a, Digits DEF TypeOK
  <2>. QED
    BY <1>a, <1>b, <1>f, <1>5, <1>6, <2>1 DEF CountInv
<1>9. QueueInv'
  BY <1>a, <1>b, <1>c, <1>d, <1>g, QueueSame DEF TypeOK
<1>. QED
  BY <1>1, <1>2, <1>3, <1>7, <1>8, <1>9 DEF SafeInv

-----------------------------------------------------------------------------
(* Back from the semaphore. *)

\* There is at most one wake-up under way. In starvation mode it carries the
\* lock, in normal mode the woken flag.
LEMMA OnePermit ==
  ASSUME SafeInv, NEW g \in Goroutines, g \in Carriers
  PROVE  /\ Permits = 1 /\ sema = 0 /\ Carriers = {g}
         /\ Has(word, mutexStarving) => ~Has(word, mutexLocked) /\ ~Has(word, mutexWoken)
         /\ ~Has(word, mutexStarving) => Has(word, mutexWoken) /\ Cardinality(Awake) = 0
<1>1. /\ Carriers \in SUBSET Goroutines /\ Awake \in SUBSET Goroutines
      /\ Carriers \ {g} \in SUBSET Goroutines
  BY DEF Awake, Carriers
<1>2. /\ Cardinality(Awake) \in Nat /\ Cardinality(Carriers) \in Nat /\ Cardinality(Carriers) >= 1
      /\ Cardinality(Carriers \ {g}) = Cardinality(Carriers) - 1
      /\ Carriers \ {g} = {} <=> Cardinality(Carriers \ {g}) = 0
  <2>. DEFINE Rest == Carriers \ {g}
  <2>1. Carriers \ {g} = Rest \ {g} /\ g \notin Rest /\ Rest \in SUBSET Goroutines
    BY <1>1
  <2>2. Cardinality(Awake) \in Nat
    BY <1>1, CountStep
  <2>. HIDE DEF Rest
  <2>3. /\ Cardinality(Carriers) \in Nat /\ Cardinality(Carriers) >= 1
        /\ Cardinality(Rest) = Cardinality(Carriers) - 1
        /\ Rest = {} <=> Cardinality(Rest) = 0
    BY <1>1, <2>1, CountStep
  <2>. QED
    BY <2>2, <2>3 DEF Rest
<1>3. sema \in Nat /\ WakeInv
  BY DEF SafeInv, TypeOK
<1>4. Permits \in Nat /\ Permits >= 1 /\ Permits = Cardinality(Carriers) + sema
  BY <1>2, <1>3 DEF Permits
<1>5. Permits = 1 /\ (Has(word, mutexStarving) => ~Has(word, mutexLocked) /\ ~Has(word, mutexWoken))
      /\ (~Has(word, mutexStarving) => Has(word, mutexWoken) /\ Cardinality(Awake) = 0)
  BY <1>2, <1>3, <1>4 DEF WakeInv
<1>6. sema = 0 /\ Cardinality(Carriers \ {g}) = 0
  BY <1>2, <1>3, <1>4, <1>5
<1>. QED
  BY <1>2, <1>5, <1>6

\* In normal mode the wake-up becomes a goroutine awake; in starvation mode the
\* lock is free, the woken flag clear and the goroutine counted: no throw.
LEMMA WakeSafeInv ==
  ASSUME SafeInv, NEW g \in Goroutines, Wake(g)
  PROVE  SafeInv'
<1>. DEFINE l == loc[g]
<1>a. TypeOK /\ LocalsInv /\ HeldInv /\ WakeInv /\ CountInv /\ QueueInv /\ NeverThrows
  BY DEF SafeInv
<1>b. pc[g] = "woken" /\ l \in Locals /\ UNCHANGED <<word, sema, queue, ticket>> /\ word \in Nat
  BY <1>a DEF Wake, Goto, LocalsInv, TypeOK
<1>c. g \in Carriers /\ g \in Sleepers /\ g \notin Awake
  BY <1>b DEF Carriers, Sleepers, Awake
<1>d. Has(word, mutexStarving) => Waiters(word) # 0
  <2>1. Sleepers \in SUBSET Goroutines
    BY DEF Sleepers
  <2>2. Cardinality(Sleepers) >= 1
    BY <1>c, <2>1, CountStep
  <2>. QED
    BY <1>a, <2>2 DEF CountInv
<1>e. pc' = [pc EXCEPT ![g] = IF Has(word, mutexStarving) THEN "own" ELSE "try"]
  BY <1>c, <1>d, OnePermit DEF Wake, Goto
<1>f. pc'[g] = (IF Has(word, mutexStarving) THEN "own" ELSE "try")
  BY <1>a, <1>e DEF TypeOK
<1>g. PICK late \in BOOLEAN :
        loc' = [loc EXCEPT ![g] =
                  IF Has(word, mutexStarving)
                  THEN [l EXCEPT !.starving = l.starving \/ late, !.old = word]
                  ELSE [[l EXCEPT !.starving = l.starving \/ late, !.old = word]
                          EXCEPT !.awoke = TRUE, !.iter = 0]]
  BY DEF Wake
<1>h. loc'[g] = IF Has(word, mutexStarving)
                THEN [l EXCEPT !.starving = l.starving \/ late, !.old = word]
                ELSE [[l EXCEPT !.starving = l.starving \/ late, !.old = word]
                        EXCEPT !.awoke = TRUE, !.iter = 0]
  BY <1>a, <1>g DEF LocalsInv
<1>i. /\ loc'[g] \in Locals /\ loc'[g].old = word
      /\ ~Has(word, mutexStarving) => loc'[g].awoke = TRUE
  <2>. DEFINE st == l.starving \/ late
  <2>1. st \in BOOLEAN
    OBVIOUS
  <2>. HIDE DEF st
  <2>2. CASE Has(word, mutexStarving)
    <3>1. loc'[g] = [l EXCEPT !.starving = st, !.old = word]
      BY <1>h, <2>2 DEF st
    <3>. QED
      BY <1>b, <2>1, <2>2, <3>1 DEF Locals
  <2>3. CASE ~Has(word, mutexStarving)
    <3>1. loc'[g] = [[l EXCEPT !.starving = st, !.old = word] EXCEPT !.awoke = TRUE, !.iter = 0]
      BY <1>h, <2>3 DEF st
    <3>. DEFINE m == [l EXCEPT !.starving = st, !.old = word]
    <3>2. m \in Locals /\ m.old = word
      BY <1>b, <2>1 DEF Locals
    <3>3. loc'[g] = [m EXCEPT !.awoke = TRUE, !.iter = 0]
      BY <3>1
    <3>. HIDE DEF m
    <3>4. loc'[g] \in Locals
      <4>. DEFINE yes == TRUE  zero == 0
      <4>1. loc'[g] = [m EXCEPT !.awoke = yes, !.iter = zero] /\ yes \in BOOLEAN /\ zero \in Nat
        BY <3>3
      <4>. HIDE DEF yes, zero
      <4>. QED
        BY <3>2, <4>1 DEF Locals
    <3>5. loc'[g].old = m.old
      BY <3>2, <3>3 DEF Locals
    <3>6. loc'[g].awoke = TRUE
      BY <3>2, <3>3 DEF Locals
    <3>. QED
      BY <3>2, <3>4, <3>5, <3>6
  <2>. QED
    BY <2>2, <2>3
<1>j. loc' \in [Goroutines -> Locals]
  BY <1>a, <1>g, <1>h, <1>i DEF LocalsInv
<1>k. OnlyMoves(g)
  BY <1>a, <1>b, <1>e, <1>g, <1>j DEF OnlyMoves, LocalsInv, TypeOK
<1>1. TypeOK' /\ NeverThrows'
  BY <1>a, <1>b, <1>e, <1>f DEF TypeOK, NeverThrows, LockPcs, UnlockPcs
<1>2. LocalsInv'
  <2>1. ~Has(word, mutexStarving) => Has(word, mutexWoken)
    BY <1>c, OnePermit
  <2>. QED
    BY <1>a, <1>f, <1>i, <1>j, <1>k, <2>1 DEF LocalsInv, OnlyMoves
<1>3. HeldInv'
  BY <1>a, <1>b, <1>f, <1>k DEF HeldInv, OnlyMoves
<1>4. /\ g \in Sleepers' <=> Has(word, mutexStarving)
      /\ g \in Carriers' <=> Has(word, mutexStarving)
      /\ g \in Awake' <=> ~Has(word, mutexStarving)
  BY <1>a, <1>b, <1>f, <1>i DEF Sleepers, Carriers, Awake, QueueInv
<1>5. /\ Cardinality(Sleepers) \in Nat /\ Permits \in Nat /\ Cardinality(Awake) \in Nat
      /\ Permits' = Permits - (IF Has(word, mutexStarving) THEN 0 ELSE 1)
      /\ Cardinality(Sleepers)' = Cardinality(Sleepers) - (IF Has(word, mutexStarving) THEN 0 ELSE 1)
      /\ Cardinality(Awake)' = Cardinality(Awake) + (IF Has(word, mutexStarving) THEN 0 ELSE 1)
      /\ ((Awake = {})' <=> Cardinality(Awake)' = 0) /\ (Awake = {} <=> Cardinality(Awake) = 0)
  <2>1. sema \in Nat /\ sema' = sema
    BY <1>a, <1>b DEF TypeOK
  <2>2. Permits \in Nat /\ Permits' = Permits - (IF Has(word, mutexStarving) THEN 0 ELSE 1)
    BY <1>c, <1>k, <1>4, <2>1, Numbers DEF Permits
  <2>. QED
    BY <1>c, <1>k, <1>4, <2>2, Numbers
<1>6. WakeInv'
  BY <1>a, <1>b, <1>f, <1>k, <1>5 DEF WakeInv, OnlyMoves
<1>7. CountInv'
  <2>1. Waiters(word) \in Nat
    BY <1>b, Digits
  <2>. QED
    BY <1>a, <1>b, <1>5, <2>1 DEF CountInv
<1>8. QueueInv'
  BY <1>a, <1>b, <1>f, <1>k, QueueSame DEF TypeOK
<1>. QED
  BY <1>1, <1>2, <1>3, <1>6, <1>7, <1>8 DEF SafeInv

\* The waiter that was handed the lock: the one wake-up under way becomes the
\* lock it carried.
LEMMA OwnSafeInv ==
  ASSUME SafeInv, NEW g \in Goroutines, Own(g)
  PROVE  SafeInv'
<1>. DEFINE x == IF ~loc[g].starving \/ Waiters(loc[g].old) = 1 THEN mutexStarving ELSE 0
<1>a. TypeOK /\ LocalsInv /\ HeldInv /\ WakeInv /\ CountInv /\ QueueInv /\ NeverThrows
  BY DEF SafeInv
<1>b. /\ pc[g] = "own" /\ pc' = [pc EXCEPT ![g] = "held"] /\ pc'[g] = "held"
      /\ UNCHANGED <<sema, queue, ticket, loc>> /\ word \in Nat
      /\ word' = word + mutexLocked - mutexWaiter - x /\ x \in {0, mutexStarving}
  BY <1>a DEF Own, Goto, TypeOK
<1>. HIDE DEF x
<1>c. g \in Carriers /\ g \in Sleepers /\ g \notin Awake /\ g \notin ticket
  BY <1>a, <1>b DEF Carriers, Sleepers, Awake, QueueInv
<1>d. Has(word, mutexStarving) /\ ~Has(word, mutexLocked) /\ ~Has(word, mutexWoken) /\ Permits = 1
  BY <1>a, <1>b, <1>c, OnePermit DEF WakeInv
<1>e. OnlyMoves(g)
  BY <1>a, <1>b DEF OnlyMoves, TypeOK
<1>f. g \notin Carriers' /\ g \notin Sleepers' /\ g \notin Awake'
  BY <1>b, <1>c DEF Carriers, Sleepers, Awake
<1>g. /\ Cardinality(Sleepers) \in Nat /\ Cardinality(Sleepers) >= 1
      /\ Cardinality(Sleepers)' = Cardinality(Sleepers) - 1
      /\ Cardinality(Awake)' = Cardinality(Awake)
      /\ ((Awake = {})' <=> Cardinality(Awake)' = 0) /\ (Awake = {} <=> Cardinality(Awake) = 0)
  BY <1>c, <1>e, <1>f, Numbers
<1>h. Permits' = 0 /\ Carriers' = {}
  <2>1. sema = 0 /\ sema' = 0 /\ Cardinality(Carriers) = 1
    BY <1>b, <1>c, <1>d, OnePermit, Numbers, <1>e DEF Permits
  <2>2. Cardinality(Carriers)' = 0 /\ Carriers' = {}
    BY <1>c, <1>e, <1>f, <2>1, Numbers
  <2>. QED
    BY <2>1, <2>2 DEF Permits
<1>i. Waiters(word) \in Nat /\ Waiters(word) # 0
  BY <1>a, <1>b, <1>d, <1>g, Digits DEF CountInv
<1>j. /\ word' \in Nat /\ Waiters(word') = Waiters(word) - 1
      /\ Has(word', mutexLocked) /\ ~Has(word', mutexWoken)
  BY <1>b, <1>d, <1>i, OwnWord
<1>1. TypeOK' /\ NeverThrows'
  BY <1>a, <1>b, <1>j DEF TypeOK, NeverThrows, LockPcs, UnlockPcs
<1>2. LocalsInv'
  BY <1>a, <1>b, <1>e DEF LocalsInv, OnlyMoves
<1>3. HeldInv'
  BY <1>a, <1>b, <1>d, <1>e, <1>j DEF HeldInv, OnlyMoves
<1>4. WakeInv'
  <2>1. \A h \in Goroutines : pc'[h] # "own"
    BY <1>h DEF Carriers
  <2>2. Awake' = {} /\ Cardinality(Awake)' = 0
    BY <1>a, <1>d, <1>g DEF WakeInv
  <2>. QED
    BY <1>h, <1>j, <2>1, <2>2 DEF WakeInv
<1>5. CountInv'
  BY <1>a, <1>d, <1>g, <1>h, <1>i, <1>j DEF CountInv
<1>6. QueueInv'
  BY <1>a, <1>b, <1>e, QueueSame DEF TypeOK
<1>. QED
  BY <1>1, <1>2, <1>3, <1>4, <1>5, <1>6 DEF SafeInv

-----------------------------------------------------------------------------
(* The semaphore. *)

\* The steps that move a wake-up from one place to another, or none at all,
\* and leave the word and the goroutines awake alone.
LEMMA SemaphoreCounts ==
  ASSUME SafeInv, UNCHANGED word, Permits' = Permits, Sleepers' = Sleepers, Awake' = Awake,
         \A g \in Goroutines : pc'[g] = "held" <=> pc[g] = "held",
         \A g \in Goroutines : pc'[g] = "own" <=> pc[g] = "own"
  PROVE  HeldInv' /\ WakeInv' /\ CountInv'
<1>1. HeldInv'
  BY DEF SafeInv, HeldInv
<1>2. WakeInv'
  BY DEF SafeInv, WakeInv
<1>3. CountInv'
  BY DEF SafeInv, CountInv
<1>. QED
  BY <1>1, <1>2, <1>3

\* Taking the semaphore without the lock of its root, or not.
LEMMA SemTrySafeInv ==
  ASSUME SafeInv, NEW g \in Goroutines, SemTry(g)
  PROVE  SafeInv'
<1>a. TypeOK /\ LocalsInv /\ QueueInv /\ NeverThrows
  BY DEF SafeInv
<1>b. /\ pc[g] = "acquire" /\ pc' = [pc EXCEPT ![g] = IF sema > 0 THEN "woken" ELSE "queue"]
      /\ pc'[g] = (IF sema > 0 THEN "woken" ELSE "queue")
      /\ sema' = (IF sema > 0 THEN sema - 1 ELSE 0) /\ sema \in Nat
      /\ UNCHANGED <<word, queue, ticket, loc>>
  BY <1>a DEF SemTry, Goto, TypeOK
<1>c. OnlyMoves(g)
  BY <1>a, <1>b DEF OnlyMoves, TypeOK
<1>d. Sleepers' = Sleepers /\ Awake' = Awake
  BY <1>b, <1>c DEF Sleepers, Awake, OnlyMoves
<1>e. Permits' = Permits
  <2>1. g \notin Carriers /\ (g \in Carriers' <=> sema > 0)
    BY <1>a, <1>b DEF Carriers, QueueInv
  <2>. QED
    BY <1>b, <1>c, <2>1, Numbers DEF Permits
<1>1. TypeOK' /\ NeverThrows'
  BY <1>a, <1>b DEF TypeOK, NeverThrows, LockPcs, UnlockPcs
<1>2. LocalsInv'
  BY <1>a, <1>b, <1>c DEF LocalsInv, OnlyMoves
<1>3. HeldInv' /\ WakeInv' /\ CountInv'
  BY <1>b, <1>c, <1>d, <1>e, SemaphoreCounts DEF OnlyMoves
<1>4. QueueInv'
  BY <1>a, <1>b, <1>c, QueueSame DEF TypeOK
<1>. QED
  BY <1>1, <1>2, <1>3, <1>4 DEF SafeInv

Once(q) == \A i, j \in 1 .. Len(q) : q[i] = q[j] => i = j
IsQueued(q, g, r) == r = <<g>> \o q \/ r = Append(q, g)

\* At either end of the queue a newcomer is there once.
LEMMA Enqueue ==
  ASSUME NEW q \in Seq(Goroutines), NEW g \in Goroutines,
         \A i \in 1 .. Len(q) : q[i] # g, Once(q),
         NEW r, IsQueued(q, g, r)
  PROVE  /\ r \in Seq(Goroutines)
         /\ \A i \in 1 .. Len(r) : r[i] = g \/ \E j \in 1 .. Len(q) : r[i] = q[j]
         /\ Once(r)
<1>1. CASE r = Append(q, g)
  <2>1. r \in Seq(Goroutines) /\ Len(r) = Len(q) + 1 /\ Len(q) \in Nat
    BY <1>1
  <2>2. \A i \in 1 .. Len(r) : r[i] = IF i = Len(q) + 1 THEN g ELSE q[i]
    BY <1>1, <2>1
  <2>. QED
    BY <2>1, <2>2 DEF Once
<1>2. CASE r = <<g>> \o q
  <2>1. r \in Seq(Goroutines) /\ Len(r) = Len(q) + 1 /\ Len(q) \in Nat
    BY <1>2
  <2>2. \A i \in 1 .. Len(r) : r[i] = IF i = 1 THEN g ELSE q[i - 1]
    BY <1>2, <2>1
  <2>3. \A i \in 1 .. Len(r) : i = 1 \/ i - 1 \in 1 .. Len(q)
    BY <2>1
  <2>4. \A i \in 1 .. Len(r) : r[i] = g \/ \E j \in 1 .. Len(q) : r[i] = q[j]
    BY <2>2, <2>3
  <2>5. ASSUME NEW i \in 1 .. Len(r), NEW j \in 1 .. Len(r), r[i] = r[j] PROVE i = j
    <3>1. i = 1 <=> j = 1
      BY <2>2, <2>3, <2>5
    <3>2. i # 1 => i - 1 = j - 1
      BY <2>2, <2>3, <2>5, <3>1 DEF Once
    <3>. QED
      BY <3>1, <3>2
  <2>. QED
    BY <2>1, <2>4, <2>5 DEF Once
<1>. QED
  BY <1>1, <1>2 DEF IsQueued

\* The second look at the semaphore, and the sleep.
LEMMA SemSleepSafeInv ==
  ASSUME SafeInv, NEW g \in Goroutines, SemSleep(g)
  PROVE  SafeInv'
<1>a. TypeOK /\ LocalsInv /\ QueueInv /\ NeverThrows
  BY DEF SafeInv
<1>b. /\ pc[g] = "queue" /\ pc' = [pc EXCEPT ![g] = IF sema > 0 THEN "woken" ELSE "parked"]
      /\ pc'[g] = (IF sema > 0 THEN "woken" ELSE "parked")
      /\ sema' = (IF sema > 0 THEN sema - 1 ELSE 0) /\ sema \in Nat
      /\ UNCHANGED <<word, ticket, loc>>
  BY <1>a DEF SemSleep, Goto, TypeOK
<1>q. /\ sema > 0 => queue' = queue
      /\ ~(sema > 0) => queue' = <<g>> \o queue \/ queue' = Append(queue, g)
  BY DEF SemSleep
<1>c. OnlyMoves(g)
  BY <1>a, <1>b DEF OnlyMoves, TypeOK
<1>d. Sleepers' = Sleepers /\ Awake' = Awake
  BY <1>b, <1>c DEF Sleepers, Awake, OnlyMoves
<1>e. Permits' = Permits
  <2>1. g \notin Carriers /\ (g \in Carriers' <=> sema > 0)
    BY <1>a, <1>b DEF Carriers, QueueInv
  <2>. QED
    BY <1>b, <1>c, <2>1, Numbers DEF Permits
<1>f. HeldInv' /\ WakeInv' /\ CountInv'
  BY <1>b, <1>c, <1>d, <1>e, SemaphoreCounts DEF OnlyMoves
<1>g. LocalsInv'
  BY <1>a, <1>b, <1>c DEF LocalsInv, OnlyMoves
<1>1. CASE sema > 0
  <2>1. TypeOK' /\ NeverThrows'
    BY <1>a, <1>b, <1>q, <1>1 DEF TypeOK, NeverThrows, LockPcs, UnlockPcs
  <2>2. QueueInv'
    BY <1>a, <1>b, <1>c, <1>q, <1>1, QueueSame DEF TypeOK
  <2>. QED
    BY <1>f, <1>g, <2>1, <2>2 DEF SafeInv
<1>2. CASE ~(sema > 0)
  <2>1. /\ queue \in Seq(Goroutines) /\ \A i \in 1 .. Len(queue) : queue[i] # g
        /\ Once(queue)
    BY <1>a, <1>b DEF TypeOK, QueueInv, Once
  <2>2. IsQueued(queue, g, queue')
    BY <1>q, <1>2 DEF IsQueued
  <2>3. /\ queue' \in Seq(Goroutines)
        /\ \A i \in 1 .. Len(queue') : queue'[i] = g \/ \E j \in 1 .. Len(queue) : queue'[i] = queue[j]
        /\ Once(queue')
    BY <2>1, <2>2, Enqueue
  <2>4. TypeOK' /\ NeverThrows'
    BY <1>a, <1>b, <1>2, <2>3 DEF TypeOK, NeverThrows, LockPcs, UnlockPcs
  <2>5. QueueInv'
    <3>1. \A i \in 1 .. Len(queue) : queue[i] \in Goroutines /\ pc'[queue[i]] = "parked"
      BY <1>a, <1>c, <2>1 DEF QueueInv, OnlyMoves
    <3>2. \A i \in 1 .. Len(queue') : pc'[queue'[i]] = "parked"
      BY <1>b, <1>2, <2>3, <3>1
    <3>3. \A h \in ticket' : pc'[h] = "ready"
      BY <1>a, <1>b, <1>c DEF QueueInv, OnlyMoves, TypeOK
    <3>4. ASSUME NEW h \in Goroutines, pc'[h] = "rouse"
          PROVE  /\ loc'[h].next \in Goroutines /\ pc'[loc'[h].next] = "parked"
                 /\ \A i \in 1 .. Len(queue') : queue'[i] # loc'[h].next
                 /\ \A k \in Goroutines : pc'[k] = "rouse" /\ loc'[k].next = loc'[h].next => k = h
      <4>1. h # g /\ pc[h] = "rouse" /\ loc[h].next # g /\ loc' = loc
        BY <1>a, <1>b, <1>c, <1>2, <3>4 DEF QueueInv, OnlyMoves
      <4>2. /\ loc[h].next \in Goroutines /\ pc[loc[h].next] = "parked"
            /\ \A i \in 1 .. Len(queue) : queue[i] # loc[h].next
            /\ \A k \in Goroutines : pc[k] = "rouse" /\ loc[k].next = loc[h].next => k = h
        BY <1>a, <4>1 DEF QueueInv
      <4>. QED
        BY <1>b, <1>c, <1>2, <2>3, <4>1, <4>2 DEF OnlyMoves
    <3>. QED
      BY <2>3, <3>2, <3>3, <3>4 DEF QueueInv, Once
  <2>. QED
    BY <1>f, <1>g, <2>4, <2>5 DEF SafeInv
<1>. QED
  BY <1>1, <1>2

\* A goroutine that was woken comes with a ticket, or takes the semaphore, or
\* goes back to the queue.
LEMMA SemRetrySafeInv ==
  ASSUME SafeInv, NEW g \in Goroutines, SemRetry(g)
  PROVE  SafeInv'
<1>. DEFINE through == g \in ticket \/ sema > 0
<1>a. TypeOK /\ LocalsInv /\ QueueInv /\ NeverThrows
  BY DEF SafeInv
<1>b. /\ pc[g] = "ready" /\ pc' = [pc EXCEPT ![g] = IF through THEN "woken" ELSE "queue"]
      /\ pc'[g] = (IF through THEN "woken" ELSE "queue")
      /\ sema' = (IF g \notin ticket /\ sema > 0 THEN sema - 1 ELSE sema) /\ sema \in Nat
      /\ ticket' = ticket \ {g}
      /\ UNCHANGED <<word, queue, loc>>
  BY <1>a DEF SemRetry, Goto, TypeOK
<1>c. OnlyMoves(g)
  BY <1>a, <1>b DEF OnlyMoves, TypeOK
<1>d. Sleepers' = Sleepers /\ Awake' = Awake
  BY <1>b, <1>c DEF Sleepers, Awake, OnlyMoves
<1>e. Permits' = Permits
  <2>1. (g \in Carriers <=> g \in ticket) /\ (g \in Carriers' <=> through)
    BY <1>b DEF Carriers
  <2>. QED
    BY <1>b, <1>c, <2>1, Numbers DEF Permits
<1>1. TypeOK' /\ NeverThrows'
  BY <1>a, <1>b DEF TypeOK, NeverThrows, LockPcs, UnlockPcs
<1>2. LocalsInv'
  BY <1>a, <1>b, <1>c DEF LocalsInv, OnlyMoves
<1>3. HeldInv' /\ WakeInv' /\ CountInv'
  BY <1>b, <1>c, <1>d, <1>e, SemaphoreCounts DEF OnlyMoves
<1>4. QueueInv'
  <2>1. \A i \in 1 .. Len(queue) : queue[i] \in Goroutines /\ queue[i] # g
    BY <1>a, <1>b DEF TypeOK, QueueInv
  <2>2. \A i \in 1 .. Len(queue) : pc'[queue[i]] = "parked"
    BY <1>a, <1>c, <2>1 DEF QueueInv, OnlyMoves
  <2>3. \A h \in ticket' : pc'[h] = "ready"
    BY <1>a, <1>b, <1>c DEF QueueInv, OnlyMoves, TypeOK
  <2>4. ASSUME NEW h \in Goroutines, pc'[h] = "rouse"
        PROVE  /\ loc'[h].next \in Goroutines /\ pc'[loc'[h].next] = "parked"
               /\ \A i \in 1 .. Len(queue) : queue[i] # loc'[h].next
               /\ \A k \in Goroutines : pc'[k] = "rouse" /\ loc'[k].next = loc'[h].next => k = h
    BY <1>a, <1>b, <1>c, <2>4 DEF QueueInv, OnlyMoves
  <2>. QED
    BY <1>a, <1>b, <2>2, <2>3, <2>4 DEF QueueInv
<1>. QED
  BY <1>1, <1>2, <1>3, <1>4 DEF SafeInv

-----------------------------------------------------------------------------
(* Unlock. *)

\* The lock bit goes. In starvation mode the lock becomes the wake-up of the
\* waiter that gets it.
LEMMA UnlockSafeInv ==
  ASSUME SafeInv, NEW g \in Goroutines, Unlock(g)
  PROVE  SafeInv'
<1>a. TypeOK /\ LocalsInv /\ HeldInv /\ WakeInv /\ CountInv /\ QueueInv /\ NeverThrows
  BY DEF SafeInv
<1>b. pc[g] = "held" /\ word \in Nat /\ Has(word, mutexLocked)
  BY <1>a DEF Unlock, Goto, TypeOK, HeldInv
<1>c. word' = word - mutexLocked /\ UNCHANGED <<sema, queue, ticket>>
  BY DEF Unlock
<1>d. /\ word' \in Nat /\ ~Has(word', mutexLocked)
      /\ Has(word', mutexWoken) <=> Has(word, mutexWoken)
      /\ Has(word', mutexStarving) <=> Has(word, mutexStarving)
      /\ Waiters(word') = Waiters(word)
  BY <1>b, <1>c, ClearLocked
<1>e. PICK to \in {"idle", "release", "wake"} :
        /\ pc' = [pc EXCEPT ![g] = to]
        /\ to = "release" <=> Has(word', mutexStarving)
  <2>1. pc' = [pc EXCEPT ![g] = IF word' = 0 THEN "idle"
                                ELSE IF Has(word', mutexStarving) THEN "release" ELSE "wake"]
    BY <1>b, <1>c DEF Unlock, Goto
  <2>2. word' = 0 => ~Has(word', mutexStarving)
    BY Zero
  <2>. QED
    BY <2>1, <2>2
<1>f. pc'[g] = to
  BY <1>a, <1>e DEF TypeOK
<1>g. loc' \in [Goroutines -> Locals] /\ OnlyMoves(g)
  <2>1. PICK o \in Nat : loc' = [loc EXCEPT ![g] = [NoLocals EXCEPT !.old = o]]
    BY <1>c, <1>d DEF Unlock
  <2>2. [NoLocals EXCEPT !.old = o] \in Locals
    BY NoLocalsType DEF NoLocals, Locals
  <2>3. loc' \in [Goroutines -> Locals]
    BY <1>a, <2>1, <2>2 DEF LocalsInv
  <2>. QED
    BY <1>a, <1>c, <1>e, <2>1, <2>3 DEF OnlyMoves, LocalsInv, TypeOK
<1>h. /\ g \notin Sleepers /\ g \notin Carriers /\ g \notin Awake
      /\ g \notin Sleepers' /\ (g \in Carriers' <=> Has(word', mutexStarving)) /\ g \notin Awake'
  BY <1>a, <1>b, <1>c, <1>e, <1>f DEF Sleepers, Carriers, Awake, QueueInv
<1>i. /\ Permits' = Permits + (IF Has(word', mutexStarving) THEN 1 ELSE 0)
      /\ Permits \in Nat
      /\ Cardinality(Sleepers)' = Cardinality(Sleepers)
      /\ Cardinality(Awake)' = Cardinality(Awake)
      /\ ((Awake = {})' <=> Awake = {})
  <2>1. sema \in Nat /\ sema' = sema
    BY <1>a, <1>c DEF TypeOK
  <2>2. Permits \in Nat /\ Permits' = Permits + (IF Has(word', mutexStarving) THEN 1 ELSE 0)
    BY <1>g, <1>h, <2>1, Numbers DEF Permits
  <2>. QED
    BY <1>g, <1>h, <2>2, Numbers
<1>1. TypeOK' /\ NeverThrows'
  BY <1>a, <1>c, <1>d, <1>e, <1>f DEF TypeOK, NeverThrows, LockPcs, UnlockPcs
<1>2. LocalsInv'
  BY <1>a, <1>e, <1>f, <1>g DEF LocalsInv, OnlyMoves
<1>3. HeldInv'
  BY <1>a, <1>b, <1>d, <1>e, <1>f, <1>g DEF HeldInv, OnlyMoves
<1>4. WakeInv'
  BY <1>a, <1>b, <1>d, <1>e, <1>f, <1>g, <1>i DEF WakeInv, OnlyMoves
<1>5. CountInv'
  BY <1>a, <1>d, <1>i DEF CountInv
<1>6. QueueInv'
  BY <1>a, <1>b, <1>c, <1>e, <1>f, <1>g, QueueSame DEF TypeOK
<1>. QED
  BY <1>1, <1>2, <1>3, <1>4, <1>5, <1>6 DEF SafeInv

\* The right to wake one waiter: one off the count, one wake-up under way,
\* and the woken flag for it.
LEMMA WakeOneSafeInv ==
  ASSUME SafeInv, NEW g \in Goroutines, WakeOne(g)
  PROVE  SafeInv'
<1>. DEFINE takes == Waiters(word) # 0 /\ word % mutexWaiter = 0 /\ word = loc[g].old
<1>a. TypeOK /\ LocalsInv /\ HeldInv /\ WakeInv /\ CountInv /\ QueueInv /\ NeverThrows
  BY DEF SafeInv
<1>b. pc[g] = "wake" /\ word \in Nat /\ UNCHANGED <<sema, queue, ticket>> /\ loc[g] \in Locals
  BY <1>a DEF WakeOne, Goto, TypeOK, LocalsInv
<1>c. PICK to \in {"idle", "release", "wake"} :
        /\ pc' = [pc EXCEPT ![g] = to]
        /\ to = "release" <=> takes
  BY DEF WakeOne, Goto
<1>d. word' = IF takes THEN word - mutexWaiter + mutexWoken ELSE word
  BY DEF WakeOne
<1>e. PICK o \in Nat : loc' = [loc EXCEPT ![g].old = o]
  BY <1>b DEF WakeOne
<1>. HIDE DEF takes
<1>f. pc'[g] = to
  BY <1>a, <1>c DEF TypeOK
<1>g. loc' \in [Goroutines -> Locals] /\ OnlyMoves(g)
  <2>1. loc'[g] = [loc[g] EXCEPT !.old = o]
    BY <1>a, <1>e DEF LocalsInv
  <2>2. loc'[g] \in Locals
    BY <1>b, <2>1 DEF Locals
  <2>3. loc' \in [Goroutines -> Locals]
    BY <1>a, <1>e, <2>2 DEF LocalsInv
  <2>. QED
    BY <1>a, <1>b, <1>c, <1>e, <2>3 DEF OnlyMoves, LocalsInv, TypeOK
<1>h. /\ g \notin Sleepers /\ g \notin Carriers /\ g \notin Awake
      /\ g \notin Sleepers' /\ (g \in Carriers' <=> takes) /\ g \notin Awake'
  BY <1>a, <1>b, <1>c, <1>f DEF Sleepers, Carriers, Awake, QueueInv
<1>i. /\ Permits' = Permits + (IF takes THEN 1 ELSE 0)
      /\ Permits \in Nat /\ Cardinality(Awake) \in Nat /\ Cardinality(Sleepers) \in Nat
      /\ Cardinality(Sleepers)' = Cardinality(Sleepers)
      /\ Cardinality(Awake)' = Cardinality(Awake)
      /\ ((Awake = {})' <=> Awake = {})
  <2>1. sema \in Nat /\ sema' = sema
    BY <1>a, <1>b DEF TypeOK
  <2>2. Permits \in Nat /\ Permits' = Permits + (IF takes THEN 1 ELSE 0)
    BY <1>g, <1>h, <2>1, Numbers DEF Permits
  <2>. QED
    BY <1>g, <1>h, <2>2, Numbers
<1>j. LocalsInv'
  BY <1>a, <1>c, <1>f, <1>g DEF LocalsInv, OnlyMoves
<1>k. QueueInv'
  BY <1>a, <1>b, <1>c, <1>f, <1>g, QueueSame DEF TypeOK
<1>1. CASE takes
  <2>1. /\ ~Has(word, mutexLocked) /\ ~Has(word, mutexWoken) /\ ~Has(word, mutexStarving)
        /\ word' \in Nat /\ Waiters(word') = Waiters(word) - 1
        /\ ~Has(word', mutexLocked) /\ Has(word', mutexWoken) /\ ~Has(word', mutexStarving)
    <3>1. word % mutexWaiter = 0 /\ Waiters(word) # 0
      BY <1>1 DEF takes
    <3>. QED
      BY <1>b, <1>d, <1>1, <3>1, WakeWord
  <2>2. TypeOK' /\ NeverThrows'
    BY <1>a, <1>b, <1>c, <1>f, <2>1 DEF TypeOK, NeverThrows, LockPcs, UnlockPcs
  <2>3. HeldInv'
    BY <1>a, <1>c, <1>f, <1>g, <2>1 DEF HeldInv, OnlyMoves
  <2>4. WakeInv'
    <3>1. Permits + Cardinality(Awake) = 0 /\ \A h \in Goroutines : pc[h] # "own"
      BY <1>a, <2>1 DEF WakeInv
    <3>2. Permits' + Cardinality(Awake)' = 1
      BY <1>i, <1>1, <3>1
    <3>3. \A h \in Goroutines : pc'[h] # "own"
      BY <1>c, <1>f, <1>g, <3>1 DEF OnlyMoves
    <3>. QED
      BY <2>1, <3>2, <3>3 DEF WakeInv
  <2>5. CountInv'
    <3>1. Waiters(word) \in Nat
      BY <1>b, Digits
    <3>. QED
      BY <1>a, <1>i, <1>1, <2>1, <3>1 DEF CountInv
  <2>. QED
    BY <1>j, <1>k, <2>2, <2>3, <2>4, <2>5 DEF SafeInv
<1>2. CASE ~takes
  <2>1. word' = word
    BY <1>d, <1>2
  <2>2. TypeOK' /\ NeverThrows'
    BY <1>a, <1>b, <1>c, <1>f, <2>1 DEF TypeOK, NeverThrows, LockPcs, UnlockPcs
  <2>3. HeldInv'
    BY <1>a, <1>b, <1>c, <1>f, <1>g, <2>1 DEF HeldInv, OnlyMoves
  <2>4. WakeInv'
    <3>1. Permits' = Permits /\ Cardinality(Awake)' = Cardinality(Awake) /\ ((Awake = {})' <=> Awake = {})
      BY <1>i, <1>2
    <3>2. \A h \in Goroutines : pc[h] # "own" => pc'[h] # "own"
      BY <1>c, <1>f, <1>g DEF OnlyMoves
    <3>. QED
      BY <1>a, <2>1, <3>1, <3>2 DEF WakeInv
  <2>5. CountInv'
    BY <1>a, <1>i, <1>2, <2>1 DEF CountInv
  <2>. QED
    BY <1>j, <1>k, <2>2, <2>3, <2>4, <2>5 DEF SafeInv
<1>. QED
  BY <1>1, <1>2

-----------------------------------------------------------------------------
(* Releasing the semaphore. *)

\* The wake-up goes into the semaphore.
LEMMA SemReleaseSafeInv ==
  ASSUME SafeInv, NEW g \in Goroutines, SemRelease(g)
  PROVE  SafeInv'
<1>a. TypeOK /\ LocalsInv /\ QueueInv /\ NeverThrows
  BY DEF SafeInv
<1>b. /\ pc[g] = "release" /\ pc' = [pc EXCEPT ![g] = "dequeue"] /\ pc'[g] = "dequeue"
      /\ sema' = sema + 1 /\ sema \in Nat
      /\ UNCHANGED <<word, queue, ticket, loc>>
  BY <1>a DEF SemRelease, Goto, TypeOK
<1>c. OnlyMoves(g)
  BY <1>a, <1>b DEF OnlyMoves, TypeOK
<1>d. Sleepers' = Sleepers /\ Awake' = Awake
  BY <1>b, <1>c DEF Sleepers, Awake, OnlyMoves
<1>e. Permits' = Permits
  <2>1. g \in Carriers /\ g \notin Carriers'
    BY <1>a, <1>b DEF Carriers, QueueInv
  <2>2. /\ Cardinality(Carriers) \in Nat
        /\ Cardinality(Carriers)' = Cardinality(Carriers)
             + (IF g \in Carriers' THEN 1 ELSE 0) - (IF g \in Carriers THEN 1 ELSE 0)
    BY <1>c, Numbers
  <2>3. Cardinality(Carriers)' = Cardinality(Carriers) - 1
    BY <2>1, <2>2
  <2>. QED
    BY <1>b, <2>2, <2>3 DEF Permits
<1>1. TypeOK' /\ NeverThrows'
  BY <1>a, <1>b DEF TypeOK, NeverThrows, LockPcs, UnlockPcs
<1>2. LocalsInv'
  BY <1>a, <1>b, <1>c DEF LocalsInv, OnlyMoves
<1>3. HeldInv' /\ WakeInv' /\ CountInv'
  BY <1>b, <1>c, <1>d, <1>e, SemaphoreCounts DEF OnlyMoves
<1>4. QueueInv'
  BY <1>a, <1>b, <1>c, QueueSame DEF TypeOK
<1>. QED
  BY <1>1, <1>2, <1>3, <1>4 DEF SafeInv

\* The first of the queue is taken out, by one goroutine only.
LEMMA DequeueSafeInv ==
  ASSUME SafeInv, NEW g \in Goroutines, Dequeue(g)
  PROVE  SafeInv'
<1>a. TypeOK /\ LocalsInv /\ QueueInv /\ NeverThrows
  BY DEF SafeInv
<1>b. /\ pc[g] = "dequeue" /\ pc' = [pc EXCEPT ![g] = IF queue = <<>> THEN "idle" ELSE "rouse"]
      /\ pc'[g] = (IF queue = <<>> THEN "idle" ELSE "rouse")
      /\ UNCHANGED <<word, sema, ticket>> /\ queue \in Seq(Goroutines) /\ loc[g] \in Locals
  BY <1>a DEF Dequeue, Goto, TypeOK, LocalsInv
<1>c. /\ queue = <<>> => queue' = queue /\ loc' = [loc EXCEPT ![g] = NoLocals]
      /\ queue # <<>> => queue' = Tail(queue) /\ loc' = [loc EXCEPT ![g] = [loc[g] EXCEPT !.next = Head(queue)]]
  BY DEF Dequeue
<1>d. queue # <<>> => Head(queue) \in Goroutines
  BY <1>b
<1>e. loc' \in [Goroutines -> Locals] /\ OnlyMoves(g) /\ (queue # <<>> => loc'[g].next = Head(queue))
  <2>1. CASE queue = <<>>
    <3>1. loc' = [loc EXCEPT ![g] = NoLocals]
      BY <1>c, <2>1
    <3>. QED
      BY <1>a, <1>b, <2>1, <3>1, NoLocalsType DEF LocalsInv, OnlyMoves, TypeOK
  <2>2. CASE queue # <<>>
    <3>. DEFINE h == Head(queue)
    <3>1. h \in Goroutines /\ loc' = [loc EXCEPT ![g] = [loc[g] EXCEPT !.next = h]]
      BY <1>c, <1>d, <2>2
    <3>. HIDE DEF h
    <3>2. [loc[g] EXCEPT !.next = h] \in Locals /\ [loc[g] EXCEPT !.next = h].next = h
      BY <1>b, <3>1 DEF Locals
    <3>3. loc' \in [Goroutines -> Locals] /\ loc'[g].next = h
      BY <1>a, <3>1, <3>2 DEF LocalsInv
    <3>4. OnlyMoves(g)
      BY <1>a, <1>b, <3>1 DEF LocalsInv, OnlyMoves, TypeOK
    <3>. QED
      BY <3>3, <3>4 DEF h
  <2>. QED
    BY <2>1, <2>2
<1>f. Sleepers' = Sleepers /\ Awake' = Awake /\ Carriers' = Carriers
  BY <1>b, <1>e DEF Sleepers, Awake, Carriers, OnlyMoves
<1>1. HeldInv' /\ WakeInv' /\ CountInv'
  <2>1. Permits' = Permits
    BY <1>b, <1>f DEF Permits
  <2>2. /\ \A h \in Goroutines : pc'[h] = "held" <=> pc[h] = "held"
        /\ \A h \in Goroutines : pc'[h] = "own" <=> pc[h] = "own"
    BY <1>b, <1>e DEF OnlyMoves
  <2>. QED
    BY <1>b, <1>f, <2>1, <2>2, SemaphoreCounts
<1>2. LocalsInv'
  BY <1>a, <1>b, <1>e DEF LocalsInv, OnlyMoves
<1>3. CASE queue = <<>>
  <2>1. TypeOK' /\ NeverThrows'
    BY <1>a, <1>b, <1>c, <1>3 DEF TypeOK, NeverThrows, LockPcs, UnlockPcs
  <2>2. QueueInv'
    BY <1>a, <1>b, <1>c, <1>e, <1>3, QueueSame DEF TypeOK
  <2>. QED
    BY <1>1, <1>2, <2>1, <2>2 DEF SafeInv
<1>4. CASE queue # <<>>
  <2>1. queue' \in Seq(Goroutines) /\ Len(queue') = Len(queue) - 1 /\ Len(queue) \in Nat /\ Len(queue) >= 1
    BY <1>b, <1>c, <1>4
  <2>2. \A i \in 1 .. Len(queue') : i + 1 \in 1 .. Len(queue) /\ queue'[i] = queue[i + 1]
    BY <1>b, <1>c, <1>4, <2>1
  <2>3. Head(queue) = queue[1] /\ 1 \in 1 .. Len(queue)
    BY <1>b, <1>4, <2>1
  <2>4. TypeOK' /\ NeverThrows'
    BY <1>a, <1>b, <1>4, <2>1 DEF TypeOK, NeverThrows, LockPcs, UnlockPcs
  <2>5. \A i \in 1 .. Len(queue) : queue[i] \in Goroutines /\ queue[i] # g /\ pc'[queue[i]] = "parked"
    BY <1>a, <1>b, <1>e DEF QueueInv, OnlyMoves
  <2>6. \A i \in 1 .. Len(queue') : pc'[queue'[i]] = "parked" /\ queue'[i] # queue[1]
    BY <1>a, <2>1, <2>2, <2>3, <2>5 DEF QueueInv
  <2>7. ASSUME NEW i \in 1 .. Len(queue'), NEW j \in 1 .. Len(queue'), queue'[i] = queue'[j] PROVE i = j
    <3>1. i + 1 = j + 1
      BY <1>a, <2>2, <2>7 DEF QueueInv
    <3>. QED
      BY <3>1
  <2>8. \A h \in ticket' : pc'[h] = "ready"
    BY <1>a, <1>b, <1>e DEF QueueInv, OnlyMoves, TypeOK
  <2>9. ASSUME NEW h \in Goroutines, pc'[h] = "rouse"
        PROVE  /\ loc'[h].next \in Goroutines /\ pc'[loc'[h].next] = "parked"
               /\ \A i \in 1 .. Len(queue') : queue'[i] # loc'[h].next
               /\ \A k \in Goroutines : pc'[k] = "rouse" /\ loc'[k].next = loc'[h].next => k = h
    <3>1. \A k \in Goroutines : k # g /\ pc'[k] = "rouse" =>
            /\ pc[k] = "rouse" /\ loc'[k] = loc[k] /\ loc[k].next # queue[1]
      BY <1>a, <1>e, <2>3 DEF QueueInv, OnlyMoves
    <3>2. CASE h = g
      BY <1>e, <1>4, <2>3, <2>5, <2>6, <3>1, <3>2
    <3>3. CASE h # g
      <4>1. /\ pc[h] = "rouse" /\ loc'[h] = loc[h] /\ loc[h].next # queue[1]
            /\ loc[h].next \in Goroutines /\ pc[loc[h].next] = "parked"
            /\ \A i \in 1 .. Len(queue) : queue[i] # loc[h].next
            /\ \A k \in Goroutines : pc[k] = "rouse" /\ loc[k].next = loc[h].next => k = h
        BY <1>a, <2>9, <3>1, <3>3 DEF QueueInv
      <4>2. pc'[loc[h].next] = "parked"
        BY <1>b, <1>e, <4>1 DEF OnlyMoves
      <4>3. \A i \in 1 .. Len(queue') : queue'[i] # loc[h].next
        BY <2>2, <4>1
      <4>4. \A k \in Goroutines : pc'[k] = "rouse" /\ loc'[k].next = loc[h].next => k = h
        BY <1>e, <1>4, <2>3, <3>1, <4>1
      <4>. QED
        BY <4>1, <4>2, <4>3, <4>4
    <3>. QED
      BY <3>2, <3>3
  <2>10. QueueInv'
    BY <2>6, <2>7, <2>8, <2>9 DEF QueueInv
  <2>. QED
    BY <1>1, <1>2, <2>4, <2>10 DEF SafeInv
<1>. QED
  BY <1>3, <1>4

\* The dequeued goroutine becomes runnable; in starvation mode the wake-up goes
\* with it.
LEMMA RouseSafeInv ==
  ASSUME SafeInv, NEW g \in Goroutines, Rouse(g)
  PROVE  SafeInv'
<1>. DEFINE s == loc[g].next
            handoff == Has(loc[g].old, mutexStarving) /\ sema > 0
<1>a. TypeOK /\ LocalsInv /\ QueueInv /\ NeverThrows
  BY DEF SafeInv
<1>b. /\ pc[g] = "rouse" /\ s \in Goroutines /\ pc[s] = "parked" /\ s # g /\ s \notin ticket
      /\ \A i \in 1 .. Len(queue) : queue[i] # s
      /\ \A h \in Goroutines : pc[h] = "rouse" /\ loc[h].next = s => h = g
  BY <1>a DEF Rouse, QueueInv
<1>c. /\ pc' = [pc EXCEPT ![g] = "idle", ![s] = "ready"]
      /\ ticket' = (IF handoff THEN ticket \cup {s} ELSE ticket)
      /\ sema' = (IF handoff THEN sema - 1 ELSE sema)
      /\ loc' = [loc EXCEPT ![g] = NoLocals]
      /\ UNCHANGED <<word, queue>>
  BY DEF Rouse
<1>d. handoff => sema > 0
  OBVIOUS
<1>. HIDE DEF s, handoff
<1>e. /\ pc'[g] = "idle" /\ pc'[s] = "ready"
      /\ \A h \in Goroutines \ {g, s} : pc'[h] = pc[h]
      /\ \A h \in Goroutines \ {g} : loc'[h] = loc[h]
  BY <1>a, <1>b, <1>c DEF TypeOK, LocalsInv
<1>f. sema \in Nat /\ sema' \in Nat
  BY <1>a, <1>c, <1>d DEF TypeOK
<1>g. Sleepers' = Sleepers /\ Awake' = Awake
  BY <1>b, <1>e DEF Sleepers, Awake
<1>h. Permits' = Permits
  <2>1. /\ Carriers \in SUBSET Goroutines /\ Carriers' \in SUBSET Goroutines
        /\ Carriers \ {s} = Carriers' \ {s}
    <3>1. g \notin ticket
      BY <1>a, <1>b DEF QueueInv
    <3>2. \A h \in Goroutines : h # s => (h \in ticket' <=> h \in ticket)
      BY <1>c
    <3>. QED
      BY <1>b, <1>e, <3>1, <3>2 DEF Carriers
  <2>2. s \notin Carriers /\ (s \in Carriers' <=> handoff)
    BY <1>b, <1>c, <1>e DEF Carriers
  <2>3. /\ Cardinality(Carriers) \in Nat
        /\ Cardinality(Carriers') = Cardinality(Carriers) + (IF handoff THEN 1 ELSE 0)
    BY <1>b, <2>1, <2>2, CountStep
  <2>. QED
    BY <1>c, <1>f, <2>3 DEF Permits
<1>1. TypeOK' /\ NeverThrows'
  <2>1. ticket' \subseteq Goroutines
    BY <1>a, <1>b, <1>c DEF TypeOK
  <2>. QED
    BY <1>a, <1>b, <1>c, <1>f, <2>1 DEF TypeOK, NeverThrows, LockPcs, UnlockPcs
<1>2. LocalsInv'
  <2>1. loc' \in [Goroutines -> Locals]
    BY <1>a, <1>c, NoLocalsType DEF LocalsInv
  <2>. QED
    BY <1>a, <1>b, <1>e, <2>1 DEF LocalsInv
<1>3. HeldInv' /\ WakeInv' /\ CountInv'
  <2>1. /\ \A h \in Goroutines : pc'[h] = "held" <=> pc[h] = "held"
        /\ \A h \in Goroutines : pc'[h] = "own" <=> pc[h] = "own"
    BY <1>b, <1>e
  <2>. QED
    BY <1>c, <1>g, <1>h, <2>1, SemaphoreCounts
<1>4. QueueInv'
  <2>1. \A i \in 1 .. Len(queue) : queue[i] \in Goroutines /\ queue[i] # g /\ queue[i] # s
    BY <1>a, <1>b DEF TypeOK, QueueInv
  <2>2. \A i \in 1 .. Len(queue) : pc'[queue[i]] = "parked"
    BY <1>a, <1>e, <2>1 DEF QueueInv
  <2>3. \A h \in ticket' : pc'[h] = "ready"
    BY <1>a, <1>b, <1>c, <1>e DEF QueueInv, TypeOK
  <2>4. ASSUME NEW h \in Goroutines, pc'[h] = "rouse"
        PROVE  /\ loc'[h].next \in Goroutines /\ pc'[loc'[h].next] = "parked"
               /\ \A i \in 1 .. Len(queue) : queue[i] # loc'[h].next
               /\ \A k \in Goroutines : pc'[k] = "rouse" /\ loc'[k].next = loc'[h].next => k = h
    <3>1. \A k \in Goroutines : pc'[k] = "rouse" => k # g /\ pc[k] = "rouse" /\ loc'[k] = loc[k]
      BY <1>e
    <3>2. loc[h].next # s /\ loc[h].next # g
      BY <1>a, <1>b, <2>4, <3>1 DEF QueueInv
    <3>. QED
      BY <1>a, <1>e, <2>4, <3>1, <3>2 DEF QueueInv
  <2>5. queue' = queue /\ \A i, j \in 1 .. Len(queue) : queue[i] = queue[j] => i = j
    BY <1>a, <1>c DEF QueueInv
  <2>. QED
    BY <2>2, <2>3, <2>4, <2>5 DEF QueueInv
<1>. QED
  BY <1>1, <1>2, <1>3, <1>4 DEF SafeInv

-----------------------------------------------------------------------------
(* The theorems. *)

\* Every step of every goroutine keeps the inductive invariant.
LEMMA NextSafeInv == SafeInv /\ [Next]_vars => SafeInv'
<1>. SUFFICES ASSUME SafeInv, [Next]_vars PROVE SafeInv'
  OBVIOUS
<1>1. ASSUME NEW g \in Goroutines, Lock(g) PROVE SafeInv'
  BY <1>1, LockSafeInv
<1>2. ASSUME NEW g \in Goroutines, Spin(g) PROVE SafeInv'
  BY <1>2, SpinSafeInv
<1>3. ASSUME NEW g \in Goroutines, Try(g) PROVE SafeInv'
  BY <1>3, RetrySafeInv, SwapSafeInv
<1>4. ASSUME NEW g \in Goroutines, Wake(g) PROVE SafeInv'
  BY <1>4, WakeSafeInv
<1>5. ASSUME NEW g \in Goroutines, Own(g) PROVE SafeInv'
  BY <1>5, OwnSafeInv
<1>6. ASSUME NEW g \in Goroutines, SemTry(g) PROVE SafeInv'
  BY <1>6, SemTrySafeInv
<1>7. ASSUME NEW g \in Goroutines, SemSleep(g) PROVE SafeInv'
  BY <1>7, SemSleepSafeInv
<1>8. ASSUME NEW g \in Goroutines, SemRetry(g) PROVE SafeInv'
  BY <1>8, SemRetrySafeInv
<1>9. ASSUME NEW g \in Goroutines, Unlock(g) PROVE SafeInv'
  BY <1>9, UnlockSafeInv
<1>10. ASSUME NEW g \in Goroutines, WakeOne(g) PROVE SafeInv'
  BY <1>10, WakeOneSafeInv
<1>11. ASSUME NEW g \in Goroutines, SemRelease(g) PROVE SafeInv'
  BY <1>11, SemReleaseSafeInv
<1>12. ASSUME NEW g \in Goroutines, Dequeue(g) PROVE SafeInv'
  BY <1>12, DequeueSafeInv
<1>13. ASSUME NEW g \in Goroutines, Rouse(g) PROVE SafeInv'
  BY <1>13, RouseSafeInv
<1>14. CASE UNCHANGED vars
  <2>1. /\ word' = word /\ sema' = sema /\ queue' = queue /\ ticket' = ticket
        /\ pc' = pc /\ loc' = loc
    BY <1>14 DEF vars
  <2>2. Sleepers' = Sleepers /\ Awake' = Awake /\ Permits' = Permits
    BY <2>1 DEF Sleepers, Carriers, Permits, Awake
  <2>3. TypeOK' /\ NeverThrows' /\ LocalsInv' /\ QueueInv'
    BY <2>1 DEF SafeInv, TypeOK, NeverThrows, LocalsInv, QueueInv
  <2>4. HeldInv' /\ WakeInv' /\ CountInv'
    BY <2>1, <2>2 DEF SafeInv, HeldInv, WakeInv, CountInv
  <2>. QED
    BY <2>3, <2>4 DEF SafeInv
<1>. QED
  BY <1>1, <1>2, <1>3, <1>4, <1>5, <1>6, <1>7, <1>8, <1>9, <1>10, <1>11, <1>12, <1>13, <1>14
     DEF Next, Step

\* The flags and the count of Mutex.state always stand for the goroutines that
\* SafeInv says they stand for, whatever the interleaving.
LEMMA SafeInvariance == Spec => []SafeInv
<1>1. Init => SafeInv
  BY InitSafeInv
<1>2. SafeInv /\ [Next]_vars => SafeInv'
  BY NextSafeInv
<1>. QED
  BY <1>1, <1>2, PTL DEF Spec

\* The state word and the semaphore never go negative, and the other variables
\* keep their types.
THEOREM TypeCorrect == Spec => []TypeOK
<1>1. SafeInv => TypeOK
  BY DEF SafeInv
<1>. QED
  BY <1>1, SafeInvariance, PTL

\* At most one goroutine is between Lock and Unlock.
THEOREM MutualExclusionEver == Spec => []MutualExclusion
<1>1. ASSUME SafeInv PROVE MutualExclusion
  <2>. DEFINE H == {g \in Goroutines : pc[g] = "held"}
  <2>1. \A g, h \in H : g = h
    BY <1>1 DEF SafeInv, HeldInv
  <2>2. CASE H = {}
    <3>1. Cardinality(H) = 0
      BY <2>2, FS_EmptySet
    <3>. QED
      BY <3>1 DEF MutualExclusion
  <2>3. CASE H # {}
    <3>1. PICK g \in H : TRUE
      BY <2>3
    <3>2. H = {g}
      BY <2>1, <3>1
    <3>3. Cardinality(H) = 1
      BY <3>2, FS_Singleton
    <3>. QED
      BY <3>3 DEF MutualExclusion
  <2>. QED
    BY <2>2, <2>3
<1>. QED
  BY <1>1, SafeInvariance, PTL

\* Neither "sync: inconsistent mutex state" nor "sync: unlock of unlocked
\* mutex" is ever thrown by a program that unlocks what it has locked.
THEOREM NeverThrowsEver == Spec => []NeverThrows
<1>1. SafeInv => NeverThrows
  BY DEF SafeInv
<1>. QED
  BY <1>1, SafeInvariance, PTL

-----------------------------------------------------------------------------
(* The mutex implements the abstract lock. *)

IsHolder ==
  /\ \A g \in Goroutines : pc[g] = "held" => Holder = g
  /\ (\A g \in Goroutines : pc[g] # "held") => Holder = Nobody

\* The holder is the one goroutine between Lock and Unlock, if there is one.
LEMMA HolderIs == HeldInv => IsHolder
<1>. SUFFICES ASSUME HeldInv PROVE IsHolder
  OBVIOUS
<1>1. ASSUME NEW g \in Goroutines, pc[g] = "held" PROVE Holder = g
  <2>. DEFINE x == CHOOSE h \in Goroutines : pc[h] = "held"
  <2>1. x \in Goroutines /\ pc[x] = "held"
    BY <1>1
  <2>2. x = g
    BY <1>1, <2>1 DEF HeldInv
  <2>. QED
    BY <1>1, <2>2 DEF Holder
<1>2. (\A g \in Goroutines : pc[g] # "held") => Holder = Nobody
  BY DEF Holder
<1>. QED
  BY <1>1, <1>2 DEF IsHolder

\* A step in which one goroutine at most gets in or out, and after which there
\* is still one holder at most, is a step of the abstract lock.
LEMMA MoveIsExclusion ==
  ASSUME HeldInv, HeldInv', NEW g \in Goroutines,
         \A h \in Goroutines \ {g} : pc'[h] = "held" <=> pc[h] = "held"
  PROVE  E!Next \/ Holder' = Holder
<1>1. /\ \A h \in Goroutines : pc[h] = "held" => Holder = h
      /\ (\A h \in Goroutines : pc[h] # "held") => Holder = Nobody
  BY HolderIs DEF IsHolder
<1>2. /\ \A h \in Goroutines : pc'[h] = "held" => Holder' = h
      /\ (\A h \in Goroutines : pc'[h] # "held") => Holder' = Nobody
  <2>1. IsHolder'
    BY HolderIs, PTL
  <2>. QED
    BY <2>1 DEF IsHolder
<1>3. CASE pc[g] = "held" <=> pc'[g] = "held"
  BY <1>1, <1>2, <1>3
<1>4. CASE pc[g] # "held" /\ pc'[g] = "held"
  <2>1. \A h \in Goroutines : pc[h] # "held"
    BY <1>4 DEF HeldInv
  <2>. QED
    BY <1>1, <1>2, <1>4, <2>1 DEF E!Next, E!Acquire
<1>5. CASE pc[g] = "held" /\ pc'[g] # "held"
  <2>1. \A h \in Goroutines : pc'[h] # "held"
    BY <1>5 DEF HeldInv
  <2>. QED
    BY <1>1, <1>2, <1>5, <2>1 DEF E!Next, E!Release
<1>. QED
  BY <1>3, <1>4, <1>5

\* Every step of the mutex is one of the abstract lock, or changes no holder.
LEMMA NextIsExclusion == SafeInv /\ SafeInv' /\ [Next]_vars => [E!Next]_Holder
<1>. SUFFICES ASSUME SafeInv, SafeInv', [Next]_vars PROVE E!Next \/ Holder' = Holder
  OBVIOUS
<1>a. pc \in [Goroutines -> LockPcs \cup UnlockPcs \cup {"idle", "held", "thrown"}] /\ HeldInv /\ HeldInv'
  BY DEF SafeInv, TypeOK
<1>1. CASE UNCHANGED vars
  BY <1>1 DEF vars, Holder
<1>2. ASSUME NEW g \in Goroutines, Lock(g) \/ Step(g)
      PROVE  E!Next \/ Holder' = Holder
  <2>1. CASE Rouse(g)
    <3>1. \A h \in Goroutines \ {g} : pc'[h] = "held" <=> pc[h] = "held"
      <4>. DEFINE s == loc[g].next
      <4>1. pc[s] = "parked" /\ s \in Goroutines /\ pc' = [pc EXCEPT ![g] = "idle", ![s] = "ready"]
        BY <2>1 DEF SafeInv, QueueInv, Rouse
      <4>. HIDE DEF s
      <4>. QED
        BY <1>a, <4>1
    <3>. QED
      BY <1>a, <3>1, MoveIsExclusion
  <2>2. CASE ~Rouse(g)
    <3>1. \E from, to : Goto(g, from, to)
      BY <1>2, <2>2 DEF Step, Lock, Spin, Try, Wake, Own, SemTry, SemSleep, SemRetry, Unlock, WakeOne,
                        SemRelease, Dequeue
    <3>2. \A h \in Goroutines \ {g} : pc'[h] = "held" <=> pc[h] = "held"
      BY <1>a, <3>1 DEF Goto
    <3>. QED
      BY <1>a, <3>2, MoveIsExclusion
  <2>. QED
    BY <2>1, <2>2
<1>. QED
  BY <1>1, <1>2 DEF Next

\* Lock and Unlock, with all that goes on inside them, are the lock of the
\* abstract specification: mutual exclusion is what Store relies on when its
\* own Lock waits for mu = Nobody.
THEOREM Refinement == Spec => ImplementsExclusion
<1>1. Init => E!Init
  BY DEF Init, E!Init, Holder
<1>2. SafeInv /\ SafeInv' /\ [Next]_vars => [E!Next]_Holder
  BY NextIsExclusion
<1>. QED
  BY <1>1, <1>2, SafeInvariance, PTL DEF Spec, ImplementsExclusion, E!Spec

-----------------------------------------------------------------------------
(* No wake-up is lost. *)

Others(g) == \A h \in Goroutines \ {g} : pc'[h] = pc[h] /\ loc'[h] = loc[h]

\* A step of a goroutine, other than waking another, is a step of it alone.
LEMMA StepMoves ==
  ASSUME SafeInv, NEW g \in Goroutines, Lock(g) \/ Step(g), ~Rouse(g)
  PROVE  Others(g) /\ pc' \in [Goroutines -> LockPcs \cup UnlockPcs \cup {"idle", "held", "thrown"}]
<1>1. pc \in [Goroutines -> LockPcs \cup UnlockPcs \cup {"idle", "held", "thrown"}] /\ loc \in [Goroutines -> Locals]
  BY DEF SafeInv, TypeOK, LocalsInv
<1>2. \E from, to : Goto(g, from, to)
  BY DEF Step, Lock, Spin, Try, Wake, Own, SemTry, SemSleep, SemRetry, Unlock, WakeOne, SemRelease, Dequeue
<1>3. \A h \in Goroutines \ {g} : pc'[h] = pc[h]
  BY <1>1, <1>2 DEF Goto
<1>4. ASSUME NEW h \in Goroutines, h # g PROVE loc'[h] = loc[h]
  <2>1. CASE Lock(g)
    BY <1>1, <1>4, <2>1 DEF Lock
  <2>2. CASE Spin(g)
    BY <1>1, <1>4, <2>2 DEF Spin
  <2>3. CASE Try(g)
    BY <1>1, <1>4, <2>3 DEF Try
  <2>4. CASE Wake(g)
    BY <1>1, <1>4, <2>4 DEF Wake
  <2>5. CASE Unlock(g)
    BY <1>1, <1>4, <2>5 DEF Unlock
  <2>6. CASE WakeOne(g)
    BY <1>1, <1>4, <2>6 DEF WakeOne
  <2>7. CASE Dequeue(g)
    BY <1>1, <1>4, <2>7 DEF Dequeue
  <2>8. CASE Own(g) \/ SemTry(g) \/ SemSleep(g) \/ SemRetry(g) \/ SemRelease(g)
    BY <2>8 DEF Own, SemTry, SemSleep, SemRetry, SemRelease
  <2>. QED
    BY <2>1, <2>2, <2>3, <2>4, <2>5, <2>6, <2>7, <2>8 DEF Step
<1>5. SafeInv'
  BY NextSafeInv DEF Next
<1>. QED
  BY <1>3, <1>4, <1>5 DEF Others, SafeInv, TypeOK

\* Where the queue is the same, who was to be woken is still.
LEMMA ParkedSame ==
  ASSUME ParkedInv, NEW g \in Goroutines, Others(g), queue' = queue, pc[g] # "rouse", pc'[g] # "parked"
  PROVE  ParkedInv'
<1>. SUFFICES ASSUME NEW k \in Goroutines, pc'[k] = "parked"
              PROVE  \/ \E i \in 1 .. Len(queue) : queue[i] = k
                     \/ \E h \in Goroutines : pc'[h] = "rouse" /\ loc'[h].next = k
  BY DEF ParkedInv
<1>1. pc[k] = "parked"
  BY DEF Others
<1>2. CASE \E i \in 1 .. Len(queue) : queue[i] = k
  BY <1>2
<1>3. ASSUME NEW h \in Goroutines, pc[h] = "rouse", loc[h].next = k
      PROVE  pc'[h] = "rouse" /\ loc'[h].next = k
  BY <1>3 DEF Others
<1>. QED
  BY <1>1, <1>2, <1>3 DEF ParkedInv

\* Whoever was in the queue still is, and so is the newcomer.
LEMMA StillQueued ==
  ASSUME NEW q \in Seq(Goroutines), NEW g \in Goroutines, NEW r, IsQueued(q, g, r)
  PROVE  /\ \E i \in 1 .. Len(r) : r[i] = g
         /\ \A j \in 1 .. Len(q) : \E i \in 1 .. Len(r) : r[i] = q[j]
<1>1. CASE r = Append(q, g)
  <2>1. Len(r) = Len(q) + 1 /\ Len(q) \in Nat /\ r[Len(q) + 1] = g
    BY <1>1
  <2>2. \A j \in 1 .. Len(q) : r[j] = q[j] /\ j \in 1 .. Len(r)
    BY <1>1, <2>1
  <2>. QED
    BY <2>1, <2>2
<1>2. CASE r = <<g>> \o q
  <2>1. Len(r) = Len(q) + 1 /\ Len(q) \in Nat /\ r[1] = g
    BY <1>2
  <2>2. \A j \in 1 .. Len(q) : r[j + 1] = q[j] /\ j + 1 \in 1 .. Len(r)
    BY <1>2, <2>1
  <2>. QED
    BY <2>1, <2>2
<1>. QED
  BY <1>1, <1>2 DEF IsQueued

\* Going to sleep, and taking a sleeper out of the queue.
LEMMA ParkedQueue ==
  ASSUME SafeInv, ParkedInv, NEW g \in Goroutines, SemSleep(g) \/ Dequeue(g)
  PROVE  ParkedInv'
<1>0. Others(g)
  BY StepMoves DEF Step, Rouse, SemSleep, Dequeue, Goto
<1>1. /\ queue \in Seq(Goroutines) /\ pc \in [Goroutines -> LockPcs \cup UnlockPcs \cup {"idle", "held", "thrown"}]
      /\ loc \in [Goroutines -> Locals]
  BY DEF SafeInv, TypeOK, LocalsInv
<1>2. CASE SemSleep(g)
  <2>1. pc[g] = "queue" /\ loc' = loc
    BY <1>2 DEF SemSleep, Goto
  <2>2. CASE sema > 0
    <3>1. queue' = queue /\ pc'[g] = "woken"
      BY <1>1, <1>2, <2>2 DEF SemSleep, Goto
    <3>. QED
      BY <1>0, <2>1, <3>1, ParkedSame
  <2>3. CASE ~(sema > 0)
    <3>1. IsQueued(queue, g, queue')
      BY <1>2, <2>3 DEF SemSleep, IsQueued
    <3>2. /\ \E i \in 1 .. Len(queue') : queue'[i] = g
          /\ \A j \in 1 .. Len(queue) : \E i \in 1 .. Len(queue') : queue'[i] = queue[j]
      BY <1>1, <3>1, StillQueued
    <3>3. ASSUME NEW k \in Goroutines, pc'[k] = "parked", k # g
          PROVE  \/ \E i \in 1 .. Len(queue') : queue'[i] = k
                 \/ \E h \in Goroutines : pc'[h] = "rouse" /\ loc'[h].next = k
      <4>1. pc[k] = "parked"
        BY <1>0, <3>3 DEF Others
      <4>2. ASSUME NEW h \in Goroutines, pc[h] = "rouse", loc[h].next = k
            PROVE  pc'[h] = "rouse" /\ loc'[h].next = k
        BY <1>0, <2>1, <4>2 DEF Others
      <4>. QED
        BY <3>2, <4>1, <4>2 DEF ParkedInv
    <3>. QED
      BY <3>2, <3>3 DEF ParkedInv
  <2>. QED
    BY <2>2, <2>3
<1>3. CASE Dequeue(g)
  <2>1. pc[g] = "dequeue"
    BY <1>3 DEF Dequeue, Goto
  <2>2. CASE queue = <<>>
    <3>1. queue' = queue /\ pc'[g] = "idle"
      BY <1>1, <1>3, <2>2 DEF Dequeue, Goto
    <3>. QED
      BY <1>0, <2>1, <3>1, ParkedSame
  <2>3. CASE queue # <<>>
    <3>1. pc'[g] = "rouse" /\ queue' = Tail(queue)
      BY <1>1, <1>3, <2>3 DEF Dequeue, Goto
    <3>2. loc'[g].next = Head(queue)
      <4>1. loc' = [loc EXCEPT ![g] = [loc[g] EXCEPT !.next = Head(queue)]]
        BY <1>3, <2>3 DEF Dequeue
      <4>2. loc'[g] = [loc[g] EXCEPT !.next = Head(queue)] /\ loc[g] \in Locals
        BY <1>1, <4>1
      <4>. QED
        BY <4>2 DEF Locals
    <3>3. \A i \in 1 .. Len(queue) : queue[i] = Head(queue) \/ \E j \in 1 .. Len(queue') : queue'[j] = queue[i]
      <4>1. Head(queue) = queue[1] /\ Len(queue') = Len(queue) - 1 /\ Len(queue) \in Nat
        BY <1>1, <2>3, <3>1
      <4>2. \A j \in 1 .. Len(queue') : queue'[j] = queue[j + 1]
        BY <1>1, <2>3, <3>1, <4>1
      <4>3. \A i \in 1 .. Len(queue) : i = 1 \/ (i - 1 \in 1 .. Len(queue') /\ (i - 1) + 1 = i)
        BY <4>1
      <4>. QED
        BY <4>1, <4>2, <4>3
    <3>4. ASSUME NEW k \in Goroutines, pc'[k] = "parked"
          PROVE  \/ \E i \in 1 .. Len(queue') : queue'[i] = k
                 \/ \E h \in Goroutines : pc'[h] = "rouse" /\ loc'[h].next = k
      <4>1. pc[k] = "parked"
        BY <1>0, <3>1, <3>4 DEF Others
      <4>2. ASSUME NEW h \in Goroutines, pc[h] = "rouse", loc[h].next = k
            PROVE  pc'[h] = "rouse" /\ loc'[h].next = k
        BY <1>0, <2>1, <4>2 DEF Others
      <4>. QED
        BY <3>1, <3>2, <3>3, <4>1, <4>2 DEF ParkedInv
    <3>. QED
      BY <3>4 DEF ParkedInv
  <2>. QED
    BY <2>2, <2>3
<1>. QED
  BY <1>2, <1>3

\* Waking a sleeper.
LEMMA ParkedRouse ==
  ASSUME SafeInv, ParkedInv, NEW g \in Goroutines, Rouse(g)
  PROVE  ParkedInv'
<1>. DEFINE s == loc[g].next
<1>1. /\ pc[g] = "rouse" /\ s \in Goroutines /\ pc[s] = "parked"
  BY DEF SafeInv, QueueInv, Rouse
<1>2. /\ pc' = [pc EXCEPT ![g] = "idle", ![s] = "ready"] /\ loc' = [loc EXCEPT ![g] = NoLocals]
      /\ queue' = queue
  BY DEF Rouse
<1>. HIDE DEF s
<1>3. /\ pc'[s] = "ready" /\ pc'[g] # "parked"
      /\ \A h \in Goroutines \ {g, s} : pc'[h] = pc[h] /\ loc'[h] = loc[h]
  BY <1>1, <1>2 DEF SafeInv, TypeOK, LocalsInv
<1>4. ASSUME NEW k \in Goroutines, pc'[k] = "parked"
      PROVE  \/ \E i \in 1 .. Len(queue') : queue'[i] = k
             \/ \E h \in Goroutines : pc'[h] = "rouse" /\ loc'[h].next = k
  <2>1. pc[k] = "parked" /\ k # s
    BY <1>3, <1>4
  <2>2. ASSUME NEW h \in Goroutines, pc[h] = "rouse", loc[h].next = k
        PROVE  pc'[h] = "rouse" /\ loc'[h].next = k
    <3>1. h # g /\ h # s
      BY <1>1, <2>1, <2>2 DEF s
    <3>. QED
      BY <1>3, <2>2, <3>1
  <2>. QED
    BY <1>2, <2>1, <2>2 DEF ParkedInv
<1>. QED
  BY <1>4 DEF ParkedInv

PcType == LockPcs \cup UnlockPcs \cup {"idle", "held", "thrown"}

\* Every step keeps ParkedInv.
LEMMA ParkedStep ==
  ASSUME SafeInv, ParkedInv, NEW g \in Goroutines, Lock(g) \/ Step(g)
  PROVE  ParkedInv'
<1>1. CASE SemSleep(g) \/ Dequeue(g)
  BY <1>1, ParkedQueue
<1>2. CASE Rouse(g)
  BY <1>2, ParkedRouse
<1>3. CASE ~(SemSleep(g) \/ Dequeue(g) \/ Rouse(g))
  <2>0. pc \in [Goroutines -> PcType]
    BY DEF SafeInv, TypeOK, PcType
  <2>1. Others(g)
    BY <1>3, StepMoves
  <2>2. queue' = queue
    BY <1>3 DEF Step, Lock, Spin, Try, Wake, Own, SemTry, SemRetry, Unlock, WakeOne, SemRelease
  <2>3. CASE Lock(g) \/ Spin(g) \/ Own(g) \/ SemTry(g) \/ SemRetry(g) \/ SemRelease(g)
    BY <2>0, <2>1, <2>2, <2>3, ParkedSame DEF Lock, Spin, Own, SemTry, SemRetry, SemRelease, Goto
  <2>4. CASE Try(g) \/ Wake(g)
    BY <2>0, <2>1, <2>2, <2>4, ParkedSame DEF Try, Wake, Goto
  <2>5. CASE Unlock(g) \/ WakeOne(g)
    BY <2>0, <2>1, <2>2, <2>5, ParkedSame DEF Unlock, WakeOne, Goto
  <2>. QED
    BY <1>3, <2>3, <2>4, <2>5 DEF Step
<1>. QED
  BY <1>1, <1>2, <1>3

\* The semaphore holds one wake-up at most.
LEMMA OneInSema == SafeInv => sema \in {0, 1}
<1>. SUFFICES ASSUME SafeInv PROVE sema \in {0, 1}
  OBVIOUS
<1>1. Cardinality(Carriers) \in Nat /\ Cardinality(Awake) \in Nat
  <2>1. Carriers \in SUBSET Goroutines /\ Awake \in SUBSET Goroutines
    BY DEF Carriers, Awake
  <2>2. IsFiniteSet(Carriers) /\ IsFiniteSet(Awake)
    BY <2>1, MutexAssumption, FS_Subset
  <2>. QED
    BY <2>2, FS_CardinalityType
<1>2. sema \in Nat /\ WakeInv
  BY DEF SafeInv, TypeOK
<1>. QED
  BY <1>1, <1>2 DEF WakeInv, Permits

\* A step that leaves the semaphore and its queue alone, of a goroutine the
\* wake-up does not depend on.
LEMMA SemaSame ==
  ASSUME SemaInv, NEW g \in Goroutines, Others(g), sema' = sema, queue' = queue,
         pc[g] \notin {"dequeue", "rouse", "ready"}
  PROVE  SemaInv'
<1>. SUFFICES ASSUME sema > 0, queue # <<>>
              PROVE  \E h \in Goroutines : pc'[h] \in {"dequeue", "rouse", "ready"}
  BY DEF SemaInv
<1>1. PICK h \in Goroutines : pc[h] \in {"dequeue", "rouse", "ready"}
  BY DEF SemaInv
<1>2. h # g /\ pc'[h] = pc[h]
  BY <1>1 DEF Others
<1>. QED
  BY <1>1, <1>2

\* Every step keeps SemaInv: a wake-up that is put into the semaphore is followed
\* by a look into the queue, and whoever is taken out of it tries again.
LEMMA SemaStep ==
  ASSUME SafeInv, SemaInv, NEW g \in Goroutines, Lock(g) \/ Step(g)
  PROVE  SemaInv'
<1>0. pc \in [Goroutines -> PcType] /\ sema \in {0, 1} /\ QueueInv
  BY OneInSema DEF SafeInv, TypeOK, PcType
<1>1. CASE Lock(g) \/ Spin(g) \/ Try(g) \/ Wake(g) \/ Own(g) \/ Unlock(g) \/ WakeOne(g)
  <2>1. sema' = sema /\ queue' = queue
    BY <1>1 DEF Lock, Spin, Try, Wake, Own, Unlock, WakeOne
  <2>2. pc[g] \notin {"dequeue", "rouse", "ready"}
    BY <1>1 DEF Lock, Spin, Try, Wake, Own, Unlock, WakeOne, Goto
  <2>3. Others(g)
    BY <2>2, StepMoves DEF Rouse
  <2>. QED
    BY <2>1, <2>2, <2>3, SemaSame
<1>2. CASE SemTry(g) \/ SemSleep(g)
  <2>1. sema' = 0
    BY <1>0, <1>2 DEF SemTry, SemSleep
  <2>. QED
    BY <2>1 DEF SemaInv
<1>3. CASE SemRetry(g)
  <2>1. g \in ticket => sema = 0
    BY OnePermit DEF Carriers
  <2>2. sema' = 0
    BY <1>0, <1>3, <2>1 DEF SemRetry
  <2>. QED
    BY <2>2 DEF SemaInv
<1>4. CASE SemRelease(g)
  <2>1. pc'[g] = "dequeue"
    BY <1>0, <1>4 DEF SemRelease, Goto
  <2>. QED
    BY <2>1 DEF SemaInv
<1>5. CASE Dequeue(g)
  <2>1. queue' = <<>> \/ pc'[g] = "rouse"
    BY <1>0, <1>5 DEF Dequeue, Goto
  <2>. QED
    BY <2>1 DEF SemaInv
<1>6. CASE Rouse(g)
  <2>. DEFINE s == loc[g].next
  <2>1. s \in Goroutines /\ pc' = [pc EXCEPT ![g] = "idle", ![s] = "ready"]
    BY <1>0, <1>6 DEF Rouse, QueueInv
  <2>. HIDE DEF s
  <2>2. pc'[s] = "ready"
    BY <1>0, <2>1
  <2>. QED
    BY <2>1, <2>2 DEF SemaInv
<1>. QED
  BY <1>1, <1>2, <1>3, <1>4, <1>5, <1>6 DEF Step

Offered(w) == w % mutexWaiter = 0 /\ Waiters(w) # 0

\* A word with waiters is on offer when none of its flags is set.
LEMMA OfferedWord ==
  ASSUME NEW w \in Nat
  PROVE  Offered(w) <=> /\ ~Has(w, mutexLocked) /\ ~Has(w, mutexWoken) /\ ~Has(w, mutexStarving)
                        /\ Waiters(w) # 0
BY DEF Offered, Has, Waiters, mutexLocked, mutexWoken, mutexStarving, mutexWaiter

\* A step that leaves the word alone, of a goroutine that makes no offer.
LEMMA OfferSame ==
  ASSUME OfferInv, word' = word,
         \A h \in Goroutines : pc[h] = "wake" => pc'[h] = pc[h] /\ loc'[h] = loc[h]
  PROVE  OfferInv'
BY DEF OfferInv

\* A compare-and-swap of lockSlow leaves a flag set: the lock's, or, if it was
\* not to be had, that of the mode or of its holder.
LEMMA OfferTry ==
  ASSUME SafeInv, OfferInv, NEW g \in Goroutines, Try(g), Others(g)
  PROVE  OfferInv'
<1>. DEFINE l == loc[g]
<1>1. /\ pc[g] = "try" /\ l \in Locals /\ word \in Nat /\ (l.awoke => Has(l.old, mutexWoken))
  BY DEF SafeInv, TypeOK, LocalsInv, Try, Goto
<1>2. CASE word' = word
  <2>1. \A h \in Goroutines : pc[h] = "wake" => pc'[h] = pc[h] /\ loc'[h] = loc[h]
    BY <1>1 DEF Others
  <2>. QED
    BY <1>2, <2>1, OfferSame
<1>3. CASE word' # word
  <2>1. word' = Wanted(l)
    BY <1>3 DEF Try
  <2>2. word' \in Nat /\ (Has(word', mutexLocked) \/ Has(word', mutexStarving))
    BY <1>1, <2>1, WantedWord DEF Free
  <2>3. ~Offered(word')
    BY <2>2, OfferedWord
  <2>. QED
    BY <2>3 DEF OfferInv, Offered
<1>. QED
  BY <1>2, <1>3

\* Unlock, that leaves the lock to its waiters, offers it itself.
LEMMA OfferUnlock ==
  ASSUME SafeInv, NEW g \in Goroutines, Unlock(g)
  PROVE  OfferInv'
<1>. DEFINE new == word - mutexLocked
<1>1. /\ pc \in [Goroutines -> PcType] /\ loc \in [Goroutines -> Locals]
      /\ word \in Nat /\ Has(word, mutexLocked) /\ word' = new
  BY DEF SafeInv, TypeOK, LocalsInv, HeldInv, PcType, Unlock, Goto
<1>2. new \in Nat
  BY <1>1, ClearLocked
<1>. SUFFICES ASSUME Offered(new)
              PROVE  pc'[g] = "wake" /\ Offered(loc'[g].old)
  BY <1>1 DEF OfferInv, Offered
<1>3. new # 0 /\ ~Has(new, mutexStarving)
  BY <1>2, OfferedWord, Zero
<1>4. pc'[g] = "wake"
  BY <1>1, <1>3 DEF Unlock, Goto
<1>5. loc'[g] = [NoLocals EXCEPT !.old = new]
  BY <1>1, <1>4 DEF Unlock
<1>. QED
  BY <1>4, <1>5 DEF NoLocals

\* WakeOne, that does not take the right to wake a waiter, has seen what the
\* word is now and will come back.
LEMMA OfferWake ==
  ASSUME SafeInv, OfferInv, NEW g \in Goroutines, WakeOne(g), Others(g)
  PROVE  OfferInv'
<1>. DEFINE old == loc[g].old
<1>1. /\ pc \in [Goroutines -> PcType] /\ loc \in [Goroutines -> Locals] /\ word \in Nat /\ pc[g] = "wake"
  BY DEF SafeInv, TypeOK, LocalsInv, PcType, WakeOne, Goto
<1>2. CASE Offered(old) /\ word = old
  <2>1. word' = word - mutexWaiter + mutexWoken
    BY <1>2 DEF WakeOne, Offered
  <2>2. word' \in Nat /\ Has(word', mutexWoken)
    BY <1>1, <1>2, <2>1, WakeWord DEF Offered
  <2>3. ~Offered(word')
    BY <2>2, OfferedWord
  <2>. QED
    BY <2>3 DEF OfferInv, Offered
<1>3. CASE Offered(old) /\ word # old
  <2>1. word' = word /\ pc'[g] = "wake" /\ loc' = [loc EXCEPT ![g].old = word]
    BY <1>1, <1>3 DEF WakeOne, Goto, Offered
  <2>2. loc'[g].old = word
    BY <1>1, <2>1 DEF Locals
  <2>. QED
    BY <2>1, <2>2 DEF OfferInv
<1>4. CASE ~Offered(old)
  <2>1. word' = word
    BY <1>4 DEF WakeOne, Offered
  <2>2. \A h \in Goroutines : pc[h] = "wake" /\ Offered(loc[h].old) => pc'[h] = pc[h] /\ loc'[h] = loc[h]
    BY <1>4 DEF Others
  <2>. QED
    BY <2>1, <2>2 DEF OfferInv, Offered
<1>. QED
  BY <1>2, <1>3, <1>4

\* Every step keeps OfferInv.
LEMMA OfferStep ==
  ASSUME SafeInv, OfferInv, NEW g \in Goroutines, Lock(g) \/ Step(g)
  PROVE  OfferInv'
<1>0. /\ pc \in [Goroutines -> PcType] /\ loc \in [Goroutines -> Locals] /\ word \in Nat
      /\ QueueInv /\ HeldInv' /\ word' \in Nat
  BY NextSafeInv DEF Next, SafeInv, TypeOK, LocalsInv, PcType
<1>1. CASE Rouse(g)
  <2>. DEFINE s == loc[g].next
  <2>1. /\ pc[g] = "rouse" /\ s \in Goroutines /\ pc[s] = "parked"
        /\ pc' = [pc EXCEPT ![g] = "idle", ![s] = "ready"] /\ loc' = [loc EXCEPT ![g] = NoLocals]
        /\ word' = word
    BY <1>0, <1>1 DEF Rouse, QueueInv
  <2>. HIDE DEF s
  <2>2. \A h \in Goroutines : pc[h] = "wake" => pc'[h] = pc[h] /\ loc'[h] = loc[h]
    BY <1>0, <2>1
  <2>. QED
    BY <2>1, <2>2, OfferSame
<1>2. CASE ~Rouse(g)
  <2>0. Others(g)
    BY <1>2, StepMoves
  <2>1. CASE Try(g)
    BY <2>0, <2>1, OfferTry
  <2>2. CASE Unlock(g)
    BY <2>2, OfferUnlock
  <2>3. CASE WakeOne(g)
    BY <2>0, <2>3, OfferWake
  <2>4. ASSUME word' = word, pc[g] # "wake" PROVE OfferInv'
    <3>1. \A h \in Goroutines : pc[h] = "wake" => pc'[h] = pc[h] /\ loc'[h] = loc[h]
      BY <2>0, <2>4 DEF Others
    <3>. QED
      BY <2>4, <3>1, OfferSame
  <2>5. ASSUME Has(word', mutexLocked) \/ Has(word', mutexWoken) PROVE OfferInv'
    <3>1. ~Offered(word')
      BY <1>0, <2>5, OfferedWord
    <3>. QED
      BY <3>1 DEF OfferInv, Offered
  <2>6. CASE Lock(g)
    <3>1. CASE word = 0
      <4>1. pc'[g] = "held"
        BY <1>0, <2>6, <3>1 DEF Lock, Goto
      <4>. QED
        BY <1>0, <2>5, <4>1 DEF HeldInv
    <3>2. CASE word # 0
      BY <2>4, <2>6, <3>2 DEF Lock, Goto
    <3>. QED
      BY <3>1, <3>2
  <2>7. CASE Spin(g)
    <3>1. CASE word' = word
      BY <2>4, <2>7, <3>1 DEF Spin, Goto
    <3>2. CASE word' # word
      <4>1. word' = word + mutexWoken /\ ~Has(word, mutexWoken)
        BY <2>7, <3>2 DEF Spin
      <4>. QED
        BY <1>0, <2>5, <4>1, SetWoken
    <3>. QED
      BY <3>1, <3>2
  <2>8. CASE Own(g)
    <3>1. pc'[g] = "held"
      BY <1>0, <2>8 DEF Own, Goto
    <3>. QED
      BY <1>0, <2>5, <3>1 DEF HeldInv
  <2>9. CASE Wake(g) \/ SemTry(g) \/ SemSleep(g) \/ SemRetry(g) \/ SemRelease(g) \/ Dequeue(g)
    BY <2>4, <2>9 DEF Wake, SemTry, SemSleep, SemRetry, SemRelease, Dequeue, Goto
  <2>. QED
    BY <1>2, <2>1, <2>2, <2>3, <2>6, <2>7, <2>8, <2>9 DEF Step
<1>. QED
  BY <1>1, <1>2

\* No goroutine sleeps at first, and every step keeps who it will be woken by.
THEOREM Invariance == Spec => []IndInv
<1>1. Init => IndInv
  <2>. SUFFICES ASSUME Init PROVE IndInv
    OBVIOUS
  <2>1. SafeInv
    BY InitSafeInv
  <2>2. ParkedInv /\ SemaInv /\ OfferInv
    BY Zero DEF Init, ParkedInv, SemaInv, OfferInv
  <2>. QED
    BY <2>1, <2>2 DEF IndInv
<1>2. IndInv /\ [Next]_vars => IndInv'
  <2>. SUFFICES ASSUME IndInv, [Next]_vars PROVE IndInv'
    OBVIOUS
  <2>1. SafeInv'
    BY NextSafeInv DEF IndInv
  <2>2. CASE UNCHANGED vars
    BY <2>1, <2>2 DEF vars, IndInv, ParkedInv, SemaInv, OfferInv
  <2>3. ASSUME NEW g \in Goroutines, Lock(g) \/ Step(g) PROVE ParkedInv' /\ SemaInv' /\ OfferInv'
    BY <2>3, ParkedStep, SemaStep, OfferStep DEF IndInv
  <2>. QED
    BY <2>1, <2>2, <2>3 DEF Next, IndInv
<1>. QED
  BY <1>1, <1>2, PTL DEF Spec

\* While a goroutine is parked another one can go on, so that Lock and Unlock
\* never leave everybody asleep: if nobody held the lock, carried a wake-up or
\* were awake, the word would count the sleeper, and the lock would be on offer.
THEOREM NoLostWakeupEver == Spec => []NoLostWakeup
<1>1. ASSUME IndInv PROVE NoLostWakeup
  <2>. SUFFICES ASSUME NEW g \in Goroutines, pc[g] = "parked",
                       \A h \in Goroutines : pc[h] \in {"parked", "idle", "thrown"}
                PROVE  FALSE
    BY DEF NoLostWakeup
  <2>1. /\ word \in Nat /\ sema \in {0, 1} /\ HeldInv /\ WakeInv /\ CountInv /\ QueueInv
        /\ ParkedInv /\ SemaInv /\ OfferInv /\ ticket \subseteq Goroutines
    BY <1>1, OneInSema DEF IndInv, SafeInv, TypeOK
  <2>2. ~Has(word, mutexLocked)
    BY <2>1 DEF HeldInv
  <2>3. Carriers = {} /\ Awake = {}
    BY <2>1 DEF Carriers, Awake, QueueInv
  <2>4. Cardinality(Carriers) = 0 /\ Cardinality(Awake) = 0
    BY <2>3, FS_EmptySet
  <2>5. sema = 0
    <3>1. queue # <<>>
      BY <2>1 DEF ParkedInv
    <3>. QED
      BY <2>1, <3>1 DEF SemaInv
  <2>6. Permits = 0
    BY <2>4, <2>5 DEF Permits
  <2>7. ~Has(word, mutexStarving) /\ ~Has(word, mutexWoken)
    BY <2>1, <2>2, <2>4, <2>6 DEF WakeInv
  <2>8. Waiters(word) # 0
    <3>1. Sleepers \in SUBSET Goroutines /\ g \in Sleepers
      BY DEF Sleepers
    <3>2. Cardinality(Sleepers) >= 1
      BY <3>1, CountStep
    <3>3. Cardinality(Sleepers) = Waiters(word) + 0
      BY <2>1, <2>6, <2>7 DEF CountInv
    <3>. QED
      BY <3>2, <3>3
  <2>9. Offered(word)
    BY <2>1, <2>2, <2>7, <2>8, OfferedWord
  <2>. QED
    BY <2>1, <2>9 DEF OfferInv, Offered
<1>. QED
  BY <1>1, Invariance, PTL
=============================================================================
