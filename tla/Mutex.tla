-------------------------------- MODULE Mutex --------------------------------
(***************************************************************************)
(* sync.Mutex, the lock that Store takes for granted: Lock and Unlock with *)
(* their slow paths, and the semaphore they sleep on (runtime/sema.go),    *)
(* one action per atomic instruction or critical section of the runtime.   *)
(*                                                                         *)
(* The state word is an integer, as in the code: bit 0 locked, bit 1 woken,*)
(* bit 2 starving, and the number of waiters above. Reading the word again *)
(* after a compare-and-swap that failed is part of that step. Whether a    *)
(* goroutine spins and whether it has waited for more than 1 ms is left    *)
(* open.                                                                   *)
(***************************************************************************)
EXTENDS Integers, Sequences, FiniteSets

CONSTANTS
  Goroutines,
  Nobody,
  MaxCalls,   \* bound: MaxCalls[g] is how often g locks and unlocks
  MaxSpins    \* active_spin, how often a goroutine spins before it sleeps

ASSUME MutexAssumption ==
  /\ IsFiniteSet(Goroutines) /\ Nobody \notin Goroutines
  /\ MaxCalls \in [Goroutines -> Nat] /\ MaxSpins \in Nat

VARIABLES
  word,    \* Mutex.state
  sema,    \* Mutex.sema
  queue,   \* the goroutines parked on sema
  ticket,  \* the goroutines that were handed the semaphore itself
  pc,      \* pc[g]: where g is in Lock or Unlock
  loc,     \* loc[g]: the local variables of lockSlow and unlockSlow
  calls    \* calls[g]: how often g has called Lock

vars == <<word, sema, queue, ticket, pc, loc, calls>>

mutexLocked   == 1
mutexWoken    == 2
mutexStarving == 4
mutexWaiter   == 8   \* 1 << mutexWaiterShift

Has(w, flag) == (w \div flag) % 2 = 1
Waiters(w)   == w \div mutexWaiter

\* Mutant: a mutex about to be handed over looks free to a newcomer.
FreeUnlocked(w) == ~Has(w, mutexLocked)

\* The mutex can be had: neither held nor promised to a waiter.
Free(w) == ~Has(w, mutexLocked) /\ ~Has(w, mutexStarving)

\* next is the goroutine that semrelease1 has dequeued.
NoLocals == [old |-> 0, awoke |-> FALSE, starving |-> FALSE, waited |-> FALSE, lifo |-> FALSE,
             iter |-> 0, next |-> Nobody]

Init ==
  /\ word = 0 /\ sema = 0 /\ queue = <<>> /\ ticket = {}
  /\ pc = [g \in Goroutines |-> "idle"]
  /\ loc = [g \in Goroutines |-> NoLocals]
  /\ calls = [g \in Goroutines |-> 0]

Goto(g, from, to) ==
  /\ pc[g] = from
  /\ pc' = [pc EXCEPT ![g] = to]

-----------------------------------------------------------------------------
(* Lock and lockSlow. *)

Lock(g) ==
  /\ calls[g] < MaxCalls[g]
  /\ calls' = [calls EXCEPT ![g] = @ + 1]
  /\ Goto(g, "idle", IF word = 0 THEN "held" ELSE "try")
  /\ word' = IF word = 0 THEN mutexLocked ELSE word
  /\ loc' = [loc EXCEPT ![g] = [NoLocals EXCEPT !.old = word]]
  /\ UNCHANGED <<sema, queue, ticket>>

\* Active spinning; the woken flag tells Unlock not to wake anybody else.
Spin(g) ==
  LET l == loc[g]
      sets == ~l.awoke /\ ~Has(l.old, mutexWoken) /\ Waiters(l.old) # 0 /\ word = l.old
      seen == IF sets THEN word + mutexWoken ELSE word
  IN  /\ Goto(g, "try", "try")
      /\ Has(l.old, mutexLocked) /\ ~Has(l.old, mutexStarving) /\ l.iter < MaxSpins
      /\ word' = seen
      /\ loc' = [loc EXCEPT ![g] = [l EXCEPT !.awoke = @ \/ sets, !.iter = @ + 1, !.old = seen]]
      /\ UNCHANGED <<sema, queue, ticket, calls>>

\* Mutant: a woken goroutine leaves the woken flag set.
WantedWoken(l) ==
  l.old
    + (IF Free(l.old) THEN mutexLocked ELSE mutexWaiter)
    + (IF l.starving /\ Has(l.old, mutexLocked) /\ ~Has(l.old, mutexStarving) THEN mutexStarving ELSE 0)

\* The word lockSlow wants: the lock if it is free, else one more waiter, the
\* starvation mode if this goroutine has waited too long for a held lock, and
\* the woken flag cleared if it was set for this goroutine. A lock bit that is
\* already set stays set.
Wanted(l) ==
  l.old
    + (IF Free(l.old) THEN mutexLocked ELSE mutexWaiter)
    + (IF l.starving /\ Has(l.old, mutexLocked) /\ ~Has(l.old, mutexStarving) THEN mutexStarving ELSE 0)
    - (IF l.awoke THEN mutexWoken ELSE 0)

Try(g) ==
  LET l == loc[g]
  IN  /\ Goto(g, "try",
              IF l.awoke /\ ~Has(l.old, mutexWoken) THEN "thrown"
              ELSE IF word # l.old THEN "try"
              ELSE IF Free(l.old) THEN "held" ELSE "acquire")
      /\ IF pc'[g] \in {"held", "acquire"}
         THEN /\ word' = Wanted(l)
              /\ loc' = [loc EXCEPT ![g].lifo = l.waited, ![g].waited = TRUE]
         ELSE /\ loc' = [loc EXCEPT ![g].old = word]
              /\ UNCHANGED word
      /\ UNCHANGED <<sema, queue, ticket, calls>>

\* Back from the semaphore. In starvation mode the lock is this goroutine's.
Wake(g) ==
  LET l == loc[g]
      bad == Has(word, mutexLocked) \/ Has(word, mutexWoken) \/ Waiters(word) = 0
  IN  /\ Goto(g, "woken", IF ~Has(word, mutexStarving) THEN "try" ELSE IF bad THEN "thrown" ELSE "own")
      /\ \E late \in BOOLEAN :
           LET m == [l EXCEPT !.starving = @ \/ late, !.old = word]
           IN  loc' = [loc EXCEPT ![g] =
                         IF Has(word, mutexStarving) THEN m ELSE [m EXCEPT !.awoke = TRUE, !.iter = 0]]
      /\ UNCHANGED <<word, sema, queue, ticket, calls>>

\* The waiter that was handed the lock takes it and is no longer a waiter; it
\* ends the starvation mode if it is the last or has not waited long.
Own(g) ==
  LET l == loc[g]
  IN  /\ Goto(g, "own", "held")
      /\ word' = word + mutexLocked - mutexWaiter
                   - (IF ~l.starving \/ Waiters(l.old) = 1 THEN mutexStarving ELSE 0)
      /\ UNCHANGED <<sema, queue, ticket, loc, calls>>

-----------------------------------------------------------------------------
(* runtime_SemacquireMutex: semacquire1. *)

\* cansemacquire, without the lock of the semaphore's root.
SemTry(g) ==
  /\ Goto(g, "acquire", IF sema > 0 THEN "woken" ELSE "queue")
  /\ sema' = IF sema > 0 THEN sema - 1 ELSE 0
  /\ UNCHANGED <<word, queue, ticket, loc, calls>>

\* Mutant: the goroutine goes to sleep without looking again.
SemSleepUnchecked(g) ==
  /\ Goto(g, "queue", "parked")
  /\ queue' = IF loc[g].lifo THEN <<g>> \o queue ELSE Append(queue, g)
  /\ UNCHANGED <<word, sema, ticket, loc, calls>>

\* With the lock: once more, then to the front of the queue if the goroutine
\* has slept before, else to its end.
SemSleep(g) ==
  /\ Goto(g, "queue", IF sema > 0 THEN "woken" ELSE "parked")
  /\ sema' = IF sema > 0 THEN sema - 1 ELSE 0
  /\ queue' = IF sema > 0 THEN queue
              ELSE IF loc[g].lifo THEN <<g>> \o queue ELSE Append(queue, g)
  /\ UNCHANGED <<word, ticket, loc, calls>>

\* Runnable again: the semaphore was handed over, or is there to be taken, or
\* the goroutine has to queue once more.
SemRetry(g) ==
  /\ Goto(g, "ready", IF g \in ticket \/ sema > 0 THEN "woken" ELSE "queue")
  /\ ticket' = ticket \ {g}
  /\ sema' = IF g \notin ticket /\ sema > 0 THEN sema - 1 ELSE sema
  /\ UNCHANGED <<word, queue, loc, calls>>

-----------------------------------------------------------------------------
(* Unlock, unlockSlow and runtime_Semrelease: semrelease1. *)

Unlock(g) ==
  LET new == word - mutexLocked
  IN  /\ Goto(g, "held",
              IF new = 0 THEN "idle"
              ELSE IF ~Has(word, mutexLocked) THEN "thrown"
              ELSE IF Has(new, mutexStarving) THEN "release" ELSE "wake")
      /\ word' = new
      /\ loc' = [loc EXCEPT ![g] = [NoLocals EXCEPT !.old = IF pc'[g] = "idle" THEN 0 ELSE new]]
      /\ UNCHANGED <<sema, queue, ticket, calls>>

\* Mutant: the flags are not looked at before a waiter is woken.
WakeOneBlindly(g) ==
  LET old == loc[g].old
      nobody == Waiters(old) = 0
  IN  /\ Goto(g, "wake", IF nobody THEN "idle" ELSE IF word = old THEN "release" ELSE "wake")
      /\ word' = IF ~nobody /\ word = old
                 THEN word - mutexWaiter + (IF Has(word, mutexWoken) THEN 0 ELSE mutexWoken) ELSE word
      /\ loc' = [loc EXCEPT ![g].old = IF nobody THEN 0 ELSE word]
      /\ UNCHANGED <<sema, queue, ticket, calls>>

\* Without starvation: nobody is woken if nobody waits, or somebody is awake or
\* has the lock; else the right to wake one waiter is taken.
WakeOne(g) ==
  LET old == loc[g].old
      nobody == Waiters(old) = 0 \/ old % mutexWaiter # 0
  IN  /\ Goto(g, "wake", IF nobody THEN "idle" ELSE IF word = old THEN "release" ELSE "wake")
      /\ word' = IF ~nobody /\ word = old THEN word - mutexWaiter + mutexWoken ELSE word
      /\ loc' = [loc EXCEPT ![g].old = IF nobody THEN 0 ELSE word]
      /\ UNCHANGED <<sema, queue, ticket, calls>>

SemRelease(g) ==
  /\ Goto(g, "release", "dequeue")
  /\ sema' = sema + 1
  /\ UNCHANGED <<word, queue, ticket, loc, calls>>

\* With the lock of the semaphore's root.
Dequeue(g) ==
  /\ Goto(g, "dequeue", IF queue = <<>> THEN "idle" ELSE "rouse")
  /\ loc' = [loc EXCEPT ![g] = IF queue = <<>> THEN NoLocals ELSE [@ EXCEPT !.next = Head(queue)]]
  /\ queue' = IF queue = <<>> THEN queue ELSE Tail(queue)
  /\ UNCHANGED <<word, sema, ticket, calls>>

\* In starvation mode the semaphore goes with the wake-up, if it is still
\* there.
Rouse(g) ==
  LET s == loc[g].next
      handoff == Has(loc[g].old, mutexStarving) /\ sema > 0
  IN  /\ pc[g] = "rouse"
      /\ pc' = [pc EXCEPT ![g] = "idle", ![s] = "ready"]
      /\ ticket' = IF handoff THEN ticket \cup {s} ELSE ticket
      /\ sema' = IF handoff THEN sema - 1 ELSE sema
      /\ loc' = [loc EXCEPT ![g] = NoLocals]
      /\ UNCHANGED <<word, queue, calls>>

-----------------------------------------------------------------------------
Step(g) ==
  \/ Spin(g) \/ Try(g) \/ Wake(g) \/ Own(g)
  \/ SemTry(g) \/ SemSleep(g) \/ SemRetry(g)
  \/ Unlock(g) \/ WakeOne(g)
  \/ SemRelease(g) \/ Dequeue(g) \/ Rouse(g)

Next == \E g \in Goroutines : Lock(g) \/ Step(g)

\* The scheduler runs every goroutine that can run. That a caller of Store
\* gives the lock back is Store's own CallsReturn.
Spec == Init /\ [][Next]_vars /\ \A g \in Goroutines : WF_vars(Step(g))

-----------------------------------------------------------------------------
(* Properties. *)

LockPcs   == {"try", "acquire", "queue", "parked", "ready", "woken", "own"}
UnlockPcs == {"wake", "release", "dequeue", "rouse"}

\* Every variable has its type; the word never goes negative.
TypeOK ==
  /\ word \in Nat /\ sema \in Nat
  /\ queue \in Seq(Goroutines) /\ ticket \subseteq Goroutines
  /\ pc \in [Goroutines -> LockPcs \cup UnlockPcs \cup {"idle", "held", "thrown"}]

\* One goroutine at a time is between Lock and Unlock, whoever barges in,
\* spins, is woken or is handed the lock.
MutualExclusion == Cardinality({g \in Goroutines : pc[g] = "held"}) <= 1

\* "inconsistent mutex state" and "unlock of unlocked mutex" are never thrown:
\* the word agrees with what the goroutines believe about it.
NeverThrows == \A g \in Goroutines : pc[g] # "thrown"

\* No wake-up is lost, and nobody waits for somebody who waits: while a
\* goroutine is parked on the semaphore another one is on its way through Lock
\* or Unlock, or holds the lock, and can go on.
NoLostWakeup ==
  (\E g \in Goroutines : pc[g] = "parked") =>
    \E g \in Goroutines : pc[g] \notin {"parked", "idle", "thrown"}

-----------------------------------------------------------------------------
(* The inductive invariant: who the flags and the count of the word stand for. *)

\* The goroutines on their way to the semaphore, asleep on it or just back.
Sleepers == {g \in Goroutines : pc[g] \in {"acquire", "queue", "parked", "ready", "woken", "own"}}

\* The wake-ups under way: about to be released, in the semaphore, handed over
\* with it, or taken from it.
Carriers == {g \in Goroutines : pc[g] \in {"release", "woken", "own"} \/ g \in ticket}
Permits  == Cardinality(Carriers) + sema

\* The goroutines that compete for the lock with the woken flag in their name.
Awake == {g \in Goroutines : pc[g] = "try" /\ loc[g].awoke}

\* The locked bit is set while a goroutine is between Lock and Unlock.
HeldInv ==
  /\ \A g \in Goroutines : pc[g] = "held" => Has(word, mutexLocked)
  /\ \A g, h \in Goroutines : pc[g] = "held" /\ pc[h] = "held" => g = h
  /\ Has(word, mutexLocked) => \E g \in Goroutines : pc[g] = "held"

\* In normal mode the woken flag stands for one wake-up under way or for one
\* goroutine awake, never for two; in starvation mode the flag is clear, and
\* the lock is held or on its way to one waiter, never both and never neither.
WakeInv ==
  IF Has(word, mutexStarving)
  THEN /\ ~Has(word, mutexWoken) /\ Awake = {}
       /\ Permits = (IF Has(word, mutexLocked) THEN 0 ELSE 1)
  ELSE /\ Permits + Cardinality(Awake) = (IF Has(word, mutexWoken) THEN 1 ELSE 0)
       /\ \A g \in Goroutines : pc[g] # "own"

\* The count above the flags is the number of sleepers. In normal mode a
\* wake-up under way has been taken off the count, in starvation mode not.
CountInv ==
  Cardinality(Sleepers) = Waiters(word) + (IF Has(word, mutexStarving) THEN 0 ELSE Permits)

\* A goroutine is in the queue once, or dequeued by one other that is about to
\* wake it, and parked all that time; one that holds a ticket is runnable.
QueueInv ==
  /\ \A i \in 1 .. Len(queue) : pc[queue[i]] = "parked"
  /\ \A i, j \in 1 .. Len(queue) : queue[i] = queue[j] => i = j
  /\ \A g \in ticket : pc[g] = "ready"
  /\ \A g \in Goroutines : pc[g] = "rouse" =>
       /\ loc[g].next \in Goroutines /\ pc[loc[g].next] = "parked"
       /\ \A i \in 1 .. Len(queue) : queue[i] # loc[g].next
       /\ \A h \in Goroutines : pc[h] = "rouse" /\ loc[h].next = loc[g].next => h = g

Locals == [old : Nat, awoke : BOOLEAN, starving : BOOLEAN, waited : BOOLEAN, lifo : BOOLEAN,
           iter : Nat, next : Goroutines \cup {Nobody}]

\* The local variables have their types; who is awake has seen the woken flag,
\* and who has starved is awake.
LocalsInv ==
  /\ loc \in [Goroutines -> Locals]
  /\ \A g \in Goroutines : pc[g] = "try" =>
       /\ loc[g].awoke => Has(loc[g].old, mutexWoken)
       /\ loc[g].starving => loc[g].awoke

\* What keeps the mutex safe.
SafeInv ==
  /\ TypeOK
  /\ NeverThrows
  /\ LocalsInv
  /\ HeldInv
  /\ WakeInv
  /\ CountInv
  /\ QueueInv

\* Who parks can be found by the one who is to wake it.
ParkedInv ==
  \A g \in Goroutines : pc[g] = "parked" =>
    \/ \E i \in 1 .. Len(queue) : queue[i] = g
    \/ \E h \in Goroutines : pc[h] = "rouse" /\ loc[h].next = g

\* A wake-up in the semaphore, with goroutines queued for it, is on its way to
\* one of them.
SemaInv ==
  sema > 0 /\ queue # <<>> => \E g \in Goroutines : pc[g] \in {"dequeue", "rouse", "ready"}

\* A lock that is there for its waiters is offered to them, by a goroutine that
\* has seen them and will not give up.
OfferInv ==
  word % mutexWaiter = 0 /\ Waiters(word) # 0 =>
    \E g \in Goroutines :
      pc[g] = "wake" /\ loc[g].old % mutexWaiter = 0 /\ Waiters(loc[g].old) # 0

\* The inductive invariant of the mutex.
IndInv == SafeInv /\ ParkedInv /\ SemaInv /\ OfferInv

-----------------------------------------------------------------------------
(* What the mutex is for, and liveness. *)

\* Holding is being between a Lock that has returned and an Unlock that has not
\* begun.
Holder ==
  IF \E g \in Goroutines : pc[g] = "held" THEN CHOOSE g \in Goroutines : pc[g] = "held" ELSE Nobody

E == INSTANCE Exclusion WITH holder <- Holder

\* The mutex is a lock as Store uses it: the compare-and-swap, or the hand-off,
\* that lets a goroutine in happens when nobody is inside, and nobody is put out
\* or replaced by a step of another.
ImplementsExclusion == E!Spec

\* No wake-up is lost: however the steps of Lock, Unlock and the semaphore
\* interleave, there comes a time when nobody is left waiting. (The calls are
\* finitely many, and every goroutine unlocks what it has locked.)
LocksReturn == (\E g \in Goroutines : pc[g] \in LockPcs) ~> (\A g \in Goroutines : pc[g] \notin LockPcs)
=============================================================================
