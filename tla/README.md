# A TLA+ verification of cam-follower

`src/cam-follower` is a small Go HTTP service. It keeps *recipes* (one lift: a law of
motion, a height and an angle) and *cycles* (rise, outer dwell, return, inner dwell over a
full turn of a cam) as JSON files, and computes displacement, velocity, acceleration and jerk
curves from closed forms, together with the places where those curves are not continuous.

This directory holds TLA+ modules translated from that code, TLC configurations that check
them on small instances, and theorems about them whose proofs TLAPS checks for every value of
the constants. `PROJECT.json` lists the components, the runs, the source lines each definition
models, the findings, the hazards, and the theorems.

## 1. Inventory

| Component | State | Operations | What makes it correct |
|---|---|---|---|
| `internal/store` | the data directory (`recipe_<name>.json`, `cycle_<name>.json` and their `.tmp` files), one mutex | `Open`, `SaveRecipe/Cycle`, `GetRecipe/Cycle`, `ListRecipes/Cycles`; inside them `atomicWriteJSON`, `readJSONFile` | calls are atomic; a failed or interrupted save leaves the old record; nothing unchecked is stored; every path gives the mutex back |
| `main.go` | where main is: open, seed, listen, wait, shut down | `main`, `seed`, signals, `Shutdown` with 5 s | the seed recipe is there before clients are, and a caller's version of it is never overwritten; a signalled process ends; a start is never spoilt by how the last one ended |
| `handlers.go` | per request: decoded body, reply | eleven routes, `decode`, `resolveSpec`, `serveLift`, `serveCycle`, `writeJSON` | a request against the rules never succeeds; a 201 means stored; every request is answered |
| `internal/cycle` | a `Config`, the `Segments` built from it | `Validate`, `Build`, `locate`, `Point`, `Curve`, `Discontinuities`, `HasDisplacementJump` | the segments cover the turn; the curve is the one the four angles prescribe; curve and joints agree; every real discontinuity is reported, and no displacement jump |
| `internal/kinematics` | none | `Validate`, `Sample`, `SampleSide`, `Curve`, `ClosedPeaks`, `Join`, `InternalSeams` | returns mirror rises; the comparison of two sides separates jumps from rounding |
| `internal/law` | none | `Known`, `Eval`, `EvalSide`, `ClosedPeaks` | `y`, `y'`, `y''`, `y'''` belong together, the two halves of the parabola meet |
| `sync.Mutex` (Go 1.22, vendored under `src/.tools`) | the state word, a semaphore with its queue | `Lock`, `Unlock`, `semacquire1`, `semrelease1` | one holder; the flags keep their promises; no wake-up is lost |

**Interaction.** net/http runs one goroutine per request. All handlers and `seed` share one
`Store`; its mutex is the only synchronisation in the program. Files outlive the process: a
kill or a loss of power at any point leaves a directory that the next start reads. Curves are
computed inside one handler from values copied out of the store and share nothing.

**Hard behaviour.** Writers of one name share one temporary file; any system call can fail
between truncating it and renaming it; lists read many files; `seed` reads, releases the mutex,
and saves later; requests go on while `Shutdown` drains; clients stall uploads and downloads
(there is a header timeout and no other); nothing is ever synced to disk; floating-point sums
decide which segment, which half of a parabola and which side of a tolerance a value falls in.
The hazards list of `PROJECT.json` names each with its line and the properties that watch it.

## 2. Modules

```
StoreTypes ── Registry            the promise: atomic calls on a map of records
     └─────── Store ── Service    the code: steps under a mutex; main and handlers around it
FileNames                         the files' names, and the order of a list
Exclusion                         the promise of a lock: one holder or none
     └─────── Mutex               the runtime's lock, which Store takes for granted
Law ── Kinematics ─┬─ Cycle ──┐   closed forms, one segment; serveCycle
                   └─ Lift ── Curves   serveLift; both for the same parameters
StoreProofs ── ServiceProofs      proofs, each beside the module it is named after
MutexProofs
LawProofs ── RoundingProofs ── CycleProofs ── CurvesProofs
MCStore, MCService, MCMutex, MCCurves    instances for TLC
```

### StoreTypes, Registry, Store (`internal/store`)

A record is a name and an opaque *body*. What `Validate` and `checkName` decide is kept as
membership in `InvalidBodies`, `BlankNames` and `IllegalNames`; a file holds a body, nothing
(`Absent`), a truncated text (`Partial`) or bytes that are no record (`Garbage`).

`Store` has one action for every step that something else can separate from the next:

| Code | Actions |
|---|---|
| checks before `mu.Lock()` | `Invoke` (they pass), `Refuse` (they do not) |
| `mu.Lock()`, deferred `mu.Unlock()` | `Lock`, `Unlock` |
| `os.WriteFile` of `atomicWriteJSON` | `OpenTmp`, `OpenTmpFails`, `WriteTmp`, `WriteTmpFails` |
| `os.Rename`, `os.Remove` after a failure | `Rename`, `RenameFails` |
| `readJSONFile` in a get | `ReadFile`, `ReadFileFails` |
| `filepath.Glob`, the loop, the return of a list | `Glob`, `GlobFails`, `ScanFile`, `ScanEnds` |
| the method's result reaches the caller | `Return` |
| the process ends, with or without the machine | `Crash(D)`, `D` the damaged archive files |

The constant `Faults` says which failures a run allows: `write` (open, write, close), `rename`,
`read`, `power`, `bind` for the listener, and `pattern`: the data directory is part of the pattern that
`filepath.Glob` gets, so a directory such as `data[` makes every list fail, and `data[1]` makes it find
nothing (the latter is one of the outcomes of a `Glob` whose reads fail, so only runs with `read` have it). The failures are chosen freely,
not counted.

`Registry` is the abstract specification. Its state is the map from files to records and each
caller's call; `Save`, `Get` and `List` take effect in one step between invocation and return.
`Store` refines it with `reg <- final` and `pc` mapped to idle / pending / done: a save takes
effect with its rename, a get with its read, a list at the end of its scan.

### Service (`main.go`, `handlers.go`)

`Service` extends `Store`: its callers are the `Handlers` and `Main`. `phase` is where main
is (`down`, `seedGet`, `seedSave`, `listen`, `serving`, `draining`); `stage[h]` is where a handler
is (`none`, `body` while `decode` reads, `work`, `reply` while the client takes the answer).
A request is its route, name and record and the classes of its numbers that the checks
separate (an omega that does not parse, is not positive, is NaN, infinite, positive, or so large
that the curve overflows; a grid size absent, not a number, zero, below 2, good, above the limit).
`RefusedEarly`, `StoreCall`, `StoreReply`, `ServeCurve` and `DirectReply` are the handlers' checks,
in the handlers' order, and their status codes. Main's actions follow `main` and `seed`
statement by statement; `Kill` stands for SIGKILL, for a signal before `signal.Notify`, and for
a loss of power; every end of the process is `Exit`, which ends all goroutines and leaves files.
A `store.Open` that fails ends the process before it did anything; it is the stutter at `down`.
The 500 reply of `serveCycle` is absent because `Discontinuities` only fails on a configuration that
`Validate` has already refused.

### FileNames (the names in `internal/store`)

`Store` files a record under its kind and name and keeps temporary files apart. `FileNames` has the strings
themselves, as sequences of character codes: `recipe_` / `cycle_`, the name, `.json`, `.tmp`, the pattern of
`Glob` and the order of `sort.Strings`. Its theorems say that the pairs can stand for the strings,
and how far the order of a list can be from the order of the names. It has no actions and no run.

### Exclusion, Mutex (`sync/mutex.go`, `runtime/sema.go`)

`Lock`, `lockSlow`, `Unlock`, `unlockSlow`, `semacquire1` and `semrelease1`, one action per atomic instruction
or section under the semaphore's lock. `word` is the 32-bit state with the code's bit values; `loc` holds the
locals. Left open: whether a goroutine spins (up to `MaxSpins` times) and whether it has waited for
1 ms. Left out: the treap of the semaphore table (a queue per address), profiling, the race detector,
`TryLock`, which the program does not use. `Exclusion` is the abstract lock: `Acquire` when nobody holds it,
`Release` by its holder. `Mutex` refines it with `holder` the goroutine between `Lock` and `Unlock`, and `Store`
refines it with `holder` its variable `mu` (`UsesLock`): the runtime gives what `Exclusion` says, and the store asks for
no more, so `Store` may treat the mutex as one variable.

### Law, Kinematics, Cycle, Lift, Curves (`internal/law`, `internal/kinematics`, `internal/cycle`)

Angles are integers, in units of which every angle has an even number so that half of it exists. A
float64 sum or difference is the exact one rounded to `Prec` bits, nearest, ties to even (`fl`).
`Law` evaluates the closed forms in thousandths, with the sine from a table every 2.5 degrees, and
`Kinematics` scales them by `h` and powers of `omega / beta`. Fixed point loses what float64 loses near zero,
so the one error that a comparison can see is carried beside each derivative as its *noise*, in 1e-16:
`sin(math.Pi)` and `sin(2*math.Pi)` are not 0, and a derivative that vanishes at `T = 1` comes out as that
error, scaled like the value. `approxEqual` compares the values exactly (the relative tolerance is below
the unit) and, where both vanish, the noise with the absolute `Floor` (1e-12 is 10000 units).

`Cycle` is `serveCycle`: `Refuse`/`BuildSegments`, `RefuseGrid`/`SampleCurve`, `CheckJoints`, with
`Validate`, `Build`, `locate`, `sideMotion`, `SegmentsCurve` and `Discontinuities` as operators. `Lift` is
`serveLift`: `Ask`, `RefuseLift`, `SampleLift`, `CheckSeams`. A time is kept as the angle it corresponds to.
`Curves` composes the two: a client draws a cycle and then the lift of its rise.

## 3. Runs

Each passing property has a mutant of the code (`mutants` in `PROJECT.json`) that breaks it.

| Run | Question | Bounds | Result |
|---|---|---|---|
| `store` | Are saves, gets and lists atomic and records safe when writes, renames, reads and patterns fail and the process ends anywhere? | 2 callers (symmetric), ten calls: two bodies for one name, a second name, the other kind, refused ones | holds, about 396,000 states |
| `store_damage` | When losses of power damage files, do lists leave out exactly those? Does every call that waits for the mutex return? | 2 callers, two names to list, failing saves and patterns | holds, the second under fairness |
| `service` | Do the seed guarantees and the 201 hold in every interleaving of starts, requests, signals, kills and faults, and do stalled clients hold up others, or the shutdown? | 2 handlers and main, saves of the seed recipe and of a new cycle, 2 stops, all faults of saves and reads | holds, the second under fairness |
| `service_requests` | Can a request that breaks one of the four rejection rules succeed on any route, posted cycles without their dwells apart? Can signals, kills and losses of power spoil a later start, other than by damage to the seed file? | 1 handler, 2 stops, every class of every parameter, failing patterns, losses of power | holds, about 313,000 states, the second under fairness |
| `curves` | Are curve, joints and peaks those of the four angles when sums are exact? Is the rise of a cycle the lift of its parameters? | all laws, four angles from six values, totals at and beyond the edge of the tolerance, five grid sizes, four of lifts | holds, about 287,000 states |
| `mutex` | Does the runtime's mutex implement a lock with one holder, keep its flags and its count consistent, never leave everybody asleep, and lose no wake-up? | 3 goroutines, 2, 2 and 1 calls, 1 spin | holds, about 257,000 states, the last under weak fairness |
| `list_incomplete` | Does a list hold every undamaged record when reads may fail? | 2 callers | violated |
| `start_damaged` | Does a process that is started again and again come to serve, losses of power included? | 1 handler, 1 stop | violated |
| `empty_200` | Does every 200 of a curve carry its points? | ad hoc requests | violated |
| `cycle_rounding` | Is every parabolic midpoint reported as a jump of acceleration? | `Prec = 6` | violated |
| `seam_floor` | Does a cycloid meet a dwell without a jump of acceleration? | `h = 10`, two turns a second | violated |
| `cycle_time` | Does the time of a sample follow its angle? | one law | violated |

**What the properties of `curves` relate.** `JumpsReported`: where neighbouring samples differ by more than
the closed-form peak of the next derivative allows, a joint between them reports the jump, so `Curve`,
`ClosedPeaks` and `Discontinuities`, which share little code, have to agree. `CurveCloses`: the joint at the full turn
has the last and the first sample as its sides and reports every order in which they differ. `DerivativesAgree`: in a lift each
column is the derivative of the one before with respect to the time column, up to Taylor's bound.
`PeaksAreMaxima`: the peaks bound the columns and are attained. `RiseIsLift`: a cycle's rise and the lift of
the same parameters have the same motions and the same seams. `DwellSmoothness` and `SwitchReported` say what
the README of the program says of the three laws.

**The six violations** are disagreements between the code and what its own documents or comments
say; `findings` quotes both. In short:
1. Any error of reading a file, not only damage, silently shortens a list (`store.go:163`).
2. Nothing is synced before or after the rename (`jsonfile.go:37`), so a loss of power can damage the seed recipe's
   file, and `seed` takes an unreadable file for fatal: every later start ends in `Fatalf` (`main.go:61`). With
   `StartsUnlessDamaged` the run `service_requests` shows that this is the only way a stop can spoil a start.
3. A curve whose numbers overflow is answered 200 with an empty body (`handlers.go:36`).
4. `Start + Beta/2 - Start` is often not `Beta/2`; both sides of the midpoint are then evaluated on
   the same half and `a_continuous` is true (angles 100.1 / 20.2 / 33.3 / 206.4, for instance).
5. Where a cycloid ends, the rounding error of `sin(2*math.Pi)` times `2*pi*h*(omega/beta)^2` exceeds the
   absolute floor of 1e-12 for ordinary machines (`h = 10`, `beta = 60`, `omega = 720`), and
   `a_continuous` is false (`kinematics.go:199`).
6. All samples of a rise or a return carry the time at which the segment starts.

Three more disagreements have no run of their own; the properties and theorems name them as exceptions.
* Lists are in the order of the file names: `a-b` comes before `a` (`store.go:159`), while the comment on `ListRecipes` says
  in the order of the names. `SortedByName` proves that this is the only kind of example: two names are in order unless one
  continues the other with a hyphen or a full stop.
* The program's README says that any legal cycle has `displacement_jump` false (`README.md:112`). The sum of the angles only
  has to be within 1e-9 of 360 (`cycle.go:72`), and where the return comes last it need not end at 360: with a rise of
  200, an outer dwell of 160 and a return of 5e-10 it starts there, and the cycle jumps from `h` to 0. `Closing` excludes this:
  the angles make a full turn, or there is an inner dwell, which takes up the difference. Without it TLC finds
  the jump once such a cycle is among the configurations.
* `POST /cycle-curve` takes absent dwell angles as 0, although the rejection rules (`README.md:119`) and the comment on the request
  (`handlers.go:271`) ask for all four. `BreaksRule` lists the rule, `LeavesOutDwells` is the exception that `RulesEnforced`
  makes for it, and every other missing parameter is refused. Without the exception TLC answers such a body with 200.

**Why the bounds are enough.** The mutex serialises bodies, so two callers show every conflict
there is over one temporary file and one list; two legal names make a list read a file before and
after a save; two bodies tell writers of one name apart; `MaxStops` counts only signals and kills,
and two of them let a start be interrupted, its successor be interrupted in a different place and
a third run on what both left. The theorems do not need any of these bounds. In `curves` the
six angles (0, 60, 120, 180, 240 and 360 degrees, a full turn being 720 units) give every pattern of
present and absent dwells, equal and different angles, and sums on both sides of 360; grids of 13 and
37 points hit every boundary and points between them; grids of 1 and 38 are refused (`MaxPoints` is
37 there). All their fractions `T` are entries of the sine table, so the only errors are those of rounding to
thousandths, which the properties allow for (`Rounding`, `Slack`). The lift's grid of 13 holds the quarters
of the segment, where the laws have their peaks. With `Prec = 20` all sums are exact; `Prec = 6` in
`cycle_rounding` makes float64's rounding happen with angles small enough for TLC. `Tolerance = 2` keeps the
code's order of magnitudes: all angles are far above it. The inner dwell also comes longer and shorter by the tolerance, which
is accepted (`ToleranceMet` has TLC confirm it), and by more, which is refused. In `mutex` two goroutines that call twice let a
waiter be passed over by a newcomer and put the mutex in starvation mode, and the third lets the hand-off
be raced; one spin is enough to set the woken flag for a goroutine that never slept.

Deadlock is checked in `Store` and `Service`; `Curves` is two computations that end, and the calls of `Mutex`
are finitely many.

## 4. Fairness

* `Fairness`: a goroutine that can run is scheduled (weak fairness of `Work`), and `sync.Mutex`
  does not pass one waiter over for ever (strong fairness of `Lock`). System calls return. The second is not
  a theorem about `Mutex`: a compare-and-swap can fail any number of times, and in starvation mode a goroutine that
  runs between the release of the semaphore and the hand-off can take it. It is what the starvation mode, entered after
  1 ms, makes of any timing that is not adversarial.
* `Mutex` itself is checked with weak fairness of `Step` only, that is, of the scheduler: its calls are finitely
  many, so an overtaken waiter has its turn in the end unless a wake-up is lost, which is the question.
* `SvcFairness`: in addition main runs, the listener comes up, the timer of `Shutdown` fires, and a
  handler that has its request runs. Nothing is assumed of clients: a `body` or `reply` stage may last
  for ever. Nothing restarts the process, so `StartsServe` and `StartsUnlessDamaged` assume in their premise that it
  is up infinitely often. The violation of `StartsServe` is under the same fairness: the process is started again and
  again, and each time it runs, and ends in `seed`. Kills are finitely many (`MaxStops`): a process killed for ever need not serve.

## 5. Proofs

The theorems hold for every value of the constants that satisfies the named assumptions of the modules; TLC
evaluates these on every run. Eight modules hold proofs.

**FileNames.** For all strings, legal names or not: `FilesDistinct` (kind and name can be read off a file's name: the
prefixes differ in their first character, and lengths and characters of the names agree), `ListsOwnKind` (the pattern of
a list matches the files of its kind, all of them, and of no other) and `TmpNeverListed` (a temporary file is no archive
file and no list reads it: the last characters differ). So `Store` may file a record under the pair of kind and name.
`SortedByName` compares the order of the files with that of the names: `.json` follows the shorter name, so what
decides is whether the longer one goes on with a character that is not above the full stop.

**Store** (any callers, names, bodies, calls and faults; the special contents are no bodies and differ, the special
caller is no caller). `IndInv` is inductive. The argument runs `MutexInv` (only the holder is inside a method
body), so `TmpInv` (a temporary file about to be renamed is complete and is the record of the caller
that renames it: nobody else could have truncated it), so `NoTornFile` and `OnlyCheckedRecords`.
Neither follows from itself: without `TmpInv` a rename could publish `Partial`, and without `OpInv` a
record that was never checked. `ScanInv` carries what a list has read until it returns; it is what
makes the list atomic. From `IndInv` follow `NeverUnregistered`, as an action property, and the
refinement of `Registry`, one lemma per kind of step. `ListComplete` is proved where no read fails
(`"read" \notin Faults`, and any other fault may happen): nobody changes the archive during the scan, so the files it has
read and those it has yet to read make up what is readable now. The run `list_incomplete` shows that the hypothesis
cannot be dropped. `UsesLock`: every step of the store acquires the lock that nobody has, releases it as its holder (a
process that ends releases it too), or leaves it alone.

**Service** (any handlers and requests; the seed's name and record pass the checks, being constants of `main.go` that
do). `SvcInv` adds `CallInv` and `MainInv` (who calls the store, with which call),
`AnswerInv` (an `Ok` is of a save, and its record stays) and `SeedInv` (what `seed` was told still
holds when it acts: nobody else can be in the store before the listener is up, so there is no gap
between its read and its save although it releases the mutex). From it: `SeededWhileServing`,
`AckedIsRegistered`, `SeedNeverOverwrites`. Every step of the process is a step of the store or leaves
it alone (`StepIsStoreStep`), so the store's invariant and its refinement hold inside the process. `SvcTypeOK` is
a conjunct of `SvcInv`. `RulesEnforced` is inductive next to `SvcInv`: a request that breaks one of the four
rules, and is no cycle that leaves out its dwells alone, is refused before the store
is called, or calls it only to get the record of a curve, and no operator that makes a reply (`StoreReply`,
`ServeCurve`, `DirectReply`) gives it success then.

**Mutex** (any finite set of goroutines, any number of calls and spins). `MutualExclusion` is not inductive: that a
goroutine may take a free word depends on nobody else having been promised the lock, and that promise is spread over the
flags, the semaphore and the queue. `SafeInv`, the first part of `IndInv`, says what each part stands for. `HeldInv`: the locked bit is set exactly
while one goroutine is between `Lock` and `Unlock`. `WakeInv`: in normal mode the woken flag stands for exactly one
wake-up under way (a *permit*: the semaphore's count, a ticket, or a release not yet done) or one goroutine awake, never
two; in starvation mode it is clear, and the lock is held or on its way to one waiter, never both and never neither.
`CountInv`: the count above the flags is the number of sleepers, less the permit in normal mode. `QueueInv`: who is
queued is parked, once, and dequeued by one. `LocalsInv`: a goroutine that is awake has seen the woken flag in the word it
is about to compare. The proof goes action by action; `NeverThrows` is a conjunct, since the checks of the runtime
are exactly breaches of `WakeInv` and `CountInv`. From `IndInv` follow `TypeOK`, `MutualExclusion` and the refinement of
`Exclusion`: every step acquires a lock that nobody has, releases it, or leaves its holder alone.
`NoLostWakeup` is the safety core of `LocksReturn`: while a goroutine sleeps, another one holds the mutex or is on its way
through `Lock` or `Unlock` and can go on, so the mutex never deadlocks. It does not follow from `SafeInv`, which
allows a goroutine to sleep beside a free semaphore. Three more conjuncts close the gap. `ParkedInv`: who is parked is in
the queue, or is about to be roused. `SemaInv`: a wake-up in the semaphore while goroutines are queued for it is on its way
to one of them; this is what the second look of `semacquire1` under the lock is for. `OfferInv`: a word without flags but
with waiters is being offered to them by a goroutine in `unlockSlow` that has seen them and will not give up. TLC checks
`IndInv`, all of it, in the run `mutex`.

**Law.** `LawProofs` has the lemmas about the closed forms: the table's sine is bounded and odd about
the half turn; the values and float errors at `T = 0`, `1/2` and `1` on either side; no derivative exceeds `UnitPeaks`
(`EvalBound`), and at which quarters they are attained (`EvalAttains`); two ways to write a fraction give the same
motion (`EvalRatio`); a return is the rise seen from the other end, up to one unit of rounding (`EvalMirror`); the
two sides of an angle differ in the middle of a parabola only (`EvalSides`).

**Rounding.** For any precision: every angle below 8 turns has an `ulp` (`UlpIs`), it grows with the angle (`UlpGrows`), and `fl`
moves a value by half of it at most (`FlNear`). The unit is found by a least exponent; that sets of naturals have
a least element is taken from the library's well-founded relations. The assumption is `ExponentAssumption`, that
`MaxExp` is large enough for 8 turns.

**Cycle** (any configurations, grids, strokes, speeds). The invariant is `Progress`: segments, curve and joints are those
that `Build`, `Curve` and `Discontinuities` give for the configuration, in the order of the phases. On top of it a lemma
about the data, `BuildChain`: the segments start at 0, each starts where the last one ends, the last ends at the sum of the
four angles, and neighbours meet at the same height, 0 or `h`. From it: `NoDisplacementJump` (all three groups of joints),
`SwitchReported` and `DwellSmoothness`, for every total that `Validate` accepts, and `CurveIsProfile`.

`BoundaryOwner` (which segment `locate` chooses on a boundary) and `CurveCloses` need less, and hold for rounded sums:
`Rows` says that each segment starts where the one before it ends, before the full turn, and that a last motion is not
taken for half done at the full turn. `RoundedOrder` proves it of every configuration that `Validate` accepts and whose angles
are `Sizeable`, that is, above three times the tolerance and the `ulp` of four turns, 3.001e-9 degrees: the sums of `Build`
are those of `Validate`, whose check on the total bounds what their rounding can have moved. `Regular` is this or
exact sums. Smaller angles cannot be allowed: a return below the tolerance may start after the full turn.
The hypotheses of the others:
* `ExactSums`: no sum of angles is rounded. `ExactWhenFit` proves it from `4 * FullTurn < 2^Prec`, that is, for angles that are
  multiples of 2^-42 of a degree. Angles such as 100.1 are not, and the run `cycle_rounding` shows what happens then.
* `Closing(cfg)`, in the property `NoDisplacementJump` itself: the sum is the turn, or the inner dwell takes up the
  difference. Section 3 has the cycle that does not close.
* `Total(cfg) = FullTurn` (`CurveIsProfile`): the sum is the turn and not only within the tolerance, since the
  prescribed displacement is that of four angles that make a turn.
* `Resolved(cfg)` (`SwitchReported`) and `Discernible(cfg)` (`DwellSmoothness`): the derivative in question is
  above the unit of the fixed point, and the float errors are below the floor. `seam_floor` shows the second fail.
* `OnTable(cfg, points)` (`CurveIsProfile`): the return is sampled at entries of the table. Between entries the
  table is rounded down, and a rise and a mirrored return differ by what the rounding does; this is an artefact of the model.

`MCCurves` has them evaluated by TLC (`HypothesesMet`): for every accepted configuration and grid of the
run `curves` the turn closes and the peaks are resolved, so the theorems speak of real cycles; `ToleranceMet` has it find accepted
totals at both edges of the tolerance. `RoundedMet` has it find, at the precision of `cycle_rounding`, an accepted
configuration with `Sizeable` angles and a segment whose end is rounded.

**Curves.** `CurvesRunCycle`: projected to the variables of `Cycle`, a behaviour of `CurvesSpec` is one of `Spec`, so the
theorems about `Cycle` hold in the composition. `PeaksAreMaxima` needs no hypothesis: the bound comes from
`UnitPeaks` and the monotony of the scaling, and a grid with `n % 4 = 1` contains the quarters, at one of which each
peak is attained. `RiseIsLift` needs `ExactSums` alone: the rise is the first segment and starts at 0, and the
fraction that `serveCycle` gets by dividing the angle by `beta` is the one `serveLift` steps to (`EvalRatio`); the
midpoint is the same sum in both.

The proofs use one fact of arithmetic as a named assumption, `PowersOfTwo` (each power of two is twice the one before), up
to the exponents of `ulp`: the provers do not know `^`. TLC evaluates it.

**Only model-checked.** The liveness properties (`CallsReturn`, `HandlersAnswer`, `StopsAfterSignal`,
`StartsUnlessDamaged`, `LocksReturn`), which the prover does not handle. `JumpsReported` and `DerivativesAgree`: they compare
differences of neighbouring samples with Taylor's bound, which for a table of sines is a statement about all its pairs of
entries, and their slack is that of this table at ordinary speeds. In fixed point they are not true of every stroke, speed and angle: a
peak that is scaled below a thousandth (`omega = 1`, `beta = 360`) is rounded to 0 and bounds nothing. A theorem would
need a hypothesis made for the model and not for the code.

## 6. What is not modelled

* The float errors inside the closed forms other than those at the ends of a segment, and values of `T` that are
  no multiples of 1/72 beyond the nearest entry of the table. Overflow to infinity is in `Service`.
* Two processes on one data directory: the mutex is per process, and nothing in the program or its documents
  supports it. File systems that ignore case, on which two names are one file.
* Messages, JSON layout, flags and environment variables.
* The content of `src/PROMPT.txt` (cam groups, phases, constraints): no code exists for it.
* `src/.tools/go`, a vendored Go distribution, except `sync.Mutex` and its semaphore, the only
  synchronisation the program relies on. The compiler, the standard library and their tests are no part of
  this program; what it uses of net/http and the file system is modelled from its use and marked external.
  Almost all lines of the repository are this distribution, so the map covers a small share of all lines although
  it covers the program.

## 7. What is left

The model covers every package of the program, and every safety property of a passing run but two is a theorem.
1. `JumpsReported` and `DerivativesAgree` for every input would need real-valued closed forms, out of reach of the provers.
2. `NoDisplacementJump`, `SwitchReported`, `DwellSmoothness` and `CurveIsProfile` for rounded sums: the second is false
   there (`cycle_rounding`); the others compare displacements a rounded angle apart, which the code does with a
   relative tolerance below the unit of the model.
3. Liveness of the store for every number of callers, from the fairness of section 4.
