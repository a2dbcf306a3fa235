-------------------------------- MODULE Store --------------------------------
(***************************************************************************)
(* internal/store: the data directory, the mutex that guards it and the    *)
(* goroutines that call it, one action per step that another goroutine, a  *)
(* failing system call or the end of the process can separate from the     *)
(* next. SaveRecipe and SaveCycle (GetRecipe and GetCycle, ListRecipes and *)
(* ListCycles) run the same steps on different files.                      *)
(*                                                                         *)
(*   Save:  lock -> open tmp -> write tmp -> rename over final -> unlock   *)
(*   Get:   lock -> read final -> unlock                                   *)
(*   List:  lock -> glob -> read the files one by one -> unlock            *)
(*                                                                         *)
(* Open only creates the directory, which exists from Init on.             *)
(***************************************************************************)
EXTENDS StoreTypes

VARIABLES
  mu,     \* the caller that holds Store.mu, or Nobody
  final,  \* final[f]: the content of the archive file f
  tmp,    \* tmp[f]: the content of f's temporary file, f + ".tmp"
  pc,     \* pc[c]: where c is in its call
  op,     \* op[c]: the call c is making
  todo,   \* todo[c]: the names whose file c's list has still to read
  acc,    \* acc[c]: the records c's list has read
  res     \* res[c]: the value c's call returns

vars == <<mu, final, tmp, pc, op, todo, acc, res>>

SavePcs == {"open", "write", "rename"}
ListPcs == {"glob", "scan"}
Holding == SavePcs \cup ListPcs \cup {"read", "unlock"}
Pcs     == Holding \cup {"idle", "lock", "done"}

Init ==
  /\ mu = Nobody
  /\ final = [f \in Files |-> Absent]
  /\ tmp = [f \in Files |-> Absent]
  /\ pc = [c \in Callers |-> "idle"]
  /\ op = [c \in Callers |-> NoOp]
  /\ todo = [c \in Callers |-> {}]
  /\ acc = [c \in Callers |-> {}]
  /\ res = [c \in Callers |-> None]

-----------------------------------------------------------------------------
Goto(c, from, to) ==
  /\ pc[c] = from
  /\ pc' = [pc EXCEPT ![c] = to]

\* The method body ends with value a; its deferred Unlock is still to run.
Finish(c, from, a) ==
  /\ Goto(c, from, "unlock")
  /\ res' = [res EXCEPT ![c] = a]

\* The call passes the checks made outside the mutex, and waits for it.
Invoke(c, o) ==
  /\ Acceptable(o)
  /\ Goto(c, "idle", "lock")
  /\ op' = [op EXCEPT ![c] = o]
  /\ UNCHANGED <<mu, final, tmp, todo, acc, res>>

\* Validate or checkName refuses the call before it touches anything.
Refuse(c, o) ==
  /\ ~Acceptable(o)
  /\ Goto(c, "idle", "done")
  /\ op' = [op EXCEPT ![c] = o]
  /\ res' = [res EXCEPT ![c] = Rejected]
  /\ UNCHANGED <<mu, final, tmp, todo, acc>>

FirstPc(o) ==
  IF o.type = "save" THEN "open" ELSE IF o.type = "get" THEN "read" ELSE "glob"

\* Mutant: no mutex.
LockFree(c) ==
  /\ Goto(c, "lock", FirstPc(op[c]))
  /\ mu' = c
  /\ UNCHANGED <<final, tmp, op, todo, acc, res>>

\* Mutant: lists do not wait for the mutex.
LockUnlessList(c) ==
  /\ mu = Nobody \/ op[c].type = "list"
  /\ Goto(c, "lock", FirstPc(op[c]))
  /\ mu' = IF mu = Nobody THEN c ELSE mu
  /\ UNCHANGED <<final, tmp, op, todo, acc, res>>

Lock(c) ==
  /\ mu = Nobody
  /\ Goto(c, "lock", FirstPc(op[c]))
  /\ mu' = c
  /\ UNCHANGED <<final, tmp, op, todo, acc, res>>

Unlock(c) ==
  /\ Goto(c, "unlock", "done")
  /\ mu' = Nobody
  /\ UNCHANGED <<final, tmp, op, todo, acc, res>>

\* The caller takes the answer.
Return(c) ==
  /\ Goto(c, "done", "idle")
  /\ op' = [op EXCEPT ![c] = NoOp]
  /\ res' = [res EXCEPT ![c] = None]
  /\ UNCHANGED <<mu, final, tmp, todo, acc>>

-----------------------------------------------------------------------------
(* SaveRecipe, SaveCycle: atomicWriteJSON. *)

\* Mutant: the archive file is overwritten in place.
OpenFinal(c) ==
  /\ Goto(c, "open", "write")
  /\ tmp' = [tmp EXCEPT ![FileOf(op[c])] = Partial]
  /\ final' = [final EXCEPT ![FileOf(op[c])] = Partial]
  /\ UNCHANGED <<mu, op, todo, acc, res>>

\* os.WriteFile opens the temporary file with O_CREATE|O_TRUNC ...
OpenTmp(c) ==
  /\ Goto(c, "open", "write")
  /\ tmp' = [tmp EXCEPT ![FileOf(op[c])] = Partial]
  /\ UNCHANGED <<mu, final, op, todo, acc, res>>

OpenTmpFails(c) ==
  /\ "write" \in Faults
  /\ Finish(c, "open", IOError)
  /\ UNCHANGED <<mu, final, tmp, op, todo, acc>>

\* ... and writes it.
WriteTmp(c) ==
  /\ Goto(c, "write", "rename")
  /\ tmp' = [tmp EXCEPT ![FileOf(op[c])] = op[c].body]
  /\ UNCHANGED <<mu, final, op, todo, acc, res>>

\* A failed write leaves what it wrote behind, all of it if only the close
\* failed.
WriteTmpFails(c) ==
  /\ "write" \in Faults
  /\ Finish(c, "write", IOError)
  /\ \E left \in {Partial, op[c].body} :
       tmp' = [tmp EXCEPT ![FileOf(op[c])] = left]
  /\ UNCHANGED <<mu, final, op, todo, acc>>

Rename(c) ==
  LET f == FileOf(op[c])
  IN  /\ Finish(c, "rename", Ok)
      /\ tmp[f] # Absent
      /\ final' = [final EXCEPT ![f] = tmp[f]]
      /\ tmp' = [tmp EXCEPT ![f] = Absent]
      /\ UNCHANGED <<mu, op, todo, acc>>

\* Mutant: the error path returns with the mutex held.
RenameFailsLocked(c) ==
  /\ Goto(c, "rename", "done")
  /\ res' = [res EXCEPT ![c] = IOError]
  /\ "rename" \in Faults \/ tmp[FileOf(op[c])] = Absent
  /\ tmp' = [tmp EXCEPT ![FileOf(op[c])] = Absent]
  /\ UNCHANGED <<mu, final, op, todo, acc>>

\* After a failed rename the temporary file is removed, if that works.
RenameFails(c) ==
  /\ Finish(c, "rename", IOError)
  /\ "rename" \in Faults \/ tmp[FileOf(op[c])] = Absent
  /\ \E left \in {Absent, tmp[FileOf(op[c])]} :
       tmp' = [tmp EXCEPT ![FileOf(op[c])] = left]
  /\ UNCHANGED <<mu, final, op, todo, acc>>

-----------------------------------------------------------------------------
(* GetRecipe, GetCycle. *)

ReadFile(c) ==
  /\ Finish(c, "read", ReadResult(final[FileOf(op[c])]))
  /\ UNCHANGED <<mu, final, tmp, op, todo, acc>>

ReadFileFails(c) ==
  /\ "read" \in Faults
  /\ Finish(c, "read", IOError)
  /\ UNCHANGED <<mu, final, tmp, op, todo, acc>>

-----------------------------------------------------------------------------
(* ListRecipes, ListCycles. *)

\* The pattern recipe_*.json does not match the temporary files. Glob ignores
\* the errors of reading the directory and then matches nothing.
Glob(c) ==
  LET matches == {n \in Names : final[<<op[c].kind, n>>] # Absent}
  IN  /\ Goto(c, "glob", "scan")
      /\ \E found \in {matches} \cup (IF "read" \in Faults THEN {{}} ELSE {}) :
           todo' = [todo EXCEPT ![c] = found]
      /\ acc' = [acc EXCEPT ![c] = {}]
      /\ UNCHANGED <<mu, final, tmp, op, res>>

\* The path of the data directory is part of the pattern, and an unclosed [ in
\* it is an error that Glob does return.
GlobFails(c) ==
  /\ "pattern" \in Faults
  /\ Finish(c, "glob", IOError)
  /\ UNCHANGED <<mu, final, tmp, op, todo, acc>>

\* Mutant: the first damaged file ends the list.
ScanFileOrStop(c) ==
  /\ Goto(c, "scan", "scan")
  /\ \E n \in todo[c] :
       LET v == final[<<op[c].kind, n>>]
       IN  /\ todo' = [todo EXCEPT ![c] = IF v \in Bodies THEN @ \ {n} ELSE {}]
           /\ acc' = [acc EXCEPT ![c] = IF v \in Bodies THEN @ \cup {<<n, v>>} ELSE @]
  /\ UNCHANGED <<mu, final, tmp, op, res>>

\* One file is read; one that cannot be read or parsed is left out.
ScanFile(c) ==
  /\ Goto(c, "scan", "scan")
  /\ \E n \in todo[c] :
       LET v == final[<<op[c].kind, n>>]
       IN  /\ todo' = [todo EXCEPT ![c] = @ \ {n}]
           /\ \/ v \in Bodies /\ acc' = [acc EXCEPT ![c] = @ \cup {<<n, v>>}]
              \/ (v \notin Bodies \/ "read" \in Faults) /\ UNCHANGED acc
  /\ UNCHANGED <<mu, final, tmp, op, res>>

ScanEnds(c) ==
  /\ todo[c] = {}
  /\ Finish(c, "scan", Listed(acc[c]))
  /\ acc' = [acc EXCEPT ![c] = {}]
  /\ UNCHANGED <<mu, final, tmp, op, todo>>

-----------------------------------------------------------------------------
\* The process ends at any point: the goroutines and the mutex are gone, the
\* files stay as they are. Nothing was synced to disk, so a loss of power may
\* damage archive files too (the set D).
Crash(D) ==
  /\ D = {} \/ "power" \in Faults
  /\ final' = [f \in Files |-> IF f \in D THEN Garbage ELSE final[f]]
  /\ mu' = Nobody
  /\ pc' = [c \in Callers |-> "idle"]
  /\ op' = [c \in Callers |-> NoOp]
  /\ todo' = [c \in Callers |-> {}]
  /\ acc' = [c \in Callers |-> {}]
  /\ res' = [c \in Callers |-> None]
  /\ UNCHANGED tmp

Exists == {f \in Files : final[f] # Absent}

\* The steps of a call that only the scheduler decides.
Work(c) ==
  \/ OpenTmp(c) \/ OpenTmpFails(c)
  \/ WriteTmp(c) \/ WriteTmpFails(c)
  \/ Rename(c) \/ RenameFails(c)
  \/ ReadFile(c) \/ ReadFileFails(c)
  \/ Glob(c) \/ GlobFails(c) \/ ScanFile(c) \/ ScanEnds(c)
  \/ Unlock(c)

Next ==
  \/ \E c \in Callers :
       \/ \E o \in Calls : Invoke(c, o) \/ Refuse(c, o)
       \/ Lock(c)
       \/ Work(c)
       \/ Return(c)
  \/ \E D \in SUBSET Exists : Crash(D)

\* A goroutine that can run is eventually scheduled, and sync.Mutex hands
\* itself to the longest waiter after 1 ms, so no waiter is passed over for
\* ever.
Fairness == \A c \in Callers : WF_vars(Work(c)) /\ SF_vars(Lock(c))

Spec == Init /\ [][Next]_vars /\ Fairness

-----------------------------------------------------------------------------
(* Invariants. *)

\* Every variable has its type.
TypeOK ==
  /\ mu \in Callers \cup {Nobody}
  /\ final \in [Files -> Content]
  /\ tmp \in [Files -> Content]
  /\ pc \in [Callers -> Pcs]
  /\ op \in [Callers -> Ops \cup {NoOp}]
  /\ todo \in [Callers -> SUBSET Names]
  /\ acc \in [Callers -> SUBSET (Names \X Bodies)]
  /\ res \in [Callers -> Results]

\* The caller inside a method body, and no other, holds the mutex.
MutexInv == \A c \in Callers : pc[c] \in Holding <=> mu = c

\* A caller past the checks makes a call that passed them, and runs the body
\* of the method it called.
OpInv ==
  \A c \in Callers :
    /\ pc[c] # "idle" => op[c] \in Ops
    /\ pc[c] \in Holding \cup {"lock"} => Acceptable(op[c])
    /\ pc[c] \in SavePcs => op[c].type = "save"
    /\ pc[c] = "read" => op[c].type = "get"
    /\ pc[c] \in ListPcs => op[c].type = "list"

\* The temporary file about to be renamed is completely written, with the
\* record its writer was called with: no other writer of the same name has
\* truncated it.
TmpInv ==
  \A c \in Callers : pc[c] = "rename" => tmp[FileOf(op[c])] = op[c].body

\* What a list has read so far is what the directory holds now, and unless
\* reads fail it will have read all of it when its work list is empty.
ScanInv ==
  \A c \in Callers : pc[c] = "scan" =>
    LET here == Readable(final, op[c].kind)
    IN  /\ acc[c] \subseteq here
        /\ "read" \in Faults \/ \A nb \in here : nb \in acc[c] \/ nb[1] \in todo[c]

\* No half-written archive file can be read, whoever saves the same name at
\* the same time, whichever system call fails and wherever the process ends:
\* what atomicWriteJSON writes a temporary file for.
NoTornFile == \A f \in Files : final[f] # Partial

\* Every record on disk passed Validate and is filed under a name checkName
\* allows: no interleaving, failure or crash stores anything else.
OnlyCheckedRecords ==
  \A f \in Files :
    /\ final[f] # Absent => checkName(f[2])
    /\ final[f] \in Bodies => Validate(f[2], final[f])

\* The inductive invariant of the store.
IndInv ==
  /\ TypeOK
  /\ MutexInv
  /\ OpInv
  /\ TmpInv
  /\ ScanInv
  /\ NoTornFile
  /\ OnlyCheckedRecords

\* The list ListRecipes returns holds every undamaged record that is
\* registered when it returns.
ListComplete ==
  \A c \in Callers :
    pc[c] = "unlock" /\ op[c].type = "list" /\ res[c].tag = "listed"
      => res[c].recs = Readable(final, op[c].kind)

-----------------------------------------------------------------------------
(* Properties of steps and of behaviours. *)

\* A registered record is only ever replaced by the record of a later save:
\* no failed save and no end of the process removes or damages it (a loss of
\* power apart, which Faults does not contain here).
NeverUnregistered ==
  [][\A f \in Files : final[f] \in Bodies /\ "power" \notin Faults
                        => final'[f] \in Bodies]_vars

\* A call that waits for the mutex returns, or the process ends: every path
\* through every method, the error paths included, gives the mutex back.
CallsReturn ==
  \A c \in Callers : pc[c] = "lock" ~> pc[c] \in {"done", "idle"}

\* The store implements the registry: a save takes effect with its rename, a
\* get with its read, and a list at the end of its scan.
Stage(p) ==
  IF p = "idle" THEN "idle"
  ELSE IF p \in {"unlock", "done"} THEN "done" ELSE "pending"

R == INSTANCE Registry WITH reg <- final, st <- [c \in Callers |-> Stage(pc[c])]

\* Every behaviour of the store is one the registry allows: calls are atomic
\* in spite of the interleaved steps, the failures and the crashes.
ImplementsRegistry == R!Spec
=============================================================================
