----------------------------- MODULE StoreProofs -----------------------------
(***************************************************************************)
(* Proofs about Store, for every set of callers, names, bodies and faults: *)
(* the inductive invariant, the safety properties that follow from it, and *)
(* the refinement of Registry.                                             *)
(***************************************************************************)
EXTENDS Store, TLAPS

-----------------------------------------------------------------------------
(* Facts about calls. *)

\* The fields of a call have the types the method signatures give them.
LEMMA OpFields ==
  ASSUME NEW o \in Ops
  PROVE  /\ o.kind \in Kinds
         /\ o.type \in {"save", "get", "list"}
         /\ o.type = "save" => o.name \in Names /\ o.body \in Bodies
         /\ o.type = "get" => o.name \in Names
         /\ o.type \in {"save", "get"} => FileOf(o) \in Files
BY DEF Ops, SaveOps, GetOps, ListOps, FileOf, Files

\* NoOp is not a call.
LEMMA NoOpIsNoCall == NoOp \notin Ops /\ NoOp.type = "none"
<1>1. NoOp.type = "none"
  BY DEF NoOp
<1>. QED
  BY <1>1, OpFields

\* What readJSONFile makes of a file is an answer.
LEMMA ReadResultType ==
  ASSUME NEW v
  PROVE  ReadResult(v) \in Results
<1>1. CASE v \in Bodies
  BY <1>1, ContentAssumption DEF ReadResult, Results, NotFound, Found
<1>2. CASE v \notin Bodies
  BY <1>2 DEF ReadResult, Results, NotFound, ParseError
<1>. QED
  BY <1>1, <1>2

\* The errors are answers too.
LEMMA ErrorTypes ==
  /\ None \in Results
  /\ Ok \in Results
  /\ Rejected \in Results
  /\ IOError \in Results
  /\ \A recs \in SUBSET (Names \X Bodies) : Listed(recs) \in Results
BY DEF Results, Listed

-----------------------------------------------------------------------------
(* The inductive invariant. *)

\* The store starts with an empty directory and no call.
LEMMA InitIndInv == Init => IndInv
<1>. SUFFICES ASSUME Init PROVE IndInv
  OBVIOUS
<1>1. TypeOK
  BY ErrorTypes DEF Init, TypeOK, Content, Pcs
<1>2. MutexInv
  BY CallersAssumption DEF Init, MutexInv, Holding, SavePcs, ListPcs
<1>3. OpInv /\ TmpInv /\ ScanInv
  BY DEF Init, OpInv, TmpInv, ScanInv, Holding, SavePcs, ListPcs
<1>4. NoTornFile /\ OnlyCheckedRecords
  BY ContentAssumption DEF Init, NoTornFile, OnlyCheckedRecords, Files
<1>. QED
  BY <1>1, <1>2, <1>3, <1>4 DEF IndInv

\* A call accepted or refused on entry.
LEMMA EntryIndInv ==
  ASSUME IndInv, NEW c \in Callers, NEW o \in Calls, Invoke(c, o) \/ Refuse(c, o)
  PROVE  IndInv'
<1>. o \in Ops
  BY CallsAssumption
<1>1. TypeOK'
  BY ErrorTypes DEF IndInv, TypeOK, Invoke, Refuse, Goto, Pcs
<1>2. MutexInv'
  BY DEF IndInv, TypeOK, MutexInv, Invoke, Refuse, Goto, Holding, SavePcs, ListPcs
<1>3. OpInv'
  BY DEF IndInv, TypeOK, OpInv, Invoke, Refuse, Goto, Holding, SavePcs, ListPcs
<1>4. TmpInv' /\ ScanInv'
  BY DEF IndInv, TypeOK, TmpInv, ScanInv, Invoke, Refuse, Goto
<1>5. NoTornFile' /\ OnlyCheckedRecords'
  BY DEF IndInv, NoTornFile, OnlyCheckedRecords, Invoke, Refuse
<1>. QED
  BY <1>1, <1>2, <1>3, <1>4, <1>5 DEF IndInv

\* A caller takes the mutex, gives it back, or leaves with its answer.
LEMMA MutexIndInv ==
  ASSUME IndInv, NEW c \in Callers, Lock(c) \/ Unlock(c) \/ Return(c)
  PROVE  IndInv'
<1>1. TypeOK'
  BY ErrorTypes DEF IndInv, TypeOK, Lock, Unlock, Return, Goto, FirstPc, Pcs, Holding, SavePcs, ListPcs
<1>2. MutexInv'
  BY CallersAssumption DEF IndInv, TypeOK, MutexInv, Lock, Unlock, Return, Goto, FirstPc, Holding, SavePcs, ListPcs
<1>3. OpInv'
  BY OpFields DEF IndInv, TypeOK, OpInv, Lock, Unlock, Return, Goto, FirstPc, Holding, SavePcs, ListPcs
<1>4. TmpInv' /\ ScanInv'
  BY DEF IndInv, TypeOK, TmpInv, ScanInv, Lock, Unlock, Return, Goto, FirstPc
<1>5. NoTornFile' /\ OnlyCheckedRecords'
  BY DEF IndInv, NoTornFile, OnlyCheckedRecords, Lock, Unlock, Return
<1>. QED
  BY <1>1, <1>2, <1>3, <1>4, <1>5 DEF IndInv

\* The steps of atomicWriteJSON on the temporary file. TmpInv survives because
\* no other caller is past Lock: by MutexInv the writer is alone.
LEMMA WriteIndInv ==
  ASSUME IndInv, NEW c \in Callers,
         OpenTmp(c) \/ OpenTmpFails(c) \/ WriteTmp(c) \/ WriteTmpFails(c)
  PROVE  IndInv'
<1>. USE DEF OpenTmp, OpenTmpFails, WriteTmp, WriteTmpFails, Goto, Finish
<1>a. op[c] \in Ops /\ op[c].body \in Bodies /\ FileOf(op[c]) \in Files
  BY OpFields DEF IndInv, OpInv, SavePcs
<1>1. TypeOK'
  BY <1>a, ErrorTypes DEF IndInv, TypeOK, Content, Pcs, Holding, SavePcs
<1>2. MutexInv'
  BY DEF IndInv, TypeOK, MutexInv, Holding, SavePcs, ListPcs
<1>3. OpInv'
  BY DEF IndInv, TypeOK, OpInv, Holding, SavePcs, ListPcs
<1>4. TmpInv'
  BY <1>a, CallersAssumption DEF IndInv, TypeOK, TmpInv, MutexInv, Holding, SavePcs
<1>5. ScanInv'
  BY DEF IndInv, TypeOK, ScanInv
<1>6. NoTornFile' /\ OnlyCheckedRecords'
  BY DEF IndInv, NoTornFile, OnlyCheckedRecords
<1>. QED
  BY <1>1, <1>2, <1>3, <1>4, <1>5, <1>6 DEF IndInv

\* The rename: the only step that changes an archive file. By TmpInv it puts
\* the caller's own body there, which by OpInv passed the checks.
LEMMA RenameIndInv ==
  ASSUME IndInv, NEW c \in Callers, Rename(c) \/ RenameFails(c)
  PROVE  IndInv'
<1>. USE DEF Rename, RenameFails, Goto, Finish
<1>a. /\ op[c] \in Ops /\ op[c].type = "save" /\ Acceptable(op[c])
      /\ op[c].body \in Bodies /\ FileOf(op[c]) \in Files
  BY OpFields DEF IndInv, OpInv, SavePcs, Holding
<1>b. tmp[FileOf(op[c])] = op[c].body
  BY DEF IndInv, TmpInv
<1>1. TypeOK'
  BY <1>a, <1>b, ErrorTypes DEF IndInv, TypeOK, Content, Pcs, Holding
<1>2. MutexInv'
  BY DEF IndInv, TypeOK, MutexInv, Holding, SavePcs, ListPcs
<1>3. OpInv'
  BY DEF IndInv, TypeOK, OpInv, Holding, SavePcs, ListPcs
<1>4. TmpInv'
  BY <1>a, CallersAssumption DEF IndInv, TypeOK, TmpInv, MutexInv, Holding, SavePcs
<1>5. ScanInv'
  BY CallersAssumption DEF IndInv, TypeOK, ScanInv, MutexInv, Holding, SavePcs, ListPcs
<1>6. NoTornFile'
  BY <1>a, <1>b, ContentAssumption DEF IndInv, TypeOK, NoTornFile
<1>7. OnlyCheckedRecords'
  <2>1. checkName(FileOf(op[c])[2]) /\ Validate(FileOf(op[c])[2], op[c].body)
    BY <1>a DEF Acceptable, FileOf
  <2>. QED
    BY <1>a, <1>b, <2>1 DEF IndInv, TypeOK, OnlyCheckedRecords
<1>. QED
  BY <1>1, <1>2, <1>3, <1>4, <1>5, <1>6, <1>7 DEF IndInv

\* A get changes no file and no list.
LEMMA ReadIndInv ==
  ASSUME IndInv, NEW c \in Callers, ReadFile(c) \/ ReadFileFails(c)
  PROVE  IndInv'
<1>. USE DEF ReadFile, ReadFileFails, Goto, Finish
<1>1. TypeOK'
  BY ErrorTypes, ReadResultType DEF IndInv, TypeOK, Pcs, Holding
<1>2. MutexInv'
  BY DEF IndInv, TypeOK, MutexInv, Holding, SavePcs, ListPcs
<1>3. OpInv'
  BY DEF IndInv, TypeOK, OpInv, Holding, SavePcs, ListPcs
<1>4. TmpInv' /\ ScanInv'
  BY DEF IndInv, TypeOK, TmpInv, ScanInv
<1>5. NoTornFile' /\ OnlyCheckedRecords'
  BY DEF IndInv, NoTornFile, OnlyCheckedRecords
<1>. QED
  BY <1>1, <1>2, <1>3, <1>4, <1>5 DEF IndInv

\* The steps of a list. Each moves a name from todo to acc, or drops a name
\* whose file holds no record, or one that could not be read.
LEMMA ListIndInv ==
  ASSUME IndInv, NEW c \in Callers, Glob(c) \/ GlobFails(c) \/ ScanFile(c) \/ ScanEnds(c)
  PROVE  IndInv'
<1>a. op[c] \in Ops /\ op[c].kind \in Kinds
  BY OpFields DEF IndInv, OpInv, ListPcs, Glob, GlobFails, ScanFile, ScanEnds, Goto, Finish
<1>b. pc[c] \in ListPcs /\ UNCHANGED <<mu, final, tmp, op>>
  BY DEF ListPcs, Glob, GlobFails, ScanFile, ScanEnds, Goto, Finish
<1>1. CASE Glob(c)
  <2>. DEFINE matches == {n \in Names : final[<<op[c].kind, n>>] # Absent}
  <2>1. PICK found \in {matches} \cup (IF "read" \in Faults THEN {{}} ELSE {}) :
          todo' = [todo EXCEPT ![c] = found]
    BY <1>1 DEF Glob
  <2>2. /\ pc' = [pc EXCEPT ![c] = "scan"] /\ acc' = [acc EXCEPT ![c] = {}]
        /\ res' = res
    BY <1>1 DEF Glob, Goto
  <2>3. found \subseteq Names /\ ("read" \in Faults \/ found = matches)
    BY <2>1
  <2>. HIDE DEF matches
  <2>4. TypeOK'
    BY <1>b, <2>1, <2>2, <2>3 DEF IndInv, TypeOK, Pcs, Holding, ListPcs
  <2>5. \A nb \in Readable(final, op[c].kind) : nb[1] \in matches
    BY ContentAssumption DEF matches, Readable
  <2>6. ScanInv'
    BY <1>b, <2>1, <2>2, <2>3, <2>5 DEF IndInv, TypeOK, ScanInv
  <2>. QED
    BY <1>b, <2>2, <2>4, <2>6 DEF IndInv, TypeOK, MutexInv, OpInv, TmpInv,
      NoTornFile, OnlyCheckedRecords, Holding, SavePcs, ListPcs
<1>2. CASE ScanFile(c)
  <2>. DEFINE v(n) == final[<<op[c].kind, n>>]
  <2>1. PICK n \in todo[c] :
          /\ todo' = [todo EXCEPT ![c] = @ \ {n}]
          /\ \/ v(n) \in Bodies /\ acc' = [acc EXCEPT ![c] = @ \cup {<<n, v(n)>>}]
             \/ (v(n) \notin Bodies \/ "read" \in Faults) /\ UNCHANGED acc
    BY <1>2 DEF ScanFile
  <2>2. pc' = [pc EXCEPT ![c] = "scan"] /\ pc[c] = "scan" /\ res' = res
    BY <1>2 DEF ScanFile, Goto
  <2>3. n \in Names /\ \A b : <<n, b>> \in Readable(final, op[c].kind) <=> b \in Bodies /\ b = v(n)
    BY <2>1 DEF IndInv, TypeOK, Readable
  <2>. HIDE DEF v
  <2>4. acc'[c] \subseteq Readable(final, op[c].kind)
    BY <2>1, <2>2, <2>3 DEF IndInv, TypeOK, ScanInv
  <2>5. TypeOK'
    BY <1>b, <2>1, <2>2, <2>3 DEF IndInv, TypeOK, Pcs, Holding, ListPcs
  <2>6. ASSUME "read" \notin Faults, NEW nb \in Readable(final, op[c].kind)
        PROVE  nb \in acc'[c] \/ nb[1] \in todo'[c]
    <3>1. nb \in acc[c] \/ nb[1] \in todo[c]
      BY <2>2, <2>6 DEF IndInv, ScanInv
    <3>2. nb = <<nb[1], nb[2]>> /\ nb[2] \in Bodies
      BY DEF Readable
    <3>. QED
      BY <2>1, <2>3, <2>6, <3>1, <3>2 DEF IndInv, TypeOK
  <2>7. ScanInv'
    BY <1>b, <2>1, <2>2, <2>4, <2>6 DEF IndInv, TypeOK, ScanInv
  <2>. QED
    BY <1>b, <2>2, <2>5, <2>7 DEF IndInv, TypeOK, MutexInv, OpInv, TmpInv,
      NoTornFile, OnlyCheckedRecords, Holding, SavePcs, ListPcs
<1>3. CASE GlobFails(c) \/ ScanEnds(c)
  <2>. USE <1>3 DEF GlobFails, ScanEnds, Finish, Goto
  <2>1. TypeOK'
    BY ErrorTypes DEF IndInv, TypeOK, Pcs, Holding
  <2>2. MutexInv' /\ OpInv'
    BY DEF IndInv, TypeOK, MutexInv, OpInv, Holding, SavePcs, ListPcs
  <2>3. TmpInv' /\ ScanInv'
    BY DEF IndInv, TypeOK, TmpInv, ScanInv
  <2>. QED
    BY <2>1, <2>2, <2>3 DEF IndInv, NoTornFile, OnlyCheckedRecords
<1>. QED
  BY <1>1, <1>2, <1>3

\* The end of the process, with or without damage to the files in D.
LEMMA CrashIndInv ==
  ASSUME IndInv, NEW D \in SUBSET Exists, Crash(D)
  PROVE  IndInv'
<1>1. TypeOK'
  BY ErrorTypes DEF IndInv, TypeOK, Crash, Content, Pcs
<1>2. MutexInv'
  BY CallersAssumption DEF Crash, MutexInv, Holding, SavePcs, ListPcs
<1>3. OpInv' /\ TmpInv' /\ ScanInv'
  BY DEF Crash, OpInv, TmpInv, ScanInv, Holding, SavePcs, ListPcs
<1>4. NoTornFile' /\ OnlyCheckedRecords'
  BY ContentAssumption DEF IndInv, TypeOK, Crash, NoTornFile, OnlyCheckedRecords, Exists
<1>. QED
  BY <1>1, <1>2, <1>3, <1>4 DEF IndInv

\* Every step of the store preserves the invariant.
LEMMA NextIndInv == IndInv /\ [Next]_vars => IndInv'
<1>. SUFFICES ASSUME IndInv, [Next]_vars PROVE IndInv'
  OBVIOUS
<1>1. CASE \E c \in Callers : \E o \in Calls : Invoke(c, o) \/ Refuse(c, o)
  BY <1>1, EntryIndInv
<1>2. CASE \E c \in Callers : Lock(c) \/ Unlock(c) \/ Return(c)
  BY <1>2, MutexIndInv
<1>3. CASE \E c \in Callers :
             OpenTmp(c) \/ OpenTmpFails(c) \/ WriteTmp(c) \/ WriteTmpFails(c)
  BY <1>3, WriteIndInv
<1>4. CASE \E c \in Callers : Rename(c) \/ RenameFails(c)
  BY <1>4, RenameIndInv
<1>5. CASE \E c \in Callers : ReadFile(c) \/ ReadFileFails(c)
  BY <1>5, ReadIndInv
<1>6. CASE \E c \in Callers : Glob(c) \/ GlobFails(c) \/ ScanFile(c) \/ ScanEnds(c)
  BY <1>6, ListIndInv
<1>7. CASE \E D \in SUBSET Exists : Crash(D)
  BY <1>7, CrashIndInv
<1>8. CASE UNCHANGED vars
  BY <1>8 DEF vars, IndInv, TypeOK, MutexInv, OpInv, TmpInv, ScanInv,
    NoTornFile, OnlyCheckedRecords
<1>. QED
  BY <1>1, <1>2, <1>3, <1>4, <1>5, <1>6, <1>7, <1>8 DEF Next, Work

\* The invariant holds in every reachable state, whatever fails and wherever
\* the process ends.
THEOREM Invariance == Spec => []IndInv
<1>1. Init => IndInv
  BY InitIndInv
<1>2. IndInv /\ [Next]_vars => IndInv'
  BY NextIndInv
<1>. QED
  BY <1>1, <1>2, PTL DEF Spec

\* Every variable keeps its type.
THEOREM TypeCorrect == Spec => []TypeOK
<1>1. IndInv => TypeOK
  BY DEF IndInv
<1>. QED
  BY <1>1, Invariance, PTL

\* The promise of atomicWriteJSON: a half-written archive file is never there
\* to be read.
THEOREM NoTornFileEver == Spec => []NoTornFile
<1>1. IndInv => NoTornFile
  BY DEF IndInv
<1>. QED
  BY <1>1, Invariance, PTL

\* The data directory holds nothing that Validate or checkName refuses.
THEOREM OnlyCheckedRecordsEver == Spec => []OnlyCheckedRecords
<1>1. IndInv => OnlyCheckedRecords
  BY DEF IndInv
<1>. QED
  BY <1>1, Invariance, PTL

-----------------------------------------------------------------------------
(* What a step may never do. *)

\* Saves that fail and processes that end leave every registered record
\* readable: no step but a loss of power unregisters or damages one.
THEOREM NeverUnregisteredEver == Spec => NeverUnregistered
<1>. DEFINE Kept == \A f \in Files : final[f] \in Bodies /\ "power" \notin Faults
                                     => final'[f] \in Bodies
<1>1. IndInv /\ [Next]_vars => [Kept]_vars
  <2>. SUFFICES ASSUME IndInv, Next PROVE Kept
    BY DEF vars
  <2>1. CASE \E c \in Callers : Rename(c)
    <3>. PICK c \in Callers : Rename(c)
      BY <2>1
    <3>1. op[c].body \in Bodies /\ tmp[FileOf(op[c])] = op[c].body
      BY OpFields DEF IndInv, OpInv, TmpInv, SavePcs, Rename, Finish, Goto
    <3>. QED
      BY <3>1 DEF Rename, IndInv, TypeOK
  <2>2. CASE \E D \in SUBSET Exists : Crash(D)
    BY <2>2 DEF Crash, Exists
  <2>3. CASE final' = final
    BY <2>3
  <2>. QED
    BY <2>1, <2>2, <2>3 DEF Next, Work, Invoke, Refuse, Lock, Unlock, Return, OpenTmp,
      OpenTmpFails, WriteTmp, WriteTmpFails, RenameFails, ReadFile, ReadFileFails,
      Glob, GlobFails, ScanFile, ScanEnds
<1>2. Spec => [][Kept]_vars
  BY <1>1, Invariance, PTL DEF Spec
<1>. QED
  BY <1>2 DEF NeverUnregistered

-----------------------------------------------------------------------------
(* What a list returns. *)

\* A list that has ended holds what the directory holds: it still has the
\* mutex, so no save can rename before it gives the mutex back.
LEMMA NextListComplete ==
  ASSUME "read" \notin Faults, IndInv, ListComplete, [Next]_vars
  PROVE  ListComplete'
<1>. SUFFICES ASSUME NEW c \in Callers,
                     pc'[c] = "unlock", op'[c].type = "list", res'[c].tag = "listed"
              PROVE  res'[c].recs = Readable(final', op'[c].kind)
  BY DEF ListComplete
<1>a. TypeOK /\ pc[c] \in Pcs
  BY DEF IndInv, TypeOK
<1>b. ASSUME NEW d \in Callers, d # c,
             \/ \E o \in Calls : Invoke(d, o) \/ Refuse(d, o)
             \/ Lock(d) \/ Work(d) \/ Return(d)
      PROVE  res'[c].recs = Readable(final', op'[c].kind)
  <2>1. pc[c] = "unlock" /\ op'[c] = op[c] /\ res'[c] = res[c]
    BY <1>a, <1>b DEF TypeOK, Invoke, Refuse, Lock, Work, OpenTmp, OpenTmpFails, WriteTmp, WriteTmpFails,
      Rename, RenameFails, ReadFile, ReadFileFails, Glob, GlobFails, ScanFile, ScanEnds, Unlock,
      Return, Goto, Finish
  <2>2. pc[d] # "rename"
    BY <1>b, <2>1 DEF IndInv, MutexInv, Holding, SavePcs
  <2>3. final' = final
    BY <1>b, <2>2 DEF Invoke, Refuse, Lock, Work, OpenTmp, OpenTmpFails, WriteTmp, WriteTmpFails,
      Rename, RenameFails, ReadFile, ReadFileFails, Glob, GlobFails, ScanFile, ScanEnds, Unlock,
      Return, Goto, Finish
  <2>. QED
    BY <2>1, <2>3 DEF ListComplete
<1>1. CASE ScanEnds(c)
  <2>1. acc[c] = Readable(final, op[c].kind)
    BY <1>1 DEF ScanEnds, Finish, Goto, IndInv, ScanInv
  <2>2. res'[c] = Listed(acc[c]) /\ UNCHANGED <<final, op>>
    BY <1>1, <1>a DEF ScanEnds, Finish, TypeOK
  <2>. QED
    BY <2>1, <2>2 DEF Listed
<1>2. CASE \/ OpenTmpFails(c) \/ WriteTmpFails(c) \/ Rename(c) \/ RenameFails(c)
           \/ ReadFile(c) \/ ReadFileFails(c)
  BY <1>2 DEF OpenTmpFails, WriteTmpFails, Rename, RenameFails, ReadFile, ReadFileFails,
    Finish, Goto, IndInv, OpInv, SavePcs
<1>3. CASE GlobFails(c)
  BY <1>3, <1>a DEF GlobFails, Finish, TypeOK, IOError
<1>4. CASE \/ \E o \in Calls : Invoke(c, o) \/ Refuse(c, o)
           \/ Lock(c) \/ OpenTmp(c) \/ WriteTmp(c) \/ Glob(c) \/ ScanFile(c) \/ Unlock(c) \/ Return(c)
  BY <1>4, <1>a DEF TypeOK, Invoke, Refuse, Lock, OpenTmp, WriteTmp, Glob, ScanFile, Unlock,
    Return, Goto, FirstPc
<1>5. CASE \E D \in SUBSET Exists : Crash(D)
  BY <1>5 DEF Crash
<1>6. CASE UNCHANGED vars
  BY <1>6 DEF vars, ListComplete
<1>. QED
  BY <1>b, <1>1, <1>2, <1>3, <1>4, <1>5, <1>6 DEF Next, Work

\* Unless reads fail, the list a caller is given misses no undamaged record.
\* (A failing read leaves its record out: the run list_incomplete.)
THEOREM ListCompleteEver ==
  ASSUME "read" \notin Faults
  PROVE  Spec => []ListComplete
<1>1. Init => ListComplete
  BY DEF Init, ListComplete
<1>2. IndInv /\ ListComplete /\ [Next]_vars => ListComplete'
  BY NextListComplete
<1>. QED
  BY <1>1, <1>2, Invariance, PTL DEF Spec

-----------------------------------------------------------------------------
(* The store implements the registry. *)

\* The registry and the store speak of the same files, calls and answers.
LEMMA SameVocabulary ==
  /\ R!Files = Files
  /\ R!NoOp = NoOp
  /\ R!None = None /\ R!Ok = Ok /\ R!Rejected = Rejected /\ R!IOError = IOError
  /\ \A o : R!FileOf(o) = FileOf(o)
  /\ \A v : R!ReadResult(v) = ReadResult(v)
  /\ \A recs : R!Listed(recs) = Listed(recs)
  /\ \A d, k : R!Readable(d, k) = Readable(d, k)
BY DEF R!Files, R!Kinds, Files, Kinds, R!NoOp, NoOp, R!None, None, R!Ok, Ok,
  R!Rejected, Rejected, R!IOError, IOError, R!FileOf, FileOf, R!ReadResult,
  ReadResult, R!NotFound, NotFound, R!Found, Found, R!ParseError, ParseError,
  R!Listed, Listed, R!Readable, Readable

\* They apply the same checks.
LEMMA SameChecks == \A o : R!Acceptable(o) <=> Acceptable(o)
BY DEF R!Acceptable, Acceptable, R!checkName, checkName, R!Validate, Validate

\* A caller that moves on in the store moves on in the registry.
LEMMA StageMoves ==
  ASSUME TypeOK, NEW c \in Callers, NEW from, NEW to, Goto(c, from, to)
  PROVE  /\ [d \in Callers |-> Stage(pc[d])][c] = Stage(from)
         /\ [d \in Callers |-> Stage(pc[d])]'
              = [[d \in Callers |-> Stage(pc[d])] EXCEPT ![c] = Stage(to)]
BY DEF TypeOK, Goto

\* Where the registry sees a caller.
LEMMA StageValues ==
  /\ Stage("idle") = "idle"
  /\ Stage("unlock") = "done" /\ Stage("done") = "done"
  /\ \A p \in SavePcs \cup ListPcs \cup {"read", "lock"} : Stage(p) = "pending"
BY DEF Stage, SavePcs, ListPcs

\* A method body that ends with answer a decides its call in the registry.
LEMMA FinishDecides ==
  ASSUME TypeOK, NEW c \in Callers, NEW from \in SavePcs \cup ListPcs \cup {"read"},
         NEW a, Finish(c, from, a), UNCHANGED op
  PROVE  R!Decide(c, op[c].type, a)
<1>1. Goto(c, from, "unlock") /\ res' = [res EXCEPT ![c] = a]
  BY DEF Finish
<1>2. Stage(from) = "pending" /\ Stage("unlock") = "done"
  BY StageValues
<1>. QED
  BY <1>1, <1>2, StageMoves DEF R!Decide

\* An empty directory is an empty registry.
LEMMA InitRefines == Init => R!Init
BY SameVocabulary DEF Init, R!Init, Stage

\* The steps that the registry does not see: taking and giving back the
\* mutex, writing the temporary file, reading the files of a list.
LEMMA InnerStepStutters ==
  ASSUME IndInv, NEW c \in Callers,
         \/ Lock(c) \/ Unlock(c) \/ OpenTmp(c) \/ WriteTmp(c)
         \/ Glob(c) \/ ScanFile(c)
  PROVE  UNCHANGED R!vars
<1>1. UNCHANGED <<final, op, res>>
  BY DEF Lock, Unlock, OpenTmp, WriteTmp, Glob, ScanFile
<1>2. \A d \in Callers : Stage(pc'[d]) = Stage(pc[d])
  BY DEF IndInv, TypeOK, Stage, FirstPc, Goto, Lock, Unlock, OpenTmp, WriteTmp,
    Glob, ScanFile
<1>. QED
  BY <1>1, <1>2 DEF R!vars

\* A call enters the store as it enters the registry.
LEMMA EntryRefines ==
  ASSUME IndInv, NEW c \in Callers, NEW o \in Calls, Invoke(c, o) \/ Refuse(c, o)
  PROVE  R!Invoke(c, o) \/ R!Refuse(c, o)
<1>. TypeOK
  BY DEF IndInv
<1>1. CASE Invoke(c, o)
  BY <1>1, StageMoves, StageValues, SameChecks DEF Invoke, R!Invoke
<1>2. CASE Refuse(c, o)
  BY <1>2, StageMoves, StageValues, SameChecks, SameVocabulary DEF Refuse, R!Refuse
<1>. QED
  BY <1>1, <1>2

\* The rename is where a save takes effect.
LEMMA SaveRefines ==
  ASSUME IndInv, NEW c \in Callers, Rename(c)
  PROVE  R!Save(c)
<1>1. tmp[FileOf(op[c])] = op[c].body /\ op[c].type = "save"
  BY DEF IndInv, TmpInv, OpInv, SavePcs, Rename, Finish, Goto
<1>2. R!Decide(c, "save", R!Ok)
  BY <1>1, FinishDecides, SameVocabulary DEF IndInv, Rename, SavePcs
<1>. QED
  BY <1>1, <1>2, SameVocabulary DEF Rename, R!Save

\* A save that returns an error has had no effect.
LEMMA SaveFailsRefines ==
  ASSUME IndInv, NEW c \in Callers,
         OpenTmpFails(c) \/ WriteTmpFails(c) \/ RenameFails(c)
  PROVE  R!SaveFails(c)
<1>1. /\ op[c].type = "save" /\ op[c].body \in Bodies
      /\ pc[c] = "rename" => tmp[FileOf(op[c])] # Absent
  BY OpFields, ContentAssumption DEF IndInv, OpInv, TmpInv, SavePcs, OpenTmpFails,
    WriteTmpFails, RenameFails, Finish, Goto
<1>2. /\ \E from \in SavePcs : Finish(c, from, IOError)
      /\ UNCHANGED <<final, op>>
  BY DEF OpenTmpFails, WriteTmpFails, RenameFails, SavePcs
<1>3. R!Decide(c, "save", R!IOError)
  BY <1>1, <1>2, FinishDecides, SameVocabulary DEF IndInv
<1>4. Faults \cap {"write", "rename"} # {}
  BY <1>1 DEF OpenTmpFails, WriteTmpFails, RenameFails, Finish, Goto
<1>. QED
  BY <1>2, <1>3, <1>4 DEF R!SaveFails

\* A get takes effect when it reads the file.
LEMMA GetRefines ==
  ASSUME IndInv, NEW c \in Callers, ReadFile(c) \/ ReadFileFails(c)
  PROVE  R!Get(c) \/ R!GetFails(c)
<1>. TypeOK /\ op[c].type = "get"
  BY DEF IndInv, OpInv, ReadFile, ReadFileFails, Finish, Goto
<1>1. CASE ReadFile(c)
  <2>1. R!Decide(c, "get", ReadResult(final[FileOf(op[c])]))
    BY <1>1, FinishDecides DEF ReadFile
  <2>. QED
    BY <1>1, <2>1, SameVocabulary DEF ReadFile, R!Get
<1>2. CASE ReadFileFails(c)
  <2>1. R!Decide(c, "get", IOError)
    BY <1>2, FinishDecides DEF ReadFileFails
  <2>. QED
    BY <1>2, <2>1, SameVocabulary DEF ReadFileFails, R!GetFails
<1>. QED
  BY <1>1, <1>2

\* A list takes effect when its scan ends: by ScanInv what it has read one
\* file at a time is what the directory holds at that instant.
LEMMA ListRefines ==
  ASSUME IndInv, NEW c \in Callers, ScanEnds(c)
  PROVE  R!List(c)
<1>1. op[c].type = "list" /\ pc[c] = "scan" /\ todo[c] = {}
  BY DEF IndInv, OpInv, ListPcs, ScanEnds, Finish, Goto
<1>2. /\ acc[c] \subseteq Readable(final, op[c].kind)
      /\ "read" \in Faults \/ acc[c] = Readable(final, op[c].kind)
  BY <1>1 DEF IndInv, ScanInv
<1>3. R!Decide(c, "list", Listed(acc[c]))
  BY <1>1, FinishDecides DEF IndInv, ScanEnds, ListPcs
<1>4. final' = final
  BY DEF ScanEnds
<1>. QED
  BY <1>1, <1>2, <1>3, <1>4, SameVocabulary DEF R!List

\* A list whose pattern is refused returns that error and has no effect.
LEMMA ListFailsRefines ==
  ASSUME IndInv, NEW c \in Callers, GlobFails(c)
  PROVE  R!ListFails(c)
<1>1. op[c].type = "list"
  BY DEF IndInv, OpInv, ListPcs, GlobFails, Finish, Goto
<1>2. R!Decide(c, "list", R!IOError)
  BY <1>1, FinishDecides, SameVocabulary DEF IndInv, GlobFails, ListPcs
<1>. QED
  BY <1>2 DEF GlobFails, R!ListFails

\* A caller that takes its answer leaves the registry too.
LEMMA ReturnRefines ==
  ASSUME IndInv, NEW c \in Callers, Return(c)
  PROVE  R!Return(c)
BY StageMoves, StageValues, SameVocabulary DEF IndInv, Return, R!Return

\* The end of the process loses the calls in flight and no more.
LEMMA CrashRefines ==
  ASSUME NEW D \in SUBSET Exists, Crash(D)
  PROVE  R!Crash(D)
BY SameVocabulary, StageValues DEF Crash, R!Crash

\* Every step of the store is a step of the registry or invisible to it.
LEMMA NextRefines == IndInv /\ [Next]_vars => [R!Next]_(R!vars)
<1>. SUFFICES ASSUME IndInv, [Next]_vars PROVE R!Next \/ UNCHANGED R!vars
  OBVIOUS
<1>1. CASE \E c \in Callers : \E o \in Calls : Invoke(c, o) \/ Refuse(c, o)
  BY <1>1, EntryRefines DEF R!Next
<1>2. CASE \E c \in Callers :
             \/ Lock(c) \/ Unlock(c) \/ OpenTmp(c) \/ WriteTmp(c)
             \/ Glob(c) \/ ScanFile(c)
  BY <1>2, InnerStepStutters
<1>3. CASE \E c \in Callers : Rename(c)
  BY <1>3, SaveRefines DEF R!Next
<1>4. CASE \E c \in Callers : OpenTmpFails(c) \/ WriteTmpFails(c) \/ RenameFails(c)
  BY <1>4, SaveFailsRefines DEF R!Next
<1>5. CASE \E c \in Callers : ReadFile(c) \/ ReadFileFails(c)
  BY <1>5, GetRefines DEF R!Next
<1>6. CASE \E c \in Callers : ScanEnds(c) \/ GlobFails(c)
  BY <1>6, ListRefines, ListFailsRefines DEF R!Next
<1>7. CASE \E c \in Callers : Return(c)
  BY <1>7, ReturnRefines DEF R!Next
<1>8. CASE \E D \in SUBSET Exists : Crash(D)
  BY <1>8, CrashRefines, SameVocabulary DEF R!Next, Exists
<1>9. CASE UNCHANGED vars
  BY <1>9 DEF vars, R!vars
<1>. QED
  BY <1>1, <1>2, <1>3, <1>4, <1>5, <1>6, <1>7, <1>8, <1>9 DEF Next, Work

\* The calls of internal/store are atomic: every behaviour of the detailed
\* store is one the registry allows.
THEOREM Refinement == Spec => ImplementsRegistry
<1>1. Init => R!Init
  BY InitRefines
<1>2. IndInv /\ [Next]_vars => [R!Next]_(R!vars)
  BY NextRefines
<1>3. Spec => R!Init /\ [][R!Next]_(R!vars)
  BY <1>1, <1>2, Invariance, PTL DEF Spec
<1>. QED
  BY <1>3 DEF ImplementsRegistry, R!Spec

-----------------------------------------------------------------------------
(* The mutex. *)

X == INSTANCE Exclusion WITH Goroutines <- Callers, holder <- mu

\* Every step of the store leaves the mutex alone, takes it when nobody has it,
\* or gives back what its caller holds; the end of the process takes it from
\* whoever has it.
LEMMA NextUsesLock == IndInv /\ [Next]_vars => [X!Next]_mu
<1>. SUFFICES ASSUME IndInv, [Next]_vars PROVE X!Next \/ mu' = mu
  OBVIOUS
<1>1. mu \in Callers \cup {Nobody} /\ MutexInv
  BY DEF IndInv, TypeOK
<1>2. CASE UNCHANGED vars
  BY <1>2 DEF vars
<1>3. ASSUME NEW c \in Callers, Lock(c) PROVE X!Next
  BY <1>3 DEF Lock, X!Next, X!Acquire
<1>4. ASSUME NEW c \in Callers, Unlock(c) PROVE X!Next
  <2>1. mu = c
    BY <1>1, <1>4 DEF Unlock, Goto, MutexInv, Holding
  <2>. QED
    BY <1>4, <2>1 DEF Unlock, X!Next, X!Release
<1>5. ASSUME NEW c \in Callers, NEW o \in Calls, Invoke(c, o) \/ Refuse(c, o) PROVE mu' = mu
  BY <1>5 DEF Invoke, Refuse
<1>6. ASSUME NEW c \in Callers, Return(c) PROVE mu' = mu
  BY <1>6 DEF Return
<1>7. ASSUME NEW c \in Callers, Work(c), ~Unlock(c) PROVE mu' = mu
  BY <1>7 DEF Work, OpenTmp, OpenTmpFails, WriteTmp, WriteTmpFails, Rename, RenameFails, ReadFile,
              ReadFileFails, Glob, GlobFails, ScanFile, ScanEnds
<1>8. ASSUME NEW D, Crash(D) PROVE X!Next \/ mu' = mu
  BY <1>1, <1>8 DEF Crash, X!Next, X!Release
<1>. QED
  BY <1>2, <1>3, <1>4, <1>5, <1>6, <1>7, <1>8 DEF Next

\* The store uses its mutex as a lock with one holder allows, and as Mutex is
\* proved to provide: no method, no error path and no end of the process
\* unlocks what its caller does not hold, or takes what is held.
THEOREM UsesLock == Spec => X!Spec
<1>1. Init => X!Init
  BY DEF Init, X!Init
<1>2. IndInv /\ [Next]_vars => [X!Next]_mu
  BY NextUsesLock
<1>. QED
  BY <1>1, <1>2, Invariance, PTL DEF Spec, X!Spec
=============================================================================
