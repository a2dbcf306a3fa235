---------------------------- MODULE ServiceProofs ----------------------------
(***************************************************************************)
(* Proofs about Service, for every number of handlers and every set of     *)
(* requests and faults: the process uses the store as Store allows, so     *)
(* that what is proved there holds here, and seed keeps its promises       *)
(* across every crash and every failure.                                   *)
(***************************************************************************)
EXTENDS Service, StoreProofs

-----------------------------------------------------------------------------
(* Facts about requests and answers. *)

\* The answers of the store differ in their tags.
LEMMA Answers ==
  /\ None.tag = "none" /\ Ok.tag = "ok" /\ NotFound.tag = "notfound"
  /\ IOError.tag = "ioerror" /\ ParseError.tag = "parse" /\ Rejected.tag = "rejected"
  /\ \A b : Found(b).tag = "found"
  /\ \A recs : Listed(recs).tag = "listed"
BY DEF None, Ok, NotFound, IOError, ParseError, Rejected, Found, Listed

\* A read says what the file holds.
LEMMA ReadAnswers ==
  ASSUME NEW v
  PROVE  /\ ReadResult(v) # Ok /\ ReadResult(v).tag # "listed"
         /\ ReadResult(v) = NotFound => v = Absent
         /\ ReadResult(v).tag = "found" => v \in Bodies
BY Answers DEF ReadResult

\* The calls of main are calls.
LEMMA SeedCalls ==
  /\ SeedGet \in Calls /\ SeedSave \in Calls
  /\ SeedGet.type = "get" /\ SeedSave.type = "save"
  /\ FileOf(SeedGet) = SeedFile /\ FileOf(SeedSave) = SeedFile
  /\ SeedFile \in Files
  /\ Acceptable(SeedGet) /\ Acceptable(SeedSave)
BY SeedCallsAssumption, SeedAssumption, NamesAssumption
  DEF SeedGet, SeedSave, SeedFile, FileOf, Files, Kinds, Acceptable, checkName, Validate

\* The requests that use the store make one of its calls.
LEMMA RequestCalls ==
  ASSUME SvcTypeOK, NEW h \in Handlers, UsesStore(req[h])
  PROVE  StoreCall(req[h]) \in Calls
<1>1. NoRequest.route = "none"
  BY DEF NoRequest
<1>2. req[h] \in Requests
  BY <1>1 DEF SvcTypeOK, UsesStore
<1>. QED
  BY <1>2, CallsCoverRequests

\* A put, and no other request, saves, under the file it names.
LEMMA PutSaves ==
  ASSUME NEW r, StoreCall(r).type = "save"
  PROVE  r.route = "put" /\ FileOf(StoreCall(r)) = <<r.kind, r.name>>
BY DEF StoreCall, FileOf

\* That file is one of the archive.
LEMMA PutFiles ==
  ASSUME SvcTypeOK, NEW h \in Handlers, req[h].route = "put"
  PROVE  <<req[h].kind, req[h].name>> \in Files
<1>1. req[h] \in AllRequests
  BY RequestsAssumption DEF SvcTypeOK, NoRequest
<1>. QED
  BY <1>1 DEF AllRequests, Files

\* Handlers and main are callers, and main is no handler.
LEMMA WhoCalls ==
  /\ Main \in Callers
  /\ \A h \in Handlers : h \in Callers /\ h # Main
  /\ \A c \in Callers : c \in Handlers \/ c = Main
BY ProcessAssumption

-----------------------------------------------------------------------------
(* The process runs the store as Store does. *)

\* Every step of the process is a step of the store or leaves it alone.
LEMMA StepIsStoreStep == SvcTypeOK /\ [SvcNext]_allvars => [Next]_vars
<1>. SUFFICES ASSUME SvcTypeOK, [SvcNext]_allvars PROVE [Next]_vars
  OBVIOUS
<1>1. CASE Start \/ SeedStep
  <2>1. CASE SeedFails
    BY <2>1 DEF SeedFails, Exit, Next, Exists
  <2>2. CASE Start \/ SeedKept \/ SeedMissing \/ SeedSaves \/ SeedSaved
    BY <2>2, SeedCalls, WhoCalls DEF Start, SeedKept, SeedMissing, SeedSaves, SeedSaved, Next
  <2>. QED
    BY <1>1, <2>1, <2>2 DEF SeedStep
<1>2. CASE Listens \/ Signal
  BY <1>2 DEF Listens, Signal
<1>3. CASE ListenFails \/ DrainDone \/ DrainTimeout
  BY <1>3 DEF ListenFails, DrainDone, DrainTimeout, Exit, Next, Exists
<1>4. CASE \E D \in SUBSET Exists : Kill(D)
  BY <1>4 DEF Kill, Exit, Next
<1>5. ASSUME NEW h \in Handlers,
             \/ \E r \in Requests : Accept(h, r)
             \/ Decode(h) \/ DecodeFails(h) \/ Handle(h) \/ Replied(h)
      PROVE  [Next]_vars
  <2>1. CASE CallStore(h)
    BY <2>1, RequestCalls, WhoCalls DEF CallStore, Next
  <2>2. CASE AnswerFromStore(h)
    BY <2>2, WhoCalls DEF AnswerFromStore, Next
  <2>3. CASE UNCHANGED vars
    BY <2>3
  <2>. QED
    BY <1>5, <2>1, <2>2, <2>3 DEF Accept, Decode, DecodeFails, Handle, AnswerDirectly, Replied, vars
<1>6. CASE StoreStep
  BY <1>6 DEF StoreStep, Next
<1>7. CASE UNCHANGED allvars
  BY <1>7 DEF allvars
<1>. QED
  BY <1>1, <1>2, <1>3, <1>4, <1>5, <1>6, <1>7 DEF SvcNext

-----------------------------------------------------------------------------
(* The inductive invariant. *)

\* A process that has not started serves nothing.
LEMMA InitSvcInv == SvcInit => SvcInv
<1>. SUFFICES ASSUME SvcInit PROVE SvcInv
  OBVIOUS
<1>1. IndInv
  BY InitIndInv DEF SvcInit
<1>2. SvcTypeOK
  BY ProcessAssumption DEF SvcInit, SvcTypeOK, NoReply
<1>3. CallInv /\ MainInv
  BY WhoCalls DEF SvcInit, Init, CallInv, MainInv
<1>4. AnswerInv /\ SeedInv
  BY Answers DEF SvcInit, Init, AnswerInv, SeedInv
<1>5. SeededWhileServing /\ AckedIsRegistered
  BY DEF SvcInit, SeededWhileServing, AckedIsRegistered
<1>. QED
  BY <1>1, <1>2, <1>3, <1>4, <1>5 DEF SvcInv

\* The end of the process.
LEMMA ExitSvcInv ==
  ASSUME SvcInv, IndInv', NEW D, Exit(D), stops' \in 0 .. MaxStops
  PROVE  SvcInv'
<1>1. SvcTypeOK'
  BY DEF Exit, SvcTypeOK, NoReply
<1>2. CallInv' /\ MainInv'
  BY WhoCalls DEF Exit, Crash, CallInv, MainInv
<1>3. AnswerInv' /\ SeedInv'
  BY Answers DEF Exit, Crash, AnswerInv, SeedInv
<1>4. SeededWhileServing' /\ AckedIsRegistered'
  BY DEF Exit, SeededWhileServing, AckedIsRegistered
<1>. QED
  BY <1>1, <1>2, <1>3, <1>4 DEF SvcInv

\* main starts and seeds: no handler runs, so what GetRecipe said of the file
\* is still true when main acts on it.
LEMMA MainSvcInv ==
  ASSUME SvcInv, IndInv', Start \/ SeedKept \/ SeedMissing \/ SeedSaves \/ SeedSaved
  PROVE  SvcInv'
<1>. USE DEF Start, SeedKept, SeedMissing, SeedSaves, SeedSaved, Enter, svars,
       Invoke, Return, Goto
<1>a. IndInv /\ TypeOK /\ SvcTypeOK
  BY DEF SvcInv, IndInv
<1>1. SvcTypeOK'
  BY <1>a DEF SvcTypeOK
<1>2. CallInv'
  BY <1>a, WhoCalls DEF SvcInv, CallInv, TypeOK
<1>3. MainInv'
  BY <1>a, WhoCalls DEF SvcInv, MainInv, TypeOK
<1>4. AnswerInv'
  BY <1>a, WhoCalls, Answers DEF SvcInv, AnswerInv, TypeOK
<1>5. SeedInv'
  BY <1>a, WhoCalls, Answers, SeedCalls DEF SvcInv, SeedInv, AnswerInv, MainInv, TypeOK
<1>6. SeededWhileServing'
  BY <1>a, WhoCalls, SeedCalls DEF SvcInv, SeededWhileServing, SeedInv, AnswerInv, MainInv
<1>7. AckedIsRegistered'
  BY DEF SvcInv, AckedIsRegistered
<1>. QED
  BY <1>1, <1>2, <1>3, <1>4, <1>5, <1>6, <1>7 DEF SvcInv

\* The listener comes up, or a signal arrives.
LEMMA PhaseSvcInv ==
  ASSUME SvcInv, IndInv', Listens \/ Signal
  PROVE  SvcInv'
<1>. USE DEF Listens, Signal, Enter, vars
<1>1. SvcTypeOK'
  BY ProcessAssumption DEF SvcInv, SvcTypeOK
<1>2. CallInv' /\ MainInv'
  BY DEF SvcInv, CallInv, MainInv
<1>3. AnswerInv' /\ SeedInv'
  BY DEF SvcInv, AnswerInv, SeedInv
<1>4. SeededWhileServing' /\ AckedIsRegistered'
  BY DEF SvcInv, SeededWhileServing, AckedIsRegistered
<1>. QED
  BY <1>1, <1>2, <1>3, <1>4 DEF SvcInv

\* A reply has a status, and 201 is only the reply to a save that succeeded.
LEMMA ReplyTypes ==
  ASSUME NEW r, NEW a
  PROVE  /\ Reply(400) \in [code : {200, 201, 400, 404, 500}, encodes : BOOLEAN]
         /\ StoreReply(r, a) \in [code : {200, 201, 400, 404, 500}, encodes : BOOLEAN]
         /\ DirectReply(r) \in [code : {200, 400}, encodes : BOOLEAN]
         /\ StoreReply(r, a).code = 201 => a = Ok
         /\ Reply(400).code = 400
<1>1. \A code : Reply(code).code = code /\ Reply(code).encodes = TRUE
                /\ Reply(code) \in [code : {code}, encodes : BOOLEAN]
  BY DEF Reply
<1>2. \A b : ServeCurve(r, b) \in [code : {200, 400}, encodes : BOOLEAN]
  BY DEF ServeCurve, Reply
<1>3. DirectReply(r) \in [code : {200, 400}, encodes : BOOLEAN]
  BY <1>1, <1>2 DEF DirectReply
<1>4. /\ StoreReply(r, a) \in [code : {200, 201, 400, 404, 500}, encodes : BOOLEAN]
      /\ StoreReply(r, a).code = 201 => a = Ok
  BY <1>1, <1>2 DEF StoreReply
<1>. QED
  BY <1>1, <1>3, <1>4

\* Writing a reply.
LEMMA AnswerTyped ==
  ASSUME SvcTypeOK, NEW h \in Handlers, NEW from,
         NEW a \in [code : {200, 201, 400, 404, 500}, encodes : BOOLEAN], Answer(h, from, a)
  PROVE  SvcTypeOK' /\ reply'[h] = a
<1>. a.code # 0
  OBVIOUS
<1>. QED
  BY DEF SvcTypeOK, Answer, Advance

\* The steps of a handler.
LEMMA HandlerSvcInv ==
  ASSUME SvcInv, IndInv', NEW h \in Handlers,
         \/ \E r \in Requests : Accept(h, r)
         \/ Decode(h) \/ DecodeFails(h) \/ Handle(h) \/ Replied(h)
  PROVE  SvcInv'
<1>a. IndInv /\ TypeOK /\ SvcTypeOK /\ h \in Callers /\ h # Main
  BY WhoCalls DEF SvcInv, IndInv
<1>b. /\ UNCHANGED <<phase, stops, final>>
      /\ \A c \in Callers : c # h => pc'[c] = pc[c] /\ op'[c] = op[c] /\ res'[c] = res[c]
      /\ \A g \in Handlers : g # h => stage'[g] = stage[g] /\ req'[g] = req[g] /\ reply'[g] = reply[g]
  BY <1>a DEF TypeOK, SvcTypeOK, Accept, Decode, DecodeFails, Handle, CallStore, AnswerFromStore,
    AnswerDirectly, Replied, Advance, Answer, Invoke, Refuse, Return, Goto, vars, svars
<1>c. ASSUME DecodeFails(h) \/ AnswerDirectly(h) PROVE SvcTypeOK'
  <2>1. CASE DecodeFails(h)
    <3>1. Answer(h, "body", Reply(400))
      BY <2>1 DEF DecodeFails
    <3>2. Reply(400) \in [code : {200, 201, 400, 404, 500}, encodes : BOOLEAN]
      BY ReplyTypes
    <3>. QED
      BY <3>1, <3>2, <1>a, AnswerTyped
  <2>2. CASE AnswerDirectly(h)
    <3>1. Answer(h, "work", DirectReply(req[h]))
      BY <2>2 DEF AnswerDirectly
    <3>2. DirectReply(req[h]) \in [code : {200, 201, 400, 404, 500}, encodes : BOOLEAN]
      BY ReplyTypes
    <3>. QED
      BY <3>1, <3>2, <1>a, AnswerTyped
  <2>. QED
    BY <1>c, <2>1, <2>2
<1>1. CASE \E r \in Requests : Accept(h, r)
  <2>. PICK r \in Requests : Accept(h, r)
    BY <1>1
  <2>1. stage[h] = "none" /\ pc[h] = "idle" /\ phase \in {"serving", "draining"}
    BY <1>a DEF SvcInv, CallInv, Accept, Advance
  <2>2. SvcTypeOK'
    BY <1>a DEF SvcTypeOK, Accept, Advance
  <2>3. CallInv' /\ MainInv'
    BY <1>a, <1>b, <2>1 DEF SvcInv, CallInv, MainInv, Accept, vars
  <2>4. AnswerInv' /\ SeedInv' /\ SeededWhileServing'
    BY <1>a, <1>b DEF SvcInv, AnswerInv, SeedInv, SeededWhileServing, Accept, vars
  <2>5. AckedIsRegistered'
    BY <1>a, <1>b DEF SvcInv, AckedIsRegistered, SvcTypeOK, Accept, Advance
  <2>. QED
    BY <2>2, <2>3, <2>4, <2>5 DEF SvcInv
<1>2. CASE Decode(h) \/ DecodeFails(h) \/ AnswerDirectly(h) \/ Replied(h)
  <2>. USE DEF Decode, DecodeFails, AnswerDirectly, Replied, Advance, Answer
  <2>1. pc[h] = "idle" /\ UNCHANGED vars /\ stage[h] # "none"
    BY <1>2 DEF SvcInv, CallInv
  <2>2. phase \in {"serving", "draining"}
    BY <2>1, <1>a DEF SvcInv, MainInv, SvcTypeOK
  <2>3. SvcTypeOK'
    <3>1. CASE Decode(h)
      BY <3>1, <1>a DEF SvcTypeOK
    <3>2. CASE DecodeFails(h) \/ AnswerDirectly(h)
      BY <3>2, <1>c
    <3>3. CASE Replied(h)
      BY <3>3, <1>a DEF SvcTypeOK, NoReply
    <3>. QED
      BY <1>2, <3>1, <3>2, <3>3
  <2>4. CallInv' /\ MainInv'
    BY <1>b, <2>1, <2>2 DEF SvcInv, CallInv, MainInv, vars
  <2>5. AnswerInv' /\ SeedInv' /\ SeededWhileServing'
    BY <1>b, <2>1 DEF SvcInv, AnswerInv, SeedInv, SeededWhileServing, vars
  <2>6. AckedIsRegistered'
    <3>1. stage'[h] # "reply" \/ reply'[h].code # 201
      <4>1. CASE DecodeFails(h)
        BY <4>1, <1>a, ReplyTypes DEF SvcTypeOK
      <4>2. CASE AnswerDirectly(h)
        <5>1. reply'[h] = DirectReply(req[h])
          BY <4>2, <1>a DEF SvcTypeOK
        <5>2. DirectReply(req[h]).code \in {200, 400}
          BY ReplyTypes
        <5>. QED
          BY <5>1, <5>2
      <4>3. CASE Decode(h) \/ Replied(h)
        BY <4>3, <1>a DEF SvcTypeOK
      <4>. QED
        BY <1>2, <4>1, <4>2, <4>3
    <3>. QED
      BY <1>b, <3>1 DEF SvcInv, AckedIsRegistered
  <2>. QED
    BY <2>3, <2>4, <2>5, <2>6 DEF SvcInv
<1>3. CASE CallStore(h)
  <2>. USE <1>3 DEF CallStore, Invoke, Refuse, Goto, svars
  <2>1. stage[h] = "work" /\ phase \in {"serving", "draining"}
    BY <1>a DEF SvcInv, MainInv, SvcTypeOK
  <2>2. SvcTypeOK'
    BY <1>a DEF SvcTypeOK
  <2>3. CallInv' /\ MainInv'
    BY <1>a, <1>b, <2>1, WhoCalls DEF SvcInv, CallInv, MainInv, TypeOK
  <2>4. AnswerInv'
    <3>1. /\ res'[h] # Ok /\ res'[h].tag # "listed"
          /\ pc'[h] \notin {"unlock", "done"} => res'[h] = None
      BY <1>a, Answers DEF SvcInv, AnswerInv, TypeOK
    <3>. QED
      BY <1>a, <1>b, <3>1 DEF SvcInv, AnswerInv
  <2>5. SeedInv' /\ SeededWhileServing'
    BY <1>b, <2>1 DEF SvcInv, SeedInv, SeededWhileServing
  <2>6. AckedIsRegistered'
    BY <1>b DEF SvcInv, AckedIsRegistered
  <2>. QED
    BY <2>2, <2>3, <2>4, <2>5, <2>6 DEF SvcInv
<1>4. CASE AnswerFromStore(h)
  <2>. USE <1>4 DEF AnswerFromStore, Answer, Advance, Return, Goto
  <2>1. stage[h] = "work" /\ phase \in {"serving", "draining"} /\ pc[h] = "done"
    BY <1>a DEF SvcInv, MainInv, SvcTypeOK
  <2>2. SvcTypeOK'
    BY <1>a, ReplyTypes DEF SvcTypeOK
  <2>3. CallInv' /\ MainInv'
    BY <1>a, <1>b, <2>1, WhoCalls DEF SvcInv, CallInv, MainInv, TypeOK
  <2>4. AnswerInv'
    <3>1. res'[h] = None
      BY <1>a DEF TypeOK
    <3>. QED
      BY <1>a, <1>b, <3>1, Answers DEF SvcInv, AnswerInv
  <2>5. SeedInv' /\ SeededWhileServing'
    BY <1>b, <2>1 DEF SvcInv, SeedInv, SeededWhileServing
  <2>6. AckedIsRegistered'
    <3>1. reply'[h].code = 201 => res[h] = Ok
      BY <1>a, ReplyTypes DEF SvcTypeOK
    <3>2. op[h] = StoreCall(req[h]) /\ req'[h] = req[h]
      BY <2>1 DEF SvcInv, CallInv
    <3>3. res[h] = Ok => req[h].route = "put" /\ final[<<req[h].kind, req[h].name>>] \in Bodies
      BY <1>a, <3>2, PutSaves DEF SvcInv, AnswerInv
    <3>. QED
      BY <1>b, <3>1, <3>2, <3>3 DEF SvcInv, AckedIsRegistered
  <2>. QED
    BY <2>2, <2>3, <2>4, <2>5, <2>6 DEF SvcInv
<1>. QED
  BY <1>1, <1>2, <1>3, <1>4 DEF Handle

\* The steps inside the store. Only a rename changes a file, and it leaves a
\* record there; while main is in the store nobody else is.
LEMMA StoreSvcInv ==
  ASSUME SvcInv, IndInv', NEW c \in Callers, Lock(c) \/ Work(c), UNCHANGED svars
  PROVE  SvcInv'
<1>a. IndInv /\ TypeOK /\ SvcTypeOK /\ pc[c] \notin {"idle", "done"} /\ op' = op
  BY DEF SvcInv, IndInv, Lock, Work, OpenTmp, OpenTmpFails, WriteTmp, WriteTmpFails, Rename,
    RenameFails, ReadFile, ReadFileFails, Glob, GlobFails, ScanFile, ScanEnds, Unlock, Goto, Finish
<1>b. /\ \A d \in Callers : d # c => pc'[d] = pc[d] /\ res'[d] = res[d]
      /\ pc'[c] # "idle"
  BY <1>a DEF TypeOK, Lock, Work, OpenTmp, OpenTmpFails, WriteTmp, WriteTmpFails, Rename,
    RenameFails, ReadFile, ReadFileFails, Glob, GlobFails, ScanFile, ScanEnds, Unlock, Goto, Finish, FirstPc
<1>c. /\ ~Rename(c) => final' = final
      /\ Rename(c) =>
           /\ op[c].type = "save" /\ op[c].body \in Bodies /\ FileOf(op[c]) \in Files
           /\ final' = [final EXCEPT ![FileOf(op[c])] = op[c].body]
  <2>1. CASE Rename(c)
    BY <1>a, <2>1, OpFields DEF IndInv, TmpInv, OpInv, SavePcs, Rename, Finish, Goto
  <2>2. CASE ~Rename(c)
    BY <2>2 DEF Lock, Work, OpenTmp, OpenTmpFails, WriteTmp, WriteTmpFails,
      RenameFails, ReadFile, ReadFileFails, Glob, GlobFails, ScanFile, ScanEnds, Unlock
  <2>. QED
    BY <2>1, <2>2
<1>d. \A f \in Files : final[f] \in Bodies => final'[f] \in Bodies
  BY <1>a, <1>c DEF TypeOK
<1>e. /\ pc'[c] \notin {"unlock", "done"} => res'[c] = None
      /\ res'[c] = Ok => res[c] = Ok \/ Rename(c)
      /\ res'[c] = NotFound => final' = final /\ (res[c] = NotFound \/ final[FileOf(op[c])] = Absent)
      /\ res'[c].tag = "found" => res[c].tag = "found" \/ final[FileOf(op[c])] \in Bodies
      /\ res'[c].tag = "listed" => res[c].tag = "listed" \/ op[c].type = "list"
  <2>1. CASE \/ Lock(c) \/ OpenTmp(c) \/ WriteTmp(c) \/ Glob(c) \/ ScanFile(c) \/ Unlock(c)
    BY <1>a, <2>1 DEF SvcInv, AnswerInv, TypeOK, Lock, OpenTmp, WriteTmp, Glob, ScanFile, Unlock, Goto
  <2>2. CASE \/ OpenTmpFails(c) \/ WriteTmpFails(c) \/ Rename(c) \/ RenameFails(c)
             \/ ReadFileFails(c) \/ GlobFails(c) \/ ScanEnds(c)
    BY <1>a, <2>2, Answers DEF TypeOK, IndInv, OpInv, ListPcs, OpenTmpFails, WriteTmpFails,
      Rename, RenameFails, ReadFileFails, GlobFails, ScanEnds, Finish, Goto
  <2>3. CASE ReadFile(c)
    BY <1>a, <2>3, ReadAnswers DEF TypeOK, ReadFile, Finish, Goto
  <2>. QED
    BY <2>1, <2>2, <2>3 DEF Work
<1>1. SvcTypeOK'
  BY <1>a DEF SvcTypeOK, svars
<1>2. CallInv' /\ MainInv'
  BY <1>a, <1>b, WhoCalls DEF SvcInv, CallInv, MainInv, svars
<1>3. AnswerInv'
  <2>1. res'[c] = Ok => op[c].type = "save" /\ final'[FileOf(op[c])] \in Bodies
    <3>1. CASE Rename(c)
      BY <1>a, <1>c, <3>1 DEF TypeOK
    <3>2. CASE ~Rename(c)
      BY <1>c, <1>e, <3>2 DEF SvcInv, AnswerInv
    <3>. QED
      BY <3>1, <3>2
  <2>2. \A d \in Callers : op[d].type = "save" /\ final[FileOf(op[d])] \in Bodies
                             => final'[FileOf(op[d])] \in Bodies
    <3>1. \A d \in Callers : op[d].type = "save" => op[d] \in Ops
      BY <1>a, NoOpIsNoCall DEF TypeOK
    <3>. QED
      BY <1>d, <3>1, OpFields
  <2>. QED
    BY <1>a, <1>b, <1>e, <2>1, <2>2 DEF SvcInv, AnswerInv
<1>4. SeedInv'
  <2>. SUFFICES ASSUME phase \in {"seedGet", "seedSave"} PROVE SeedInv'
    BY DEF SeedInv, svars
  <2>1. c = Main
    BY <1>a, WhoCalls DEF SvcInv, MainInv, CallInv
  <2>2. CASE phase = "seedGet"
    BY <1>a, <1>c, <1>e, <2>1, <2>2, SeedCalls DEF SvcInv, MainInv, SeedInv, svars
  <2>3. CASE phase = "seedSave"
    <3>1. FileOf(op[Main]) = SeedFile /\ op[Main].type = "save"
      BY <1>a, <2>1, <2>3, SeedCalls DEF SvcInv, MainInv
    <3>2. CASE Rename(c)
      BY <1>a, <2>1, <2>3, <3>2, Answers DEF TypeOK, Rename, Finish, SeedInv, svars
    <3>3. CASE ~Rename(c)
      <4>1. final' = final
        BY <1>c, <3>3
      <4>2. res[Main] = Ok => res'[Main] = Ok
        <5>. SUFFICES ASSUME res[Main] = Ok PROVE res'[Main] = Ok
          OBVIOUS
        <5>1. pc[Main] = "unlock"
          BY <1>a, <2>1, Answers, WhoCalls DEF SvcInv, AnswerInv
        <5>. QED
          BY <2>1, <5>1 DEF Lock, Work, OpenTmp, OpenTmpFails, WriteTmp, WriteTmpFails, Rename,
            RenameFails, ReadFile, ReadFileFails, Glob, GlobFails, ScanFile, ScanEnds, Unlock, Goto, Finish
      <4>. QED
        BY <2>3, <4>1, <4>2 DEF SvcInv, SeedInv, svars
    <3>. QED
      BY <3>2, <3>3
  <2>. QED
    BY <2>2, <2>3
<1>5. SeededWhileServing'
  BY <1>d, SeedCalls DEF SvcInv, SeededWhileServing, svars
<1>6. AckedIsRegistered'
  <2>. QED
    BY <1>a, <1>d, PutFiles DEF SvcInv, AckedIsRegistered, svars
<1>. QED
  BY <1>1, <1>2, <1>3, <1>4, <1>5, <1>6 DEF SvcInv

\* Every step of the process preserves the invariant.
LEMMA NextSvcInv == SvcInv /\ [SvcNext]_allvars => SvcInv'
<1>. SUFFICES ASSUME SvcInv, [SvcNext]_allvars PROVE SvcInv'
  OBVIOUS
<1>a. IndInv'
  BY StepIsStoreStep, NextIndInv DEF SvcInv
<1>b. stops \in 0 .. MaxStops /\ MaxStops \in Nat
  BY ProcessAssumption DEF SvcInv, SvcTypeOK
<1>1. CASE Start \/ SeedKept \/ SeedMissing \/ SeedSaves \/ SeedSaved
  BY <1>a, <1>1, MainSvcInv
<1>2. CASE SeedFails \/ ListenFails \/ DrainDone \/ DrainTimeout
  BY <1>a, <1>b, <1>2, ExitSvcInv DEF SeedFails, ListenFails, DrainDone, DrainTimeout
<1>3. CASE \E D \in SUBSET Exists : Kill(D)
  <2>. PICK D \in SUBSET Exists : Kill(D)
    BY <1>3
  <2>1. Exit(D) /\ stops' \in 0 .. MaxStops
    BY <1>b DEF Kill
  <2>. QED
    BY <1>a, <2>1, ExitSvcInv
<1>4. CASE Listens \/ Signal
  BY <1>a, <1>4, PhaseSvcInv
<1>5. CASE \E h \in Handlers :
             \/ \E r \in Requests : Accept(h, r)
             \/ Decode(h) \/ DecodeFails(h) \/ Handle(h) \/ Replied(h)
  BY <1>a, <1>5, HandlerSvcInv
<1>6. CASE StoreStep /\ UNCHANGED svars
  BY <1>a, <1>6, StoreSvcInv DEF StoreStep
<1>7. CASE UNCHANGED allvars
  <2>. USE <1>7 DEF allvars, vars, svars
  <2>1. SvcTypeOK' /\ CallInv' /\ MainInv'
    BY DEF SvcInv, SvcTypeOK, CallInv, MainInv
  <2>2. AnswerInv' /\ SeedInv' /\ SeededWhileServing' /\ AckedIsRegistered'
    BY DEF SvcInv, AnswerInv, SeedInv, SeededWhileServing, AckedIsRegistered
  <2>. QED
    BY <1>a, <2>1, <2>2 DEF SvcInv
<1>. QED
  BY <1>1, <1>2, <1>3, <1>4, <1>5, <1>6, <1>7 DEF SvcNext, SeedStep

\* The invariant of the process holds in every reachable state, the store's
\* with it.
THEOREM SvcInvariance == SvcSpec => []SvcInv
<1>1. SvcInit => SvcInv
  BY InitSvcInv
<1>2. SvcInv /\ [SvcNext]_allvars => SvcInv'
  BY NextSvcInv
<1>. QED
  BY <1>1, <1>2, PTL DEF SvcSpec

\* Every variable of the process keeps its type, and every handler that ends
\* its work has written a status.
THEOREM SvcTypeCorrect == SvcSpec => []SvcTypeOK
<1>1. SvcInv => SvcTypeOK
  BY DEF SvcInv
<1>. QED
  BY <1>1, SvcInvariance, PTL

\* The recipe cycloid-lift is registered and readable whenever clients can
\* reach the service, whatever failed, crashed or was damaged before.
THEOREM SeededEver == SvcSpec => []SeededWhileServing
<1>1. SvcInv => SeededWhileServing
  BY DEF SvcInv
<1>. QED
  BY <1>1, SvcInvariance, PTL

\* No 201 is sent for a record that is not in the archive.
THEOREM AckedEver == SvcSpec => []AckedIsRegistered
<1>1. SvcInv => AckedIsRegistered
  BY DEF SvcInv
<1>. QED
  BY <1>1, SvcInvariance, PTL

\* seed keeps the caller's version of the recipe: it saves only where there is
\* no file, in spite of failing reads and damaged files.
THEOREM SeedNeverOverwritesEver == SvcSpec => SeedNeverOverwrites
<1>. DEFINE Creates == pc[Main] = "rename" /\ final' # final => final[SeedFile] = Absent
<1>1. SvcInv => Creates
  <2>. SUFFICES ASSUME SvcInv, pc[Main] = "rename" PROVE final[SeedFile] = Absent
    OBVIOUS
  <2>1. op[Main].type = "save" /\ res[Main] = None
    BY WhoCalls DEF SvcInv, IndInv, OpInv, SavePcs, AnswerInv
  <2>2. phase = "seedSave"
    BY <2>1, SeedCalls DEF SvcInv, MainInv
  <2>. QED
    BY <2>1, <2>2, Answers DEF SvcInv, SeedInv
<1>2. SvcSpec => [][Creates]_allvars
  BY <1>1, SvcInvariance, PTL DEF SvcSpec
<1>. QED
  BY <1>2 DEF SeedNeverOverwrites

-----------------------------------------------------------------------------
(* The rejection rules. *)

\* No curve is computed for an omega that is not a positive number, or for a
\* record that Validate refuses.
LEMMA CurveRules ==
  ASSUME NEW r, NEW b, r.omega \in {"nonpositive", "nan", "inf"} \/ b \in InvalidBodies
  PROVE  ServeCurve(r, b).code = 400
BY DEF ServeCurve, Reply

\* A request that breaks a rule is refused before the store is called, or is
\* a curve request that calls it to get the record of the motion.
LEMMA RuleBreakers ==
  ASSUME NEW r \in Requests, BreaksRule(r), ~LeavesOutDwells(r)
  PROVE  \/ RefusedEarly(r)
         \/ /\ r.route = "curve"
            /\ \/ ~UsesStore(r) /\ ServeCurve(r, r.body).code = 400
               \/ /\ UsesStore(r) /\ StoreCall(r).type = "get"
                  /\ \A b : ServeCurve(r, b).code = 400
<1>1. CASE r.route = "put" /\ r.body \in InvalidBodies
  BY <1>1 DEF RefusedEarly, Validate
<1>2. CASE r.route = "curve" /\ r.name = EmptyName /\ HasBody(r) /\ r.body \in InvalidBodies
  BY <1>2, CurveRules DEF UsesStore
<1>3. CASE r.route = "curve" /\ r.omega \in {"nonpositive", "nan", "inf"}
  BY <1>3, CurveRules DEF UsesStore, StoreCall
<1>4. CASE MissingParameters(r)
  <2>1. CASE r.kind = "recipe"
    BY <1>4, <2>1 DEF MissingParameters, RefusedEarly
  <2>2. CASE r.body \in InvalidBodies
    BY <1>4, <2>2, CurveRules DEF MissingParameters, UsesStore
  <2>3. r.kind \in Kinds
    BY <1>4, RequestsAssumption DEF AllRequests, MissingParameters
  <2>. QED
    BY <1>4, <2>1, <2>2, <2>3 DEF LeavesOutDwells, Kinds
<1>. QED
  BY <1>1, <1>2, <1>3, <1>4 DEF BreaksRule

\* What the handlers answer to such a request, from the store or without it.
LEMMA RuleReplies ==
  ASSUME NEW r \in Requests, BreaksRule(r), ~LeavesOutDwells(r)
  PROVE  /\ RefusedEarly(r) \/ ~UsesStore(r) => DirectReply(r).code = 400
         /\ \A a : ~RefusedEarly(r) /\ UsesStore(r) /\ a # Ok /\ a.tag # "listed"
                    => StoreReply(r, a).code \in {400, 404}
<1>1. \A code : Reply(code).code = code
  BY DEF Reply
<1>2. RefusedEarly(r) \/ ~UsesStore(r) => DirectReply(r).code = 400
  BY <1>1, RuleBreakers DEF DirectReply
<1>3. ASSUME NEW a, ~RefusedEarly(r), UsesStore(r), a # Ok, a.tag # "listed"
      PROVE  StoreReply(r, a).code \in {400, 404}
  BY <1>1, <1>3, RuleBreakers DEF StoreReply
<1>. QED
  BY <1>2, <1>3

\* Every step of the process keeps to the rules.
LEMMA NextRulesEnforced ==
  ASSUME SvcInv, RulesEnforced, [SvcNext]_allvars
  PROVE  RulesEnforced'
<1>a. SvcTypeOK /\ NoRequest.route = "none" /\ NoReply.code = 0
  BY DEF SvcInv, NoRequest, NoReply
<1>1. CASE UNCHANGED <<stage, req, reply>>
  BY <1>1 DEF RulesEnforced
<1>2. CASE \E D : Exit(D)
  BY <1>2 DEF Exit, RulesEnforced
<1>3. ASSUME NEW h \in Handlers,
             \/ \E r \in Requests : Accept(h, r)
             \/ Decode(h) \/ DecodeFails(h) \/ Handle(h) \/ Replied(h)
      PROVE  RulesEnforced'
  <2>1. \A g \in Handlers : g # h => /\ stage'[g] = stage[g] /\ req'[g] = req[g]
                                     /\ reply'[g] = reply[g]
    BY <1>3, <1>a DEF SvcTypeOK, Accept, Decode, DecodeFails, Handle, CallStore, AnswerFromStore,
      AnswerDirectly, Replied, Advance, Answer, svars
  <2>. SUFFICES ASSUME stage'[h] = "reply", BreaksRule(req'[h]), ~LeavesOutDwells(req'[h])
                PROVE  reply'[h].code \notin {200, 201}
    BY <2>1 DEF RulesEnforced
  <2>2. CASE (\E r \in Requests : Accept(h, r)) \/ Decode(h) \/ CallStore(h) \/ Replied(h)
    BY <1>a, <2>2 DEF SvcTypeOK, RulesEnforced, Accept, Decode, CallStore, Replied, Advance, svars
  <2>3. CASE DecodeFails(h) \/ AnswerFromStore(h) \/ AnswerDirectly(h)
    <3>1. req' = req
      BY <2>3 DEF DecodeFails, AnswerFromStore, AnswerDirectly, Answer
    <3>2. req[h] \in Requests
      BY <1>a, <3>1 DEF SvcTypeOK, BreaksRule, MissingParameters
    <3>3. CASE DecodeFails(h)
      <4>1. reply'[h] = Reply(400)
        BY <3>3, <1>a DEF DecodeFails, Answer, SvcTypeOK
      <4>. QED
        BY <4>1, ReplyTypes
    <3>4. CASE AnswerDirectly(h)
      <4>1. reply'[h] = DirectReply(req[h]) /\ (RefusedEarly(req[h]) \/ ~UsesStore(req[h]))
        BY <3>4, <1>a DEF AnswerDirectly, Answer, SvcTypeOK
      <4>. QED
        BY <3>1, <3>2, <4>1, RuleReplies
    <3>5. CASE AnswerFromStore(h)
      <4>1. reply'[h] = StoreReply(req[h], res[h]) /\ pc[h] = "done"
        BY <3>5, <1>a DEF AnswerFromStore, Answer, Return, Goto, SvcTypeOK
      <4>2. ~RefusedEarly(req[h]) /\ UsesStore(req[h]) /\ op[h] = StoreCall(req[h])
        BY <4>1 DEF SvcInv, CallInv
      <4>3. op[h].type = "get"
        BY <3>1, <3>2, <4>2, RuleBreakers
      <4>4. res[h] # Ok /\ res[h].tag # "listed"
        BY <4>3, WhoCalls DEF SvcInv, AnswerInv
      <4>. QED
        BY <3>1, <3>2, <4>1, <4>2, <4>4, RuleReplies
    <3>. QED
      BY <2>3, <3>3, <3>4, <3>5
  <2>. QED
    BY <1>3, <2>2, <2>3 DEF Handle
<1>. QED
  BY <1>1, <1>2, <1>3 DEF SvcNext, Start, SeedStep, SeedKept, SeedMissing, SeedSaves, SeedSaved,
    SeedFails, Listens, ListenFails, Signal, DrainDone, DrainTimeout, Kill, Enter, StoreStep,
    svars, allvars

\* No request that breaks one of the README's four rejection rules, missing
\* parameters included, is answered with a success, whichever way it takes its
\* numbers and whatever the store holds or answers, but a cycle posted without
\* its dwells.
THEOREM RulesEnforcedEver == SvcSpec => []RulesEnforced
<1>1. SvcInit => RulesEnforced
  BY DEF SvcInit, RulesEnforced
<1>2. SvcInv /\ RulesEnforced /\ [SvcNext]_allvars => RulesEnforced'
  BY NextRulesEnforced
<1>. QED
  BY <1>1, <1>2, SvcInvariance, PTL DEF SvcSpec

-----------------------------------------------------------------------------
(* The store inside the process. *)

\* The store inside the process is still the atomic registry: nothing that
\* main or a handler does around its calls breaks their atomicity.
THEOREM SvcRefinement == SvcSpec => ImplementsRegistry
<1>1. SvcInit => R!Init
  BY InitRefines DEF SvcInit
<1>2. SvcInv /\ [SvcNext]_allvars => [R!Next]_(R!vars)
  BY StepIsStoreStep, NextRefines DEF SvcInv
<1>3. SvcSpec => R!Init /\ [][R!Next]_(R!vars)
  BY <1>1, <1>2, SvcInvariance, PTL DEF SvcSpec
<1>. QED
  BY <1>3 DEF ImplementsRegistry, R!Spec
=============================================================================
