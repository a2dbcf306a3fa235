------------------------------- MODULE Service -------------------------------
(***************************************************************************)
(* The process around the store: main.go (start, seed, listen, signal,     *)
(* shutdown) and handlers.go (one goroutine per request), composed with    *)
(* Store, whose callers are the handlers and main.                         *)
(*                                                                         *)
(*   down -> seedGet -> [seedSave ->] listen -> serving -> draining -> down *)
(*                                                                         *)
(* A request is abstracted to what handlers.go tells apart: the route, the *)
(* name and the record it carries, and the classes of its numbers that the *)
(* checks separate. The curve computations behind a 200 are in Cycle; here *)
(* only their failure to encode matters.                                   *)
(***************************************************************************)
EXTENDS Store, Naturals

CONSTANTS
  Handlers,   \* connections that a handler can serve
  Main,       \* the main goroutine
  SeedName,   \* "cycloid-lift"
  SeedBody,   \* type=cycloid, h=10, beta=60
  EmptyName,  \* the empty string, which a missing parameter decodes to
  Requests,   \* the requests clients send
  MaxStops    \* bound: how often the process is signalled or killed

VARIABLES
  phase,  \* where main is
  stage,  \* stage[h]: "none", "body" (reading it), "work" or "reply" (writing it)
  req,    \* req[h]: the request h serves
  reply,  \* reply[h]: the status code and whether the JSON body encodes
  stops   \* how often the process was signalled or killed

svars   == <<phase, stage, req, reply, stops>>
allvars == <<vars, svars>>

ASSUME ProcessAssumption ==
  /\ Callers = Handlers \cup {Main}
  /\ Main \notin Handlers
  /\ MaxStops \in Nat

ASSUME SeedAssumption ==
  /\ SeedName \in Names \ (BlankNames \cup IllegalNames)
  /\ SeedBody \in Bodies \ InvalidBodies
  /\ EmptyName \in BlankNames

SeedGet  == [type |-> "get", kind |-> "recipe", name |-> SeedName]
SeedSave == [type |-> "save", kind |-> "recipe", name |-> SeedName, body |-> SeedBody]
SeedFile == <<"recipe", SeedName>>

ASSUME SeedCallsAssumption == {SeedGet, SeedSave} \subseteq Calls

-----------------------------------------------------------------------------
(* Requests. *)

Omegas      == {"junk", "nonpositive", "nan", "inf", "positive", "huge"}
PointCounts == {"absent", "junk", "zero", "few", "enough", "many"}

\* json: the body is the JSON the route expects. own: how many of the motion
\* parameters the body gives; those it leaves out decode to zero, and body is
\* the record that results.
AllRequests ==
  [route : {"health"}]
    \cup [route : {"list"}, kind : Kinds]
    \cup [route : {"get"}, kind : Kinds, name : Names]
    \cup [route : {"put"}, kind : Kinds, name : Names, body : Bodies, json : BOOLEAN]
    \cup [route : {"curve"}, method : {"GET"}, kind : Kinds, name : Names,
          omega : Omegas, points : PointCounts]
    \cup [route : {"curve"}, method : {"POST"}, kind : Kinds, name : Names,
          own : {"none", "part", "all"}, body : Bodies, json : BOOLEAN,
          omega : {"nonpositive", "positive", "huge"},
          points : PointCounts \ {"junk"}]

ASSUME RequestsAssumption ==
  /\ Requests \subseteq AllRequests
  /\ \A r \in Requests : "own" \in DOMAIN r /\ r.own = "none" => r.body \in InvalidBodies

NoRequest == [route |-> "none"]

HasBody(r) == r.route = "put" \/ (r.route = "curve" /\ r.method = "POST")

\* What a handler refuses after decoding and before it calls the store.
RefusedEarly(r) ==
  \/ r.route = "put" /\ ~Validate(r.name, r.body)
  \/ /\ r.route = "curve" /\ r.method = "GET"
     /\ r.name = EmptyName \/ r.omega \in {"junk", "nonpositive"} \/ r.points = "junk"
  \/ /\ r.route = "curve" /\ r.method = "POST" /\ r.kind = "recipe"
     /\ IF r.name = EmptyName THEN r.own # "all" ELSE r.own # "none"

UsesStore(r) ==
  \/ r.route \in {"list", "get", "put"}
  \/ r.route = "curve" /\ r.name # EmptyName

StoreCall(r) ==
  IF r.route = "put"
  THEN [type |-> "save", kind |-> r.kind, name |-> r.name, body |-> r.body]
  ELSE IF r.route = "list" THEN [type |-> "list", kind |-> r.kind]
  ELSE [type |-> "get", kind |-> r.kind, name |-> r.name]

ASSUME CallsCoverRequests ==
  \A r \in Requests : UsesStore(r) => StoreCall(r) \in Calls

-----------------------------------------------------------------------------
(* Replies. *)

Reply(code) == [code |-> code, encodes |-> TRUE]
NoReply     == [code |-> 0, encodes |-> FALSE]

\* Mutant: omega is only checked on entry, where a NaN passes.
ServeCurveUnvalidated(r, b) ==
  IF r.points \in {"few", "many"} \/ (r.method = "GET" /\ r.points = "zero")
  THEN Reply(400)
  ELSE [code |-> 200, encodes |-> r.omega # "huge"]

\* serveLift and serveCycle on the record b: Validate, the grid limits, and
\* then the curve. The numbers of a huge omega overflow, and the encoder
\* refuses them after the status line is out.
ServeCurve(r, b) ==
  IF \/ b \in InvalidBodies \/ r.omega \notin {"positive", "huge"}
     \/ r.points \in {"few", "many"}
     \/ r.method = "GET" /\ r.points = "zero"
  THEN Reply(400)
  ELSE [code |-> 200, encodes |-> r.omega # "huge"]

\* Mutant: putRecipe does not look at the error of SaveRecipe.
StoreReplyCareless(r, a) ==
  IF r.route = "put" THEN Reply(201)
  ELSE IF a = NotFound THEN Reply(404)
  ELSE IF a.tag = "found" /\ r.route = "curve" THEN ServeCurve(r, a.body)
  ELSE Reply(IF a.tag \in {"found", "listed"} THEN 200 ELSE 400)

\* Mutant: an error the handler does not know is not answered.
StoreReplySilent(r, a) ==
  IF a = Ok THEN Reply(201)
  ELSE IF a = NotFound THEN Reply(404)
  ELSE IF a.tag = "found" /\ r.route = "curve" THEN ServeCurve(r, a.body)
  ELSE IF a.tag \in {"found", "listed"} THEN Reply(200) ELSE NoReply

\* The reply to r once the store has answered a.
StoreReply(r, a) ==
  IF a = Ok THEN Reply(201)
  ELSE IF a = NotFound THEN Reply(404)
  ELSE IF a.tag = "found" /\ r.route = "curve" THEN ServeCurve(r, a.body)
  ELSE Reply(IF a.tag \in {"found", "listed"} THEN 200 ELSE IF r.route = "list" THEN 500 ELSE 400)

\* The reply to a request that does not reach the store.
DirectReply(r) ==
  IF RefusedEarly(r) THEN Reply(400)
  ELSE IF r.route = "health" THEN Reply(200)
  ELSE ServeCurve(r, r.body)

-----------------------------------------------------------------------------
SvcInit ==
  /\ Init
  /\ phase = "down"
  /\ stage = [h \in Handlers |-> "none"]
  /\ req = [h \in Handlers |-> NoRequest]
  /\ reply = [h \in Handlers |-> NoReply]
  /\ stops = 0

\* The process ends, by itself or not, with every goroutine it runs; D are
\* the files a loss of power damages.
Exit(D) ==
  /\ Crash(D)
  /\ phase' = "down"
  /\ stage' = [h \in Handlers |-> "none"]
  /\ req' = [h \in Handlers |-> NoRequest]
  /\ reply' = [h \in Handlers |-> NoReply]

-----------------------------------------------------------------------------
(* main and seed. *)

Enter(from, to) ==
  /\ phase = from
  /\ phase' = to
  /\ UNCHANGED <<stage, req, reply, stops>>

\* store.Open has the directory ready; seed begins with GetRecipe.
Start == Enter("down", "seedGet") /\ Invoke(Main, SeedGet)

\* The seed recipe is there: it is kept as it is.
SeedKept ==
  /\ res[Main].tag = "found"
  /\ Enter("seedGet", "listen") /\ Return(Main)

\* Mutant: every error of GetRecipe is taken for a missing recipe.
SeedMissingOrUnread ==
  /\ pc[Main] = "done" /\ res[Main].tag # "found"
  /\ Enter("seedGet", "seedSave") /\ Return(Main)

\* Mutant: a missing recipe is an error like any other.
SeedMissingFatal ==
  /\ phase = "seedGet" /\ pc[Main] = "done" /\ res[Main] = NotFound
  /\ Exit({}) /\ UNCHANGED stops

\* GetRecipe said ErrNotFound: the seed recipe is saved.
SeedMissing ==
  /\ res[Main] = NotFound
  /\ Enter("seedGet", "seedSave") /\ Return(Main)

SeedSaves ==
  /\ phase = "seedSave" /\ Invoke(Main, SeedSave)
  /\ UNCHANGED svars

\* Mutant: the error of saving the seed is ignored.
SeedSavedOrNot ==
  /\ pc[Main] = "done"
  /\ Enter("seedSave", "listen") /\ Return(Main)

SeedSaved ==
  /\ res[Main] = Ok
  /\ Enter("seedSave", "listen") /\ Return(Main)

\* Any other answer of the store ends the process: log.Fatalf.
SeedFails ==
  /\ phase \in {"seedGet", "seedSave"} /\ pc[Main] = "done"
  /\ res[Main] # Ok /\ res[Main] # NotFound /\ res[Main].tag # "found"
  /\ Exit({}) /\ UNCHANGED stops

Listens == Enter("listen", "serving") /\ UNCHANGED vars

\* ListenAndServe returns an error: log.Fatalf in its goroutine.
ListenFails ==
  /\ "bind" \in Faults /\ phase = "listen"
  /\ Exit({}) /\ UNCHANGED stops

\* SIGINT or SIGTERM reaches <-stop; Shutdown closes the listener. A second
\* signal stays in the channel.
Signal ==
  /\ phase \in {"listen", "serving"} /\ stops < MaxStops
  /\ phase' = "draining"
  /\ stops' = stops + 1
  /\ UNCHANGED <<stage, req, reply, vars>>

\* Shutdown returns when no handler is left, main returns ...
DrainDone ==
  /\ phase = "draining" /\ \A h \in Handlers : stage[h] = "none"
  /\ Exit({}) /\ UNCHANGED stops

\* Mutant: Shutdown without a deadline.
DrainForever ==
  /\ phase = "draining" /\ \A h \in Handlers : stage[h] = "none"
  /\ Exit({}) /\ UNCHANGED stops

\* ... or when the 5 seconds are over, and the handlers that are left end with
\* main.
DrainTimeout ==
  /\ phase = "draining"
  /\ Exit({}) /\ UNCHANGED stops

\* SIGKILL, a signal before signal.Notify, or a loss of power.
Kill(D) ==
  /\ phase # "down" /\ stops < MaxStops
  /\ stops' = stops + 1
  /\ Exit(D)

-----------------------------------------------------------------------------
(* The handlers. *)

Advance(h, from, to) ==
  /\ stage[h] = from
  /\ stage' = [stage EXCEPT ![h] = to]

Answer(h, from, a) ==
  /\ Advance(h, from, "reply")
  /\ reply' = [reply EXCEPT ![h] = a]
  /\ UNCHANGED <<phase, req, stops>>

\* A request arrives. A connection accepted before Shutdown may still send
\* one while the server drains.
Accept(h, r) ==
  /\ phase \in {"serving", "draining"}
  /\ Advance(h, "none", IF HasBody(r) THEN "body" ELSE "work")
  /\ req' = [req EXCEPT ![h] = r]
  /\ UNCHANGED <<phase, reply, stops, vars>>

\* decode reads the body for as long as the client takes: there is no
\* ReadTimeout.
Decode(h) ==
  /\ Advance(h, "body", "work")
  /\ req[h].json
  /\ UNCHANGED <<phase, req, reply, stops, vars>>

\* The body is not the JSON expected, or the client breaks off.
DecodeFails(h) == Answer(h, "body", Reply(400)) /\ UNCHANGED vars

CallStore(h) ==
  /\ stage[h] = "work" /\ ~RefusedEarly(req[h]) /\ UsesStore(req[h])
  /\ Invoke(h, StoreCall(req[h])) \/ Refuse(h, StoreCall(req[h]))
  /\ UNCHANGED svars

AnswerFromStore(h) ==
  /\ Answer(h, "work", StoreReply(req[h], res[h]))
  /\ Return(h)

AnswerDirectly(h) ==
  /\ RefusedEarly(req[h]) \/ ~UsesStore(req[h])
  /\ Answer(h, "work", DirectReply(req[h]))
  /\ UNCHANGED vars

\* The client has taken the reply, or is gone: there is no WriteTimeout.
Replied(h) ==
  /\ Advance(h, "reply", "none")
  /\ req' = [req EXCEPT ![h] = NoRequest]
  /\ reply' = [reply EXCEPT ![h] = NoReply]
  /\ UNCHANGED <<phase, stops, vars>>

-----------------------------------------------------------------------------
SeedStep   == SeedKept \/ SeedMissing \/ SeedSaves \/ SeedSaved \/ SeedFails
Handle(h)  == CallStore(h) \/ AnswerFromStore(h) \/ AnswerDirectly(h)
StoreStep  == \E c \in Callers : Lock(c) \/ Work(c)

SvcNext ==
  \/ Start \/ SeedStep
  \/ Listens \/ ListenFails
  \/ Signal \/ DrainDone \/ DrainTimeout
  \/ \E D \in SUBSET Exists : Kill(D)
  \/ \E h \in Handlers :
       \/ \E r \in Requests : Accept(h, r)
       \/ Decode(h) \/ DecodeFails(h)
       \/ Handle(h)
       \/ Replied(h)
  \/ StoreStep /\ UNCHANGED svars

\* The scheduler runs main and the handlers, and the timer of Shutdown goes
\* off. Nothing makes a client send its body or take its reply, and nothing
\* in the repository restarts the process.
SvcFairness ==
  /\ Fairness
  /\ WF_allvars(SeedStep)
  /\ WF_allvars(Listens)
  /\ WF_allvars(DrainDone \/ DrainTimeout)
  /\ \A h \in Handlers : WF_allvars(Handle(h))

SvcSpec == SvcInit /\ [][SvcNext]_allvars /\ SvcFairness

-----------------------------------------------------------------------------
(* Invariants. *)

\* Every variable of the process has its type, and a handler that ends has
\* written a status.
SvcTypeOK ==
  /\ phase \in {"down", "seedGet", "seedSave", "listen", "serving", "draining"}
  /\ stage \in [Handlers -> {"none", "body", "work", "reply"}]
  /\ req \in [Handlers -> Requests \cup {NoRequest}]
  /\ reply \in [Handlers -> [code : {0, 200, 201, 400, 404, 500}, encodes : BOOLEAN]]
  /\ stops \in 0 .. MaxStops
  /\ \A h \in Handlers : stage[h] = "reply" <=> reply[h].code # 0

\* Whenever clients can reach the service the recipe cycloid-lift is
\* registered and readable: seed ran to its end, whatever crashed or was
\* damaged before.
SeededWhileServing ==
  phase \in {"listen", "serving", "draining"} => final[SeedFile] \in Bodies

\* A put that was answered 201 is in the archive when the answer is sent, its
\* own record or that of a later save.
AckedIsRegistered ==
  \A h \in Handlers :
    stage[h] = "reply" /\ reply[h].code = 201
      => req[h].route = "put" /\ final[<<req[h].kind, req[h].name>>] \in Bodies

\* The strengthening that makes the invariants above inductive. A handler is
\* in the store only while it works, with the call its request makes.
CallInv ==
  \A h \in Handlers :
    pc[h] # "idle" =>
      /\ stage[h] = "work" /\ UsesStore(req[h]) /\ ~RefusedEarly(req[h])
      /\ op[h] = StoreCall(req[h])

\* No request is served before the listener is up, and main calls the store
\* only from seed.
MainInv ==
  /\ phase \in {"down", "seedGet", "seedSave", "listen"} => \A h \in Handlers : stage[h] = "none"
  /\ phase \notin {"seedGet", "seedSave"} => pc[Main] = "idle"
  /\ phase = "seedGet" => op[Main] = SeedGet
  /\ phase = "seedSave" /\ pc[Main] # "idle" => op[Main] = SeedSave

\* Ok is only the answer of a save, and its record stays registered; a list of
\* records is only the answer of a list.
AnswerInv ==
  \A c \in Callers :
    /\ pc[c] \notin {"unlock", "done"} => res[c] = None
    /\ res[c] = Ok => op[c].type = "save" /\ final[FileOf(op[c])] \in Bodies
    /\ res[c].tag = "listed" => op[c].type = "list"

\* What seed has been told still holds when it acts on it.
SeedInv ==
  /\ phase = "seedGet" /\ res[Main].tag = "found" => final[SeedFile] \in Bodies
  /\ phase = "seedGet" /\ res[Main] = NotFound => final[SeedFile] = Absent
  /\ phase = "seedSave" /\ res[Main] # Ok => final[SeedFile] = Absent

\* The inductive invariant of the process.
SvcInv ==
  /\ IndInv
  /\ SvcTypeOK
  /\ CallInv
  /\ MainInv
  /\ AnswerInv
  /\ SeedInv
  /\ SeededWhileServing
  /\ AckedIsRegistered

\* Rule 4 of the README's rejection rules: a POST for a curve names no record
\* and does not give all the parameters itself.
MissingParameters(r) ==
  r.route = "curve" /\ r.method = "POST" /\ r.name = EmptyName /\ r.own # "all"

\* What is let through all the same. What a cycle's body leaves out decodes to
\* 0, and a record that is valid then has left out dwells alone.
LeavesOutDwells(r) ==
  MissingParameters(r) /\ r.kind = "cycle" /\ r.body \notin InvalidBodies

\* The README's rejection rules: an unknown law, h or beta out of range, angles
\* that do not make a turn (an invalid body); omega out of range; parameters
\* missing.
BreaksRule(r) ==
  \/ r.route = "put" /\ r.body \in InvalidBodies
  \/ r.route = "curve" /\ r.name = EmptyName /\ HasBody(r) /\ r.body \in InvalidBodies
  \/ r.route = "curve" /\ r.omega \in {"nonpositive", "nan", "inf"}
  \/ MissingParameters(r)

\* No request that breaks one of the four rules, whichever way it takes its
\* numbers, is answered with a success, but for one kind: a cycle posted
\* without its dwells has a curve, although the README and the comment on
\* cycleCurveRequest say that it must give all four angles.
RulesEnforced ==
  \A h \in Handlers :
    stage[h] = "reply" /\ BreaksRule(req[h]) /\ ~LeavesOutDwells(req[h])
      => reply[h].code \notin {200, 201}

\* A curve answered 200 carries its points.
OkCarriesPoints ==
  \A h \in Handlers :
    stage[h] = "reply" /\ req[h].route = "curve" /\ reply[h].code = 200
      => reply[h].encodes

-----------------------------------------------------------------------------
(* Properties of steps and of behaviours. *)

\* seed never replaces a recipe, be it the caller's version or a damaged one:
\* main only renames onto a file that does not exist.
SeedNeverOverwrites ==
  [][pc[Main] = "rename" /\ final' # final => final[SeedFile] = Absent]_allvars

\* The 5 seconds of Shutdown: a signalled process ends, whatever its clients
\* do or leave undone.
StopsAfterSignal == phase = "draining" ~> phase = "down"

\* A handler that has its request answers it, or the process ends: no other
\* client, stalled in its upload or its download, can hold it up.
HandlersAnswer == \A h \in Handlers : stage[h] = "work" ~> stage[h] # "work"

\* A process that is started again and again comes to serve again and again,
\* with the seed recipe registered, as the README says of a start.
StartsServe == []<>(phase # "down") => []<>(phase = "serving")

\* It does, unless a loss of power has damaged the file of the seed recipe:
\* signals, kills in the middle of a seed, temporary files left behind and
\* damage to any other record do not keep it from starting.
StartsUnlessDamaged == [](final[SeedFile] # Garbage) => StartsServe
=============================================================================
