------------------------------ MODULE MCService ------------------------------
(***************************************************************************)
(* Instances of Service for TLC. The sets of requests are chosen for the   *)
(* question each run asks; the calls are those the requests and seed make. *)
(***************************************************************************)
EXTENDS Service, TLC

CONSTANTS h1, h2, main, seed, n1, blank, empty, b1, b2, bad

MCHandlers == {h1, h2}
OneHandler == {h1}
MCCallers == Handlers \cup {main}
MCNames == {seed, n1, blank, empty}
MCBlankNames == {blank, empty}
MCIllegalNames == {blank, empty}
MCBodies == {b1, b2, bad}
MCInvalidBodies == {bad}
MCCalls ==
  {SeedGet, SeedSave} \cup {StoreCall(r) : r \in {q \in Requests : UsesStore(q)}}

Put(k, n, b) == [route |-> "put", kind |-> k, name |-> n, body |-> b, json |-> TRUE]
Get(k, n) == [route |-> "get", kind |-> k, name |-> n]
List(k) == [route |-> "list", kind |-> k]

\* The clients overwrite the seed recipe and create a record.
SeedRequests == {Put("recipe", seed, b2), Put("cycle", n1, b1)}

\* Every route, every class of every parameter.
CurveGets ==
  [route : {"curve"}, method : {"GET"}, kind : Kinds, name : {seed, n1, blank, empty},
   omega : Omegas, points : PointCounts]
CurvePosts ==
  {r \in [route : {"curve"}, method : {"POST"}, kind : Kinds, name : {seed, empty},
          own : {"none", "part", "all"}, body : {b1, bad}, json : BOOLEAN,
          omega : {"nonpositive", "positive", "huge"}, points : {"absent", "zero", "few", "many"}] :
     r.own = "none" => r.body = bad}
EveryRequest ==
  {Put("recipe", seed, b2), Put("cycle", n1, b1), Put("recipe", n1, bad), Put("cycle", blank, b1),
   [Put("recipe", n1, b1) EXCEPT !.json = FALSE],
   Get("recipe", n1), Get("cycle", n1), Get("recipe", blank),
   List("recipe"), List("cycle"), [route |-> "health"]}
    \cup CurveGets \cup CurvePosts

\* A cycle posted with and without its dwells.
AdHocRequests ==
  {[route |-> "curve", method |-> "POST", kind |-> k, name |-> empty, own |-> w, body |-> b1,
    json |-> TRUE, omega |-> o, points |-> "absent"] :
     k \in Kinds, w \in {"part", "all"}, o \in {"positive", "huge"}}
=============================================================================
