------------------------------ MODULE StoreTypes ------------------------------
(***************************************************************************)
(* The vocabulary of internal/store shared by its abstract specification   *)
(* (Registry) and by the detailed one (Store): the archive files, what     *)
(* they may hold, the calls the store accepts and the answers it gives.    *)
(*                                                                         *)
(* A recipe or a cycle record is abstracted to its name and a body (all    *)
(* the numbers and law names); what Validate says of the numbers is kept   *)
(* as membership of InvalidBodies.                                         *)
(***************************************************************************)
CONSTANTS
  Callers,        \* goroutines that call the store: HTTP handlers and main
  Names,          \* record names a client may send
  BlankNames,     \* the names strings.TrimSpace empties
  IllegalNames,   \* the names outside nameRe, and "." and ".."
  Bodies,         \* contents of a record, the name apart
  InvalidBodies,  \* the contents Validate refuses
  Absent,         \* there is no such file
  Partial,        \* a file opened with O_TRUNC and not completely written
  Garbage,        \* a damaged file: its bytes are not the JSON of a record
  Nobody,         \* the mutex is free
  Faults,         \* what may fail in the environment
  Calls           \* the calls the callers make

ASSUME NamesAssumption == BlankNames \subseteq Names /\ IllegalNames \subseteq Names

ASSUME BodiesAssumption == InvalidBodies \subseteq Bodies

ASSUME ContentAssumption ==
  /\ {Absent, Partial, Garbage} \cap Bodies = {}
  /\ Absent # Partial /\ Absent # Garbage /\ Partial # Garbage

ASSUME CallersAssumption == Nobody \notin Callers

ASSUME FaultsAssumption == Faults \subseteq {"write", "rename", "read", "pattern", "power", "bind"}

-----------------------------------------------------------------------------
Kinds == {"recipe", "cycle"}

\* The archive file of a record is named after its kind and its name, so the
\* two kinds never share a file.
Files == Kinds \X Names

\* What a path of the data directory can hold.
Content == Bodies \cup {Absent, Partial, Garbage}

checkName(n) == n \notin BlankNames /\ n \notin IllegalNames

Validate(n, b) == n \notin BlankNames /\ b \notin InvalidBodies

-----------------------------------------------------------------------------
\* SaveRecipe/SaveCycle, GetRecipe/GetCycle, ListRecipes/ListCycles.
SaveOps == [type : {"save"}, kind : Kinds, name : Names, body : Bodies]
GetOps  == [type : {"get"}, kind : Kinds, name : Names]
ListOps == [type : {"list"}, kind : Kinds]
Ops     == SaveOps \cup GetOps \cup ListOps
NoOp    == [type |-> "none"]

FileOf(o) == <<o.kind, o.name>>

\* Mutant: the name is not checked.
AcceptableUnnamed(o) == o.type = "save" => Validate(o.name, o.body)

\* The checks a call passes before it asks for the mutex.
Acceptable(o) ==
  /\ o.type \in {"save", "get"} => checkName(o.name)
  /\ o.type = "save" => Validate(o.name, o.body)

ASSUME CallsAssumption == Calls \subseteq Ops

\* What a call returns: nil, a record, a list of records, or one of the
\* errors its callers tell apart.
None         == [tag |-> "none"]
Ok           == [tag |-> "ok"]
Rejected     == [tag |-> "rejected"]
NotFound     == [tag |-> "notfound"]
IOError      == [tag |-> "ioerror"]
ParseError   == [tag |-> "parse"]
Found(b)     == [tag |-> "found", body |-> b]
Listed(recs) == [tag |-> "listed", recs |-> recs]

Results ==
  {None, Ok, Rejected, NotFound, IOError, ParseError}
    \cup [tag : {"found"}, body : Bodies]
    \cup [tag : {"listed"}, recs : SUBSET (Names \X Bodies)]

\* Mutant: a missing file reads as an empty record.
ReadResultUnchecked(v) == Found(v)

\* readJSONFile followed by the error handling of GetRecipe and GetCycle.
ReadResult(v) ==
  IF v = Absent THEN NotFound
  ELSE IF v \in Bodies THEN Found(v)
  ELSE ParseError

\* The records of kind k that a directory d would yield, damaged files skipped.
Readable(d, k) == {nb \in Names \X Bodies : d[<<k, nb[1]>>] = nb[2]}
=============================================================================
