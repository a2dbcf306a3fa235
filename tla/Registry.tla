------------------------------- MODULE Registry -------------------------------
(***************************************************************************)
(* What internal/store promises its callers: a registry of records in      *)
(* which every call takes effect at one instant between its invocation     *)
(* and its return, a refused or failed call has no effect, a list is the   *)
(* content of the registry at one instant, and a crash loses the calls in  *)
(* flight but no record.                                                   *)
(***************************************************************************)
EXTENDS StoreTypes

VARIABLES
  reg,  \* reg[f]: the record registered under f, Absent or Garbage
  st,   \* st[c]: "idle", "pending" or "done", the progress of c's call
  op,   \* op[c]: the call c is making
  res   \* res[c]: the answer c's call returns

vars == <<reg, st, op, res>>

Init ==
  /\ reg = [f \in Files |-> Absent]
  /\ st = [c \in Callers |-> "idle"]
  /\ op = [c \in Callers |-> NoOp]
  /\ res = [c \in Callers |-> None]

Invoke(c, o) ==
  /\ st[c] = "idle" /\ Acceptable(o)
  /\ st' = [st EXCEPT ![c] = "pending"]
  /\ op' = [op EXCEPT ![c] = o]
  /\ UNCHANGED <<reg, res>>

Refuse(c, o) ==
  /\ st[c] = "idle" /\ ~Acceptable(o)
  /\ st' = [st EXCEPT ![c] = "done"]
  /\ op' = [op EXCEPT ![c] = o]
  /\ res' = [res EXCEPT ![c] = Rejected]
  /\ UNCHANGED reg

\* The instant at which c's call takes effect, with answer a.
Decide(c, type, a) ==
  /\ st[c] = "pending" /\ op[c].type = type
  /\ st' = [st EXCEPT ![c] = "done"]
  /\ res' = [res EXCEPT ![c] = a]
  /\ UNCHANGED op

Save(c) ==
  /\ Decide(c, "save", Ok)
  /\ reg' = [reg EXCEPT ![FileOf(op[c])] = op[c].body]

SaveFails(c) ==
  /\ Faults \cap {"write", "rename"} # {}
  /\ Decide(c, "save", IOError)
  /\ UNCHANGED reg

Get(c) ==
  /\ Decide(c, "get", ReadResult(reg[FileOf(op[c])]))
  /\ UNCHANGED reg

GetFails(c) ==
  /\ "read" \in Faults
  /\ Decide(c, "get", IOError)
  /\ UNCHANGED reg

\* A list drops the records whose file the system would not read.
List(c) ==
  /\ op[c].type = "list"
  /\ \E recs \in SUBSET Readable(reg, op[c].kind) :
       /\ "read" \in Faults \/ recs = Readable(reg, op[c].kind)
       /\ Decide(c, "list", Listed(recs))
  /\ UNCHANGED reg

ListFails(c) ==
  /\ "pattern" \in Faults
  /\ Decide(c, "list", IOError)
  /\ UNCHANGED reg

Return(c) ==
  /\ st[c] = "done"
  /\ st' = [st EXCEPT ![c] = "idle"]
  /\ op' = [op EXCEPT ![c] = NoOp]
  /\ res' = [res EXCEPT ![c] = None]
  /\ UNCHANGED reg

\* The process ends. If the machine lost power too, the files in D are
\* damaged.
Crash(D) ==
  /\ D = {} \/ "power" \in Faults
  /\ reg' = [f \in Files |-> IF f \in D THEN Garbage ELSE reg[f]]
  /\ st' = [c \in Callers |-> "idle"]
  /\ op' = [c \in Callers |-> NoOp]
  /\ res' = [c \in Callers |-> None]

Next ==
  \/ \E c \in Callers :
       \/ \E o \in Calls : Invoke(c, o) \/ Refuse(c, o)
       \/ Save(c) \/ SaveFails(c)
       \/ Get(c) \/ GetFails(c)
       \/ List(c) \/ ListFails(c)
       \/ Return(c)
  \/ \E D \in SUBSET {f \in Files : reg[f] # Absent} : Crash(D)

Spec == Init /\ [][Next]_vars
=============================================================================
