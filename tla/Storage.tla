------------------------------- MODULE Storage -------------------------------
(***************************************************************************)
(* What the trait Storage (ussl-storage/src/lib.rs) promises its callers,  *)
(* whichever backend is behind it: a call takes effect at one moment       *)
(* between its beginning and its return; list and stats may look at        *)
(* different documents at different moments, but at each document once; an *)
(* error does not tell whether the call took effect; rows survive the      *)
(* process unless the storage is volatile.  A storage that is silent may   *)
(* answer a listing without the rows it could not read.                    *)
(*                                                                         *)
(* Module Backends has the three implementations.  The size in the answer  *)
(* of stats is left open here.                                             *)
(***************************************************************************)
CONSTANTS
    Callers,      \* the tasks that call the storage
    Ids,          \* the document ids
    Rows,         \* what is stored of a document: meta and data
    NoRow,        \* no document, none of Rows
    Patterns,     \* the patterns list() is called with
    Must,         \* pattern -> the ids a listing with it may not leave out
    May           \* pattern -> the ids a listing with it may contain

VARIABLES
    rows,         \* id -> the row stored under it
    call,         \* what each caller is waiting for
    volatile,     \* the rows are in memory only
    silent        \* a listing does not tell of rows it could not read

vars == <<rows, call, volatile, silent>>
-----------------------------------------------------------------------------
Operations ==
    [do : {"store"}, id : Ids, row : Rows]
    \cup [do : {"load", "delete", "exists"}, id : Ids]
    \cup [do : {"list"}, pattern : Patterns]
    \cup [do : {"stats"}]

Scans(op) == op.do \in {"list", "stats"}

\* An answer: a row or NoRow to load, and the names of the others' results.
Pending == "pending"

\* todo and found: the ids a scan is still to look at, and those it found.
Call(op) == [op |-> op, todo |-> IF Scans(op) THEN Ids ELSE {}, found |-> {},
             answer |-> Pending]
NoCall == [op |-> [do |-> "none"], todo |-> {}, found |-> {}, answer |-> Pending]

Present == {k \in Ids : rows[k] # NoRow}

Running(c, ops) == call[c].op.do \in ops /\ call[c].answer = Pending

Answer(c, a) == call' = [call EXCEPT ![c].answer = a]

Init ==
    /\ rows = [k \in Ids |-> NoRow]
    /\ call = [c \in Callers |-> NoCall]
    /\ {volatile, silent} \subseteq BOOLEAN

Begin(c, op) ==
    /\ call[c] = NoCall
    /\ call' = [call EXCEPT ![c] = Call(op)]
    /\ UNCHANGED rows

Put(c) ==
    /\ Running(c, {"store"})
    /\ rows' = [rows EXCEPT ![call[c].op.id] = call[c].op.row]
    /\ Answer(c, "ok")

Remove(c) ==
    /\ Running(c, {"delete"})
    /\ rows' = [rows EXCEPT ![call[c].op.id] = NoRow]
    /\ Answer(c, IF call[c].op.id \in Present THEN "found" ELSE "missing")

Look(c) ==
    /\ Running(c, {"load", "exists"})
    /\ Answer(c, IF call[c].op.do = "load" THEN rows[call[c].op.id]
                 ELSE IF call[c].op.id \in Present THEN "found" ELSE "missing")
    /\ UNCHANGED rows

\* A scan looks at the documents `seen`, and takes those of them it must and
\* none it may not.  It has its answer when it has looked at all, or later.
Matching(op, set) == IF op.do = "list" THEN set[op.pattern] ELSE Ids

Scan(c, seen) ==
    LET op == call[c].op
    IN  /\ Running(c, {"list", "stats"})
        /\ seen \subseteq call[c].todo
        /\ \E taken \in SUBSET (seen \cap Present), answer \in {"ok", Pending} :
              /\ answer = "ok" => call[c].todo \subseteq seen
              /\ \/ op.do = "list" /\ silent
                 \/ seen \cap Present \cap Matching(op, Must) \subseteq taken
              /\ taken \subseteq Matching(op, May)
              /\ call' = [call EXCEPT
                   ![c].todo = @ \ seen,
                   ![c].found = @ \cup taken,
                   ![c].answer = answer]
        /\ UNCHANGED rows

\* The caller is told of an error, the call took effect or not.
Fail(c) ==
    /\ call[c] # NoCall /\ call[c].answer = Pending
    /\ Answer(c, "failed")
    /\ \/ UNCHANGED rows
       \/ /\ Running(c, {"store"})
          /\ rows' = [rows EXCEPT ![call[c].op.id] = call[c].op.row]
       \/ /\ Running(c, {"delete"})
          /\ rows' = [rows EXCEPT ![call[c].op.id] = NoRow]

Return(c) ==
    /\ call[c].answer # Pending
    /\ call' = [call EXCEPT ![c] = NoCall]
    /\ UNCHANGED rows

\* The process ends and starts again: all rows are there, or none.
Restart ==
    /\ rows' = IF volatile THEN [k \in Ids |-> NoRow] ELSE rows
    /\ call' = [c \in Callers |-> NoCall]

Step ==
    \/ \E c \in Callers :
          \/ \E op \in Operations : Begin(c, op)
          \/ Put(c) \/ Remove(c) \/ Look(c) \/ Fail(c) \/ Return(c)
          \/ \E seen \in SUBSET Ids : Scan(c, seen)
    \/ Restart

\* What kind of storage it is does not change.
Next == Step /\ UNCHANGED <<volatile, silent>>

Spec == Init /\ [][Next]_vars
=============================================================================
