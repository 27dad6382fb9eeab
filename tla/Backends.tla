------------------------------- MODULE Backends -------------------------------
(***************************************************************************)
(* The three implementations of the trait Storage: MemoryStorage, whose    *)
(* calls take several accesses to a DashMap and an atomic counter,         *)
(* SqliteStorage, whose calls hold one mutex, and PostgresStorage, whose   *)
(* calls are statements on connections of a pool.  Callers run in          *)
(* parallel, SQL statements fail, and the process is restarted.            *)
(*                                                                         *)
(* In a DashMap scan every id has a shard of its own.                      *)
(***************************************************************************)
EXTENDS Integers, FiniteSets, Globs

CONSTANTS
    Callers,      \* the tasks that call the storage
    Ids,          \* the document ids, sequences of characters
    Rows,         \* what is stored of a document: meta and data
    NoRow,        \* no document
    Patterns,     \* the patterns of list(), sequences of characters
    Lower,        \* character -> the same in lower case
    RowSize,      \* row -> its size in bytes
    WordSize      \* 2^w, w the width of usize

\* A row is no name of a result either.
ASSUME NoRowAssumption == NoRow \notin Rows /\ "pending" \notin Rows \cup {NoRow}
ASSUME CharAssumption ==
    /\ Ids \cup Patterns \subseteq Seq(DOMAIN Lower)
    /\ \A k \in Ids : ~Contains(k, Backslash)
ASSUME SizeAssumption == RowSize \in [Rows -> Nat] /\ WordSize \in Nat \ {0}

VARIABLES
    backend,      \* which storage it is
    table,        \* the DashMap or the SQL table `documents`
    total,        \* total_size of MemoryStorage
    task,         \* per caller: the call and where it is
    overlapped    \* history: a row changed between the two accesses of a store

vars == <<backend, table, total, task, overlapped>>
-----------------------------------------------------------------------------
Kinds == {"memory", "sqlite", "postgres"}

MatchesIn(b, key, pattern) ==
    CASE b = "memory" -> GlobMatches(key, pattern)
      [] b = "sqlite" -> SqliteMatches(key, pattern, Lower)
      [] b = "postgres" -> PostgresMatches(key, pattern)

Matched == [b \in Kinds |-> [p \in Patterns |-> {k \in Ids : MatchesIn(b, k, p)}]]

\* What every backend lists, and what some backend does.
Must == Matched["memory"]
May == [p \in Patterns |-> Matched["sqlite"][p] \cup Matched["postgres"][p]]

\* What the callers see of their calls.
Calls == [c \in Callers |-> [op |-> task[c].op, todo |-> task[c].todo,
                             found |-> task[c].found, answer |-> task[c].answer]]

\* Rows in memory are lost with the process, and SQLite does not tell of rows
\* it could not read for a listing.
Contract == INSTANCE Storage WITH rows <- table, call <- Calls,
                volatile <- (backend = "memory"), silent <- (backend = "sqlite")

Present == Contract!Present
Pending == Contract!Pending

\* at: the step a call is at; row: what delete() took out; size: what stats()
\* read of the sizes.
AtStep(call, at) ==
    [op |-> call.op, todo |-> call.todo, found |-> call.found,
     answer |-> call.answer, at |-> at, row |-> NoRow, size |-> 0]
Task(op) == AtStep(Contract!Call(op), "start")
Idle == AtStep(Contract!NoCall, "idle")

\* The size is an AtomicUsize.
Wrap(n) == n % WordSize
SizeOf(row) == IF row = NoRow THEN 0 ELSE RowSize[row]

\* The bytes of the table, each named by its row and its place.
Bytes == UNION {{k} \X (1..SizeOf(table[k])) : k \in Ids}
TableSize == Cardinality(Bytes)

Init ==
    /\ backend \in Kinds
    /\ table = [k \in Ids |-> NoRow]
    /\ total = 0
    /\ task = [c \in Callers |-> Idle]
    /\ overlapped = FALSE

At(c, op, at) == task[c].op.do = op /\ task[c].at = at
Id(c) == task[c].op.id

Goto(c, at) == task' = [task EXCEPT ![c].at = at]
Done(c, answer) == task' = [task EXCEPT ![c].answer = answer, ![c].at = "done"]

Found(c) == IF Id(c) \in Present THEN "found" ELSE "missing"

Begin(c, op) ==
    /\ task[c] = Idle
    /\ task' = [task EXCEPT ![c] = Task(op)]
    /\ UNCHANGED <<backend, table, total, overlapped>>

Return(c) ==
    /\ task[c].at = "done"
    /\ task' = [task EXCEPT ![c] = Idle]
    /\ UNCHANGED <<backend, table, total, overlapped>>

(***************************************************************************)
(* MemoryStorage                                                           *)
(***************************************************************************)
\* Another store has taken the size of the row that changes now.
Overlaps(c) ==
    \E d \in Callers \ {c} :
        task[d].op.do = "store" /\ task[d].at \in {"add", "insert"} /\ Id(d) = Id(c)

\* get() and, while it holds the entry, fetch_sub().
\* Mutant: nothing is subtracted.
MemoryStoreOnlyAdds(c) ==
    /\ backend = "memory" /\ At(c, "store", "start")
    /\ Goto(c, "add")
    /\ UNCHANGED <<backend, table, total, overlapped>>

MemoryStoreSub(c) ==
    /\ backend = "memory" /\ At(c, "store", "start")
    /\ total' = Wrap(total - SizeOf(table[Id(c)]))
    /\ Goto(c, "add")
    /\ UNCHANGED <<backend, table, overlapped>>

MemoryStoreAdd(c) ==
    /\ backend = "memory" /\ At(c, "store", "add")
    /\ total' = Wrap(total + RowSize[task[c].op.row])
    /\ Goto(c, "insert")
    /\ UNCHANGED <<backend, table, overlapped>>

\* Mutant: a row that is there is kept.
MemoryStoreOrKeep(c) ==
    /\ backend = "memory" /\ At(c, "store", "insert")
    /\ table' = [table EXCEPT ![Id(c)] = IF @ = NoRow THEN task[c].op.row ELSE @]
    /\ Done(c, "ok")
    /\ overlapped' = (overlapped \/ Overlaps(c))
    /\ UNCHANGED <<backend, total>>

MemoryStoreInsert(c) ==
    /\ backend = "memory" /\ At(c, "store", "insert")
    /\ table' = [table EXCEPT ![Id(c)] = task[c].op.row]
    /\ Done(c, "ok")
    /\ overlapped' = (overlapped \/ Overlaps(c))
    /\ UNCHANGED <<backend, total>>

MemoryDelete(c) ==
    /\ backend = "memory" /\ At(c, "delete", "start")
    /\ table' = [table EXCEPT ![Id(c)] = NoRow]
    /\ task' = [task EXCEPT ![c].answer = Found(c), ![c].row = table[Id(c)],
                            ![c].at = IF Id(c) \in Present THEN "sub" ELSE "done"]
    /\ overlapped' = (overlapped \/ Overlaps(c))
    /\ UNCHANGED <<backend, total>>

MemoryDeleteSub(c) ==
    /\ backend = "memory" /\ At(c, "delete", "sub")
    /\ total' = Wrap(total - SizeOf(task[c].row))
    /\ Goto(c, "done")
    /\ UNCHANGED <<backend, table, overlapped>>

(***************************************************************************)
(* SqliteStorage and PostgresStorage: the upsert and the DELETE.           *)
(***************************************************************************)
SqlStore(c) ==
    /\ backend # "memory" /\ At(c, "store", "start")
    /\ table' = [table EXCEPT ![Id(c)] = task[c].op.row]
    /\ Done(c, "ok")
    /\ UNCHANGED <<backend, total, overlapped>>

SqlDelete(c) ==
    /\ backend # "memory" /\ At(c, "delete", "start")
    /\ table' = [table EXCEPT ![Id(c)] = NoRow]
    /\ Done(c, Found(c))
    /\ UNCHANGED <<backend, total, overlapped>>

\* A statement fails.  SQLite has rolled it back; PostgreSQL may have
\* committed it before the connection was lost.
SqlError(c) ==
    /\ backend # "memory" /\ task[c].at \in {"start", "size"}
    /\ \/ UNCHANGED table
       \/ /\ backend = "postgres" /\ task[c].op.do \in {"store", "delete"}
          /\ table' = [table EXCEPT ![Id(c)] =
                         IF task[c].op.do = "store" THEN task[c].op.row ELSE NoRow]
    /\ Done(c, "failed")
    /\ UNCHANGED <<backend, total, overlapped>>

(***************************************************************************)
(* Reads, of all backends.                                                 *)
(***************************************************************************)
Load(c) ==
    /\ At(c, "load", "start")
    /\ Done(c, table[Id(c)])
    /\ UNCHANGED <<backend, table, total, overlapped>>

Exists(c) ==
    /\ At(c, "exists", "start")
    /\ Done(c, Found(c))
    /\ UNCHANGED <<backend, table, total, overlapped>>

\* list() and the count of stats(): the DashMap is visited shard by shard, a
\* SELECT sees all rows at one moment.
Visits(c) == IF backend = "memory" THEN {{k} : k \in task[c].todo} ELSE {task[c].todo}

Takes(c) ==
    Present \cap IF task[c].op.do = "list" THEN Matched[backend][task[c].op.pattern] ELSE Ids

\* SQLite counts and sums under one lock, the others read the size later.
Visit(c, seen) ==
    LET then == IF ~(task[c].todo \subseteq seen) THEN "start"
                ELSE IF task[c].op.do = "stats" /\ backend # "sqlite" THEN "size"
                ELSE "done"
    IN  /\ task[c].op.do \in {"list", "stats"} /\ task[c].at = "start"
        /\ task' = [task EXCEPT
              ![c].todo = @ \ seen,
              ![c].found = @ \cup (seen \cap Takes(c)),
              ![c].answer = IF then = "done" THEN "ok" ELSE Pending,
              ![c].size = IF backend = "sqlite" THEN TableSize ELSE 0,
              ![c].at = then]
        /\ UNCHANGED <<backend, table, total, overlapped>>

\* Rows that cannot be read are left out (`filter_map(|r| r.ok())`), and no
\* error is told.
ListDropsRows(c) ==
    /\ backend = "sqlite" /\ At(c, "list", "start")
    /\ \E read \in SUBSET (task[c].todo \cap Takes(c)) :
          task' = [task EXCEPT ![c].todo = {}, ![c].found = @ \cup read,
                               ![c].answer = "ok", ![c].at = "done"]
    /\ UNCHANGED <<backend, table, total, overlapped>>

StatsSize(c) ==
    /\ At(c, "stats", "size")
    /\ task' = [task EXCEPT ![c].answer = "ok", ![c].at = "done",
                            ![c].size = IF backend = "memory" THEN total ELSE TableSize]
    /\ UNCHANGED <<backend, table, total, overlapped>>

\* The process ends, with the calls under way, and another one begins.  What
\* was in memory is gone.
Restart ==
    /\ task' = [c \in Callers |-> Idle]
    /\ table' = IF backend = "memory" THEN [k \in Ids |-> NoRow] ELSE table
    /\ total' = 0
    /\ overlapped' = FALSE
    /\ UNCHANGED backend

Next ==
    \/ \E c \in Callers :
          \/ \E op \in Contract!Operations : Begin(c, op)
          \/ MemoryStoreSub(c) \/ MemoryStoreAdd(c) \/ MemoryStoreInsert(c)
          \/ MemoryDelete(c) \/ MemoryDeleteSub(c)
          \/ SqlStore(c) \/ SqlDelete(c) \/ SqlError(c)
          \/ Load(c) \/ Exists(c)
          \/ \E seen \in Visits(c) : Visit(c, seen)
          \/ ListDropsRows(c) \/ StatsSize(c) \/ Return(c)
    \/ Restart

Spec == Init /\ [][Next]_vars
-----------------------------------------------------------------------------
\* Every backend is a storage as the trait describes it, though its calls
\* overlap, its statements fail and its process restarts.
ImplementsStorage == Contract!Spec

\* total_size of MemoryStorage ("Total size tracking") is the size of the rows
\* whenever no call is under way, as long as no row changed between the two
\* accesses of a store.  After that it may be off, or wrapped, for good.
SizeIsExact ==
    backend = "memory" /\ ~overlapped /\ (\A c \in Callers : task[c].at \in {"idle", "done"})
        => total = Wrap(TableSize)
=============================================================================
