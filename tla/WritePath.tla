------------------------------ MODULE WritePath ------------------------------
(***************************************************************************)
(* What a SET, PUSH or INC does once the document is written: module       *)
(* Document composed with the persistence of usld and the broadcast to     *)
(* subscribers (handler.rs: handle_set, handle_push, handle_increment,     *)
(* persist_document).                                                      *)
(*                                                                         *)
(* persist_document reads the meta and the encoded Yrs state in two        *)
(* critical sections and hands both to a task of its own; the runtime runs *)
(* those tasks in any order and the SQLite connection, a mutex, serves     *)
(* them one at a time.  A SET then reads the version and the state again   *)
(* and publishes them.  usld opens its storage at start and never reads    *)
(* it, so a process that is started again begins without documents: the    *)
(* model takes it up where a client has made the document anew.            *)
(***************************************************************************)
EXTENDS Document, Sequences

CONSTANTS
    NoRow,          \* the document has no row in the database
    StoresMayFail,  \* whether Storage::store may return an error
    MaxRestarts     \* bound on the number of restarts

ASSUME StoresAssumption == StoresMayFail \in BOOLEAN /\ MaxRestarts \in Nat

VARIABLES
    at,             \* per worker: where it is after "done"
    seen,           \* per worker: the version it read last
    spawned,        \* the store tasks that have not run yet
    row,            \* the document's row in the database
    deltas,         \* what the broadcast channel was sent
    restarts        \* number of restarts

pvars == <<at, seen, spawned, row, deltas, restarts>>
allvars == <<vars, pvars>>

\* Mutant: the state is read first, and the version with the store.
ImageStateFirst(no, v) == [no |-> no, version |-> version, text |-> v - 1]

\* What a store task carries and a row holds; `no` tells tasks apart.
Image(no, v) == [no |-> no, version |-> v, text |-> ydoc.text]
-----------------------------------------------------------------------------
PInit ==
    /\ Init
    /\ at = [w \in Workers |-> "handler"]
    /\ seen = [w \in Workers |-> 0]
    /\ spawned = {}
    /\ row = NoRow
    /\ deltas = <<>>
    /\ restarts = 0

Changed(w) == task[w].pc = "done" /\ task[w].op \in {"SET", "INC"}

PersistMeta(w) ==
    /\ Changed(w) /\ at[w] = "handler"
    /\ seen' = [seen EXCEPT ![w] = version]
    /\ at' = [at EXCEPT ![w] = "persist"]
    /\ UNCHANGED <<vars, spawned, row, deltas, restarts>>

PersistSpawn(w) ==
    /\ at[w] = "persist"
    /\ \E no \in 1..MaxCommands :
          /\ \A s \in spawned : s.no # no
          /\ \A k \in 1..(no - 1) : \E s \in spawned : s.no = k
          /\ spawned' = spawned \cup {Image(no, seen[w])}
    /\ at' = [at EXCEPT ![w] = IF task[w].op = "SET" THEN "publish" ELSE "reply"]
    /\ UNCHANGED <<vars, seen, row, deltas, restarts>>

PublishVersion(w) ==
    /\ at[w] = "publish"
    /\ seen' = [seen EXCEPT ![w] = version]
    /\ at' = [at EXCEPT ![w] = "send"]
    /\ UNCHANGED <<vars, spawned, row, deltas, restarts>>

\* Mutant: the delta is computed first, and the version read with the send.
PublishStateFirst(w) ==
    /\ at[w] = "send"
    /\ deltas' = Append(deltas,
          [version |-> version, text |-> seen[w] - 1, by |-> w, life |-> restarts])
    /\ at' = [at EXCEPT ![w] = "reply"]
    /\ UNCHANGED <<vars, seen, spawned, row, restarts>>

\* The state is encoded after the version was read, and then sent: one step,
\* since what others write between the two changes neither of the two.
PublishSend(w) ==
    /\ at[w] = "send"
    /\ deltas' = Append(deltas,
          [version |-> seen[w], text |-> ydoc.text, by |-> w, life |-> restarts])
    /\ at' = [at EXCEPT ![w] = "reply"]
    /\ UNCHANGED <<vars, seen, spawned, row, restarts>>

Answer(w) ==
    /\ Reply(w)
    /\ ~Changed(w) \/ at[w] = "reply"
    /\ at' = [at EXCEPT ![w] = "handler"]
    /\ seen' = [seen EXCEPT ![w] = 0]
    /\ UNCHANGED <<spawned, row, deltas, restarts>>

\* A spawned task replaces the document's row, or logs a warning.
Store(s) ==
    /\ s \in spawned
    /\ spawned' = spawned \ {s}
    /\ \/ row' = s
       \/ StoresMayFail /\ row' = row
    /\ UNCHANGED <<vars, at, seen, deltas, restarts>>

\* The process ends and is started again: only the database is left.
Restart ==
    /\ restarts < MaxRestarts
    /\ restarts' = restarts + 1
    /\ ydoc' = [text |-> 0, history |-> 0]
    /\ lww' = [val |-> 0, count |-> 0]
    /\ version' = 1 /\ updates' = 0 /\ compactions' = 0 /\ writes' = 0
    /\ task' = [w \in Workers |-> NoTask]
    /\ at' = [w \in Workers |-> "handler"]
    /\ seen' = [w \in Workers |-> 0]
    /\ spawned' = {}
    /\ UNCHANGED <<strategy, issued, row, deltas>>

PNext ==
    \/ \E w \in Workers :
          \/ Work(w) /\ UNCHANGED pvars
          \/ PersistMeta(w) \/ PersistSpawn(w)
          \/ PublishVersion(w) \/ PublishSend(w)
          \/ Answer(w)
    \/ \E s \in spawned : Store(s)
    \/ Restart

PSpec == PInit /\ [][PNext]_allvars
-----------------------------------------------------------------------------
\* A row is at least as new as the version in its meta: the meta is read
\* before the state, so the content it comes with includes every text write
\* that version counts, and a reader of the database may trust it.  (For text
\* documents that are not compacted meanwhile.)
RowCoversItsVersion == row # NoRow => row.text >= row.version - 1

\* What RowCoversItsVersion says, of the deltas subscribers receive.
DeltasCoverTheirVersion ==
    \A i \in DOMAIN deltas : deltas[i].text >= deltas[i].version - 1

\* The deltas of one connection go out with growing versions, whatever the
\* other connections publish in between.
SessionDeltasIncrease ==
    \A i, j \in DOMAIN deltas :
        i < j /\ deltas[i].by = deltas[j].by /\ deltas[i].life = deltas[j].life
            => deltas[i].version < deltas[j].version
=============================================================================
