---------------------------- MODULE BackupRestore ----------------------------
(***************************************************************************)
(* BACKUP and RESTORE (manager.rs: backup, restore; handler.rs:            *)
(* handle_backup, handle_restore) over a map that clients and the          *)
(* collector of module DocumentManager go on changing.                     *)
(*                                                                         *)
(* backup() iterates over the DashMap and holds the entry it is at, and    *)
(* nothing else: it looks whether the document has expired, encodes its    *)
(* state and computes its remaining TTL, one lock of the document after    *)
(* the other.  What it encodes is the Yrs document.  Under every strategy  *)
(* but crdt-text the content is in `lww_data`, which is not part of it.    *)
(* restore() makes a document of each entry and inserts it, and returns at *)
(* the first entry it cannot make one of.                                  *)
(***************************************************************************)
EXTENDS DocumentManager

CONSTANTS
    Bad,          \* whether a RESTORE may carry a document that is no good
    MaxJobs       \* bound on the number of BACKUP and RESTORE commands

ASSUME JobAssumption == Bad \in BOOLEAN /\ MaxJobs \in Nat

VARIABLES
    text,         \* the Arcs whose document is a crdt-text
    job,          \* the BACKUP or RESTORE that is being executed
    backup,       \* what the last BACKUP answered
    saved,        \* id -> the version RESTORE had stored; 0, none
    jobs,         \* number of BACKUPs and RESTOREs so far
    span,         \* history: the times the last backup began and ended
    states,       \* history: id -> the states it had during that backup
    deadlines,    \* history: id -> the deadlines it had during that backup
    gone          \* history: ids deleted or collected since their restore

hist == <<span, states, deadlines, gone>>
bvars == <<vars, text, job, backup, saved, jobs, hist>>
-----------------------------------------------------------------------------
\* No document, or an expired one.
Absent == -1
Forever == -1

NoJob == [pc |-> "idle"]

BInit ==
    /\ Init
    /\ text = {} /\ job = NoJob /\ backup = {} /\ jobs = 0
    /\ saved = [k \in Keys |-> 0]
    /\ span = <<0, 0>>
    /\ states = [k \in Keys |-> {}] /\ deadlines = [k \in Keys |-> {}]
    /\ gone = {}

\* Document::encode_state: the Yrs document, which has the text, and nothing
\* of what PUSH and INC do.
EncodeState(d) == IF d \in text THEN heap[d].val ELSE NoValue

\* DocumentMeta::ttl_remaining
TtlRemaining(doc) == doc.created + doc.ttl - now

\* What a backup of k at this moment may have (GET finds also what has
\* expired and is not collected yet), and when k expires.
StatesNow(k) ==
    (IF documents[k] = None THEN {} ELSE {EncodeState(documents[k])})
    \cup (IF documents[k] = None \/ Expired(documents[k]) THEN {Absent} ELSE {})

DeadlinesNow(k) ==
    {IF heap[d].ttl = NoTTL THEN Forever ELSE heap[d].created + heap[d].ttl :
        d \in {documents[k]} \ {None}}

\* The history variables take up the state after the step.
Observe(oldStates, oldDeadlines) ==
    /\ states' = [k \in Keys |-> oldStates[k] \cup StatesNow(k)']
    /\ deadlines' = [k \in Keys |-> oldDeadlines[k] \cup DeadlinesNow(k)']

InBackup == job.pc \in {"iterate", "state", "ttl"}
ObserveBackup ==
    IF InBackup THEN Observe(states, deadlines) ELSE UNCHANGED <<states, deadlines>>

(***************************************************************************)
(* Everybody else.  The entry the iterator of backup() is at stays where   *)
(* it is.  A CREATE chooses the strategy, get_or_create makes lww.         *)
(***************************************************************************)
Held(k) == job.pc \in {"state", "ttl"} /\ job.key = k

Serve ==
    /\ Next
    /\ \A k \in Keys : Held(k) => documents'[k] = documents[k]
    /\ LET made == {d \in DocRefs : heap[d] = None /\ heap'[d] # None}
           created == {d \in made : \E c \in Clients :
                         task[c].pc = "create" /\ task'[c].pc = "idle"}
       IN  text' \in {text, text \cup created}
    /\ gone' = gone \cup {k \in Keys : documents'[k] = None}
    /\ ObserveBackup
    /\ UNCHANGED <<job, backup, saved, jobs, span>>

(***************************************************************************)
(* BACKUP                                                                  *)
(***************************************************************************)
BeginBackup ==
    /\ job.pc = "idle" /\ jobs < MaxJobs
    /\ jobs' = jobs + 1
    /\ job' = [pc |-> "iterate", todo |-> Keys, entries |-> {}]
    /\ UNCHANGED <<vars, text, backup, saved, gone>>
    /\ span' = <<now, now>>
    /\ Observe([k \in Keys |-> {}], [k \in Keys |-> {}])

\* The iterator comes to k; the filter drops what has expired.
\* Mutant: it drops what has no time left, a moment too early.
VisitRemaining(k) ==
    LET d == documents[k]
    IN  /\ job.pc = "iterate" /\ k \in job.todo
        /\ job' = IF d = None \/ (heap[d].ttl # NoTTL /\ TtlRemaining(heap[d]) <= 0)
                  THEN [job EXCEPT !.todo = @ \ {k}]
                  ELSE [pc |-> "state", todo |-> job.todo \ {k}, entries |-> job.entries,
                        key |-> k, state |-> NoValue]
        /\ UNCHANGED <<vars, text, backup, saved, jobs, hist>>

Visit(k) ==
    /\ job.pc = "iterate" /\ k \in job.todo
    /\ job' = IF documents[k] = None \/ Expired(documents[k])
              THEN [job EXCEPT !.todo = @ \ {k}]
              ELSE [pc |-> "state", todo |-> job.todo \ {k}, entries |-> job.entries,
                    key |-> k, state |-> NoValue]
    /\ UNCHANGED <<vars, text, backup, saved, jobs, hist>>

BackupState ==
    /\ job.pc = "state"
    /\ job' = [job EXCEPT !.pc = "ttl", !.state = EncodeState(documents[job.key])]
    /\ UNCHANGED <<vars, text, backup, saved, jobs, hist>>

\* ttl_remaining_ms is an Option<i64>; `due` says whether there is one.
BackupTtl ==
    LET d == documents[job.key]
        due == heap[d].ttl # NoTTL
        entry == [key |-> job.key, text |-> d \in text, state |-> job.state,
                  due |-> due, ttl |-> IF due THEN TtlRemaining(heap[d]) ELSE 0]
    IN  /\ job.pc = "ttl"
        /\ job' = [pc |-> "iterate", todo |-> job.todo, entries |-> job.entries \cup {entry}]
        /\ UNCHANGED <<vars, text, backup, saved, jobs, hist>>

EndBackup ==
    /\ job.pc = "iterate" /\ job.todo = {}
    /\ backup' = job.entries
    /\ job' = NoJob
    /\ span' = <<span[1], now>>
    /\ UNCHANGED <<vars, text, saved, jobs, states, deadlines, gone>>

(***************************************************************************)
(* RESTORE                                                                 *)
(***************************************************************************)
BeginRestore ==
    /\ job.pc = "idle" /\ jobs < MaxJobs /\ backup # {}
    /\ jobs' = jobs + 1
    /\ job' = [pc |-> "restore", todo |-> backup]
    /\ UNCHANGED <<vars, text, backup, saved, hist>>

\* The TTL restore() gives a document: what was left, if any was left.
\* Mutant: an Option of zero is a TTL too.
RestoredTtlAtLeastOne(e) == IF e.due THEN (IF e.ttl > 0 THEN e.ttl ELSE 1) ELSE NoTTL

RestoredTtl(e) == IF e.due /\ e.ttl > 0 THEN e.ttl ELSE NoTTL

\* Document::with_ttl or new, apply_state, which counts as a write, and the
\* insert, which displaces what is there.
RestoreOne(e) ==
    /\ job.pc = "restore" /\ e \in job.todo
    /\ \E d \in DocRefs :
          /\ ~Allocated(d)
          /\ heap' = [heap EXCEPT ![d] =
                UpdateVersion([NewDocument(e.key, RestoredTtl(e)) EXCEPT !.val = e.state])]
          /\ documents' = [documents EXCEPT ![e.key] = d]
          /\ text' = IF e.text THEN text \cup {d} ELSE text
    /\ raced' = raced \cup {e.key}
    /\ gone' = gone \ {e.key}
    /\ job' = [job EXCEPT !.todo = @ \ {e}]
    /\ UNCHANGED <<now, task, issued, gc, backup, saved, jobs, span, states, deadlines>>

\* A document without a valid id, strategy or state: nothing more is restored,
\* nothing stored.
RestoreFails ==
    /\ Bad /\ job.pc = "restore"
    /\ job' = NoJob
    /\ UNCHANGED <<vars, text, backup, saved, jobs, hist>>

RestoreDone ==
    /\ job.pc = "restore" /\ job.todo = {}
    /\ job' = [pc |-> "persist", todo |-> {e.key : e \in backup}]
    /\ saved' = [k \in Keys |-> 0]
    /\ UNCHANGED <<vars, text, backup, jobs, hist>>

\* Every id of the backup is looked up again, and what is there is stored.
\* Mutant: the first id that is missing ends it.
PersistUntilMissing(k) ==
    /\ job.pc = "persist" /\ k \in job.todo
    /\ job' = [job EXCEPT !.todo = IF documents[k] = None THEN {} ELSE @ \ {k}]
    /\ saved' = [saved EXCEPT ![k] =
                   IF documents[k] = None THEN 0 ELSE heap[documents[k]].version]
    /\ UNCHANGED <<vars, text, backup, jobs, hist>>

Persist(k) ==
    /\ job.pc = "persist" /\ k \in job.todo
    /\ job' = [job EXCEPT !.todo = @ \ {k}]
    /\ saved' = [saved EXCEPT ![k] =
                   IF documents[k] = None THEN 0 ELSE heap[documents[k]].version]
    /\ UNCHANGED <<vars, text, backup, jobs, hist>>

EndRestore ==
    /\ job.pc = "persist" /\ job.todo = {}
    /\ job' = NoJob
    /\ UNCHANGED <<vars, text, backup, saved, jobs, hist>>

BNext ==
    \/ Serve
    \/ BeginBackup \/ BackupState \/ BackupTtl \/ EndBackup
    \/ BeginRestore \/ RestoreFails \/ RestoreDone \/ EndRestore
    \/ \E k \in Keys : Visit(k) \/ Persist(k)
    \/ \E e \in backup : RestoreOne(e)

BSpec == BInit /\ [][BNext]_bvars
-----------------------------------------------------------------------------
\* "Export and import all documents": an answer to BACKUP has, of every id,
\* the state of a document that was there while the backup was taken, or
\* leaves the id out, and then there was a moment it was not there.  It is no
\* snapshot: different ids may be of different moments.
BackupIsRegular ==
    [][job.pc = "iterate" /\ job'.pc = "idle" =>
          \A k \in Keys :
             IF \E e \in backup' : e.key = k
             THEN \A e \in backup' : e.key = k => e.state \in states[k]
             ELSE Absent \in states[k]]_bvars

\* "TTL is preserved as remaining time from backup moment": a restored
\* document has no more time left than it had when the backup began.  It gets
\* no TTL only if it had none at some moment of the backup, or if its time ran
\* out while the backup was taken: then it lives for ever.
RestoreKeepsTTL ==
    [][\A e \in backup :
          job.pc = "restore" /\ job'.pc = "restore" /\ e \in job.todo \ job'.todo =>
             LET doc == heap'[documents'[e.key]]
             IN  IF doc.ttl = NoTTL
                 THEN \E t \in deadlines[e.key] : t = Forever \/ t <= span[2]
                 ELSE \E t \in deadlines[e.key] : doc.ttl <= t - span[1]]_bvars

\* When RESTORE answers with its count, under every id it restored a document
\* has been handed to the storage, or the document was deleted or collected
\* meanwhile.
RestoredAreSaved ==
    [][job.pc = "persist" /\ job'.pc = "idle" =>
          \A e \in backup : saved[e.key] # 0 \/ e.key \in gone]_bvars
=============================================================================
