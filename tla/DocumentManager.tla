--------------------------- MODULE DocumentManager ---------------------------
(***************************************************************************)
(* crates/ussl-core/src/manager.rs: the map from document ids to           *)
(* documents, as the connection tasks and the garbage collector of usld    *)
(* see it.  Every connection runs on a task of its own and the runtime has *)
(* several worker threads, so two commands interleave at the granularity   *)
(* of the locks they take: one step here is one access to the DashMap      *)
(* `documents` or one critical section of a Document.                      *)
(*                                                                         *)
(* A handler first obtains an Arc<Document> from the map and then works on *)
(* the Arc; nothing ties the two steps together.  The Arcs are the members *)
(* of DocRefs, and heap[d] is the Document behind d.  Its content is       *)
(* abstracted to the last value SET, and the number of PUSH and INC        *)
(* applied, since its creation (module Document opens it up).              *)
(***************************************************************************)
EXTENDS Integers, FiniteSets

CONSTANTS
    Clients,      \* the connection tasks
    Keys,         \* the document ids in use
    DocRefs,      \* the Arc<Document>s the process can allocate
    None,         \* absence of a document, of a key
    Ops,          \* the commands the clients issue, a subset of AllOps
    TTLs,         \* the TTLs (ms) a CREATE or an EXPIRE carries
    MaxNow,       \* bound on the wall clock
    MaxCommands   \* bound on the number of commands issued in all

AllOps == {"CREATE", "GET", "SET", "INC", "DEL", "DELPATH", "EXPIRE"}

ASSUME NoneAssumption == None \notin DocRefs \cup Keys
ASSUME OpsAssumption == Ops \subseteq AllOps
ASSUME TTLAssumption == TTLs \subseteq Nat \ {0}
ASSUME BoundAssumption == MaxNow \in Nat /\ MaxCommands \in Nat

VARIABLES
    documents,    \* the DashMap: id -> Arc<Document>, or None
    heap,         \* the Document behind each Arc ever allocated
    now,          \* SystemTime::now()
    task,         \* per connection: the command it is executing
    issued,       \* number of commands issued so far
    gc,           \* the sweep of the garbage collector: ids left, victims
    raced         \* history: ids a client (re)created or EXPIREd mid-sweep

vars == <<documents, heap, now, task, issued, gc, raced>>
-----------------------------------------------------------------------------
NoTTL == 0

\* A value no SET wrote: the content of a fresh document, or Null.
NoValue == 0

Doc == [key : Keys, created : Nat, ttl : Nat, version : Nat, val : Nat, count : Nat]

ASSUME NoDocAssumption == None \notin Doc

Replies ==
    [kind : {"none", "ok", "exists", "not_found", "null"}]
    \cup [kind : {"integer"}, value : Nat]
    \cup [kind : {"value"}, val : Nat, count : Nat]

Say(k) == [kind |-> k]

Pcs == {"idle", "create", "read", "write", "delete_path", "set_ttl"}

\* A command in flight.  `id` identifies it, and the value its SET writes.
Task == [pc : Pcs, op : Ops \cup {"none"}, id : Nat, key : Keys \cup {None},
         ref : DocRefs \cup {None}, ttl : Nat, reply : Replies]

\* A connection between two commands, with the last command and its answer.
Done(op, id, key, reply) ==
    [pc |-> "idle", op |-> op, id |-> id, key |-> key,
     ref |-> None, ttl |-> NoTTL, reply |-> reply]

NoTask == Done("none", 0, None, Say("none"))

Allocated(d) == heap[d] # None

\* Document::new and Document::with_ttl
NewDocument(k, t) ==
    [key |-> k, created |-> now, ttl |-> t, version |-> 1,
     val |-> NoValue, count |-> 0]

\* DocumentMeta::is_expired: the TTL counts from the creation.
ExpiredAt(doc, time) == doc.ttl # NoTTL /\ time > doc.created + doc.ttl
Expired(d) == ExpiredAt(heap[d], now)

\* Document::update_version, the end of every write to a document.
UpdateVersion(doc) == [doc EXCEPT !.version = @ + 1]

\* DocumentManager::insert of a fresh document d under k.
Install(d, k, t) ==
    /\ ~Allocated(d)
    /\ heap' = [heap EXCEPT ![d] = NewDocument(k, t)]
    /\ documents' = [documents EXCEPT ![k] = d]
    /\ raced' = raced \cup {k}
-----------------------------------------------------------------------------
Init ==
    /\ documents = [k \in Keys |-> None]
    /\ heap = [d \in DocRefs |-> None]
    /\ now = 0
    /\ task = [c \in Clients |-> NoTask]
    /\ issued = 0
    /\ gc = [todo |-> {}, victims |-> {}]
    /\ raced = {}

\* A connection takes up its next command; the handler first runs to `pc`.
Begin(c, op, k, pc, d, t) ==
    /\ op \in Ops
    /\ task[c].pc = "idle"
    /\ issued < MaxCommands
    /\ issued' = issued + 1
    /\ task' = [task EXCEPT ![c] =
                  [pc |-> pc, op |-> op, id |-> issued + 1, key |-> k,
                   ref |-> d, ttl |-> t, reply |-> Say("none")]]
    /\ UNCHANGED <<now, gc>>

\* ... or answers it in that first step already.
Answer(c, op, k, reply) ==
    /\ op \in Ops
    /\ task[c].pc = "idle"
    /\ issued < MaxCommands
    /\ issued' = issued + 1
    /\ task' = [task EXCEPT ![c] = Done(op, issued + 1, k, reply)]
    /\ UNCHANGED <<now, gc>>

\* The last step of a command whose first step was Begin.
Finish(c, reply) ==
    /\ task' = [task EXCEPT ![c] = Done(task[c].op, task[c].id, task[c].key, reply)]
    /\ UNCHANGED <<now, issued, gc>>

(***************************************************************************)
(* CREATE: contains_key, and in a later step the insert.                   *)
(***************************************************************************)
CreateCheck(c, k, t) ==
    /\ \/ /\ documents[k] # None
          /\ Answer(c, "CREATE", k, Say("exists"))
       \/ /\ documents[k] = None
          /\ Begin(c, "CREATE", k, "create", None, t)
    /\ UNCHANGED <<documents, heap, raced>>

CreateInsert(c) ==
    /\ task[c].pc = "create"
    /\ \E d \in DocRefs : Install(d, task[c].key, task[c].ttl)
    /\ Finish(c, Say("ok"))

(***************************************************************************)
(* GET: clone the Arc out of the map, then read the document behind it.    *)
(***************************************************************************)
Get(c, k) ==
    /\ \/ /\ documents[k] = None
          /\ Answer(c, "GET", k, Say("null"))
       \/ /\ documents[k] # None
          /\ Begin(c, "GET", k, "read", documents[k], NoTTL)
    /\ UNCHANGED <<documents, heap, raced>>

Read(c) ==
    /\ task[c].pc = "read"
    /\ Finish(c, [kind |-> "value", val |-> heap[task[c].ref].val,
                  count |-> heap[task[c].ref].count])
    /\ UNCHANGED <<documents, heap, raced>>

\* Mutant: insert() where the code has entry().or_insert().
GetOrInsert(c, op, k) ==
    \E d \in DocRefs : Install(d, k, NoTTL) /\ Begin(c, op, k, "write", d, NoTTL)

(***************************************************************************)
(* SET, and INC or PUSH: get_or_create is one atomic entry().or_insert(),  *)
(* the write to the Arc it returned is another step.                       *)
(***************************************************************************)
GetOrCreate(c, op, k) ==
    \/ /\ documents[k] # None
       /\ Begin(c, op, k, "write", documents[k], NoTTL)
       /\ UNCHANGED <<documents, heap, raced>>
    \/ /\ documents[k] = None
       /\ \E d \in DocRefs :
             /\ Install(d, k, NoTTL)
             /\ Begin(c, op, k, "write", d, NoTTL)

Write(c) ==
    LET t == task[c]
        doc == heap[t.ref]
        new == IF t.op = "SET" THEN [doc EXCEPT !.val = t.id]
                               ELSE [doc EXCEPT !.count = @ + 1]
    IN  /\ t.pc = "write"
        /\ heap' = [heap EXCEPT ![t.ref] = UpdateVersion(new)]
        /\ Finish(c, IF t.op = "SET" THEN Say("ok")
                     ELSE [kind |-> "integer", value |-> new.count])
        /\ UNCHANGED <<documents, raced>>

\* Mutant: the document is freed with its entry, whoever holds the Arc.
DeleteAndFree(c, k) ==
    /\ documents[k] # None
    /\ Answer(c, "DEL", k, Say("ok"))
    /\ documents' = [documents EXCEPT ![k] = None]
    /\ heap' = [heap EXCEPT ![documents[k]] = None]
    /\ UNCHANGED raced

(***************************************************************************)
(* DEL <id>: one atomic remove.  DEL <id> <path>: get, then set to Null.   *)
(***************************************************************************)
Delete(c, k) ==
    /\ \/ /\ documents[k] = None
          /\ Answer(c, "DEL", k, Say("not_found"))
       \/ /\ documents[k] # None
          /\ Answer(c, "DEL", k, Say("ok"))
    /\ documents' = [documents EXCEPT ![k] = None]
    /\ UNCHANGED <<heap, raced>>

FindForDeletePath(c, k) ==
    /\ \/ /\ documents[k] = None
          /\ Answer(c, "DELPATH", k, Say("not_found"))
       \/ /\ documents[k] # None
          /\ Begin(c, "DELPATH", k, "delete_path", documents[k], NoTTL)
    /\ UNCHANGED <<documents, heap, raced>>

DeletePath(c) ==
    /\ task[c].pc = "delete_path"
    /\ heap' = [heap EXCEPT ![task[c].ref] =
                  UpdateVersion([@ EXCEPT !.val = NoValue])]
    /\ Finish(c, Say("ok"))
    /\ UNCHANGED <<documents, raced>>

(***************************************************************************)
(* EXPIRE: get, then store the TTL in the document's meta; 0 removes it.   *)
(***************************************************************************)
FindForExpire(c, k, t) ==
    /\ \/ /\ documents[k] = None
          /\ Answer(c, "EXPIRE", k, Say("not_found"))
       \/ /\ documents[k] # None
          /\ Begin(c, "EXPIRE", k, "set_ttl", documents[k], t)
    /\ UNCHANGED <<documents, heap, raced>>

SetTTL(c) ==
    /\ task[c].pc = "set_ttl"
    /\ heap' = [heap EXCEPT ![task[c].ref].ttl = task[c].ttl]
    /\ raced' = raced \cup {task[c].key}
    /\ Finish(c, Say("ok"))
    /\ UNCHANGED documents

Command(c) ==
    \/ \E k \in Keys :
          \/ \E t \in TTLs \cup {NoTTL} : CreateCheck(c, k, t) \/ FindForExpire(c, k, t)
          \/ \E op \in {"SET", "INC"} : GetOrCreate(c, op, k)
          \/ Get(c, k) \/ Delete(c, k) \/ FindForDeletePath(c, k)

\* The rest of the command a connection is executing.
Proceed(c) == CreateInsert(c) \/ Read(c) \/ Write(c) \/ DeletePath(c) \/ SetTTL(c)

(***************************************************************************)
(* The garbage collector: DashMap's iter() holds one shard at a time, so   *)
(* the ids are looked at one after the other; then the ids collected are   *)
(* removed, by id, one after the other.                                    *)
(***************************************************************************)
GcSweep ==
    /\ gc.todo = {} /\ gc.victims = {}
    /\ gc' = [gc EXCEPT !.todo = Keys]
    /\ raced' = {}
    /\ UNCHANGED <<documents, heap, now, task, issued>>

\* Mutant: the filter of gc() is gone.
GcScanAll(k) ==
    /\ k \in gc.todo
    /\ gc' = [todo |-> gc.todo \ {k}, victims |-> gc.victims \cup {k}]
    /\ UNCHANGED <<documents, heap, now, task, issued, raced>>

GcScan(k) ==
    /\ k \in gc.todo
    /\ gc' = [todo |-> gc.todo \ {k},
              victims |-> IF documents[k] # None /\ Expired(documents[k])
                          THEN gc.victims \cup {k} ELSE gc.victims]
    /\ UNCHANGED <<documents, heap, now, task, issued, raced>>

\* Mutant: gc() counts the expired documents and leaves them in the map.
GcCount(k) ==
    /\ gc.todo = {} /\ k \in gc.victims
    /\ gc' = [gc EXCEPT !.victims = @ \ {k}]
    /\ UNCHANGED <<documents, heap, now, task, issued, raced>>

GcRemove(k) ==
    /\ gc.todo = {} /\ k \in gc.victims
    /\ gc' = [gc EXCEPT !.victims = @ \ {k}]
    /\ documents' = [documents EXCEPT ![k] = None]
    /\ UNCHANGED <<heap, now, task, issued, raced>>

GcStep == GcSweep \/ \E k \in Keys : GcScan(k) \/ GcRemove(k)

Tick ==
    /\ now < MaxNow
    /\ now' = now + 1
    /\ UNCHANGED <<documents, heap, task, issued, gc, raced>>

Next ==
    \/ \E c \in Clients : Command(c) \/ Proceed(c)
    \/ GcStep
    \/ Tick

Spec == Init /\ [][Next]_vars

\* Handlers do not await inside a command, and usld spawns the collector as
\* a loop on an interval timer that never stops.
Fairness ==
    /\ \A c \in Clients : WF_vars(Proceed(c))
    /\ WF_vars(GcStep)

FairSpec == Spec /\ Fairness
-----------------------------------------------------------------------------
(***************************************************************************)
(* Properties.                                                             *)
(***************************************************************************)

\* Every variable stays in its range.
TypeOK ==
    /\ documents \in [Keys -> DocRefs \cup {None}]
    /\ heap \in [DocRefs -> Doc \cup {None}]
    /\ now \in Nat
    /\ task \in [Clients -> Task]
    /\ issued \in Nat
    /\ gc \in [todo : SUBSET Keys, victims : SUBSET Keys]
    /\ raced \in SUBSET Keys

\* The document found under an id was created for that id.
WellKeyed ==
    \A k \in Keys : documents[k] # None =>
        /\ Allocated(documents[k])
        /\ heap[documents[k]].key = k

\* An Arc a handler works on is a document of the id its command names, also
\* when the map has dropped it in the meantime.
HeldRefs ==
    \A c \in Clients : task[c].pc # "idle" =>
        /\ task[c].key \in Keys
        /\ task[c].pc # "create" =>
              /\ task[c].ref \in DocRefs
              /\ Allocated(task[c].ref)
              /\ heap[task[c].ref].key = task[c].key

\* The collector takes a document that has not expired only if, since its
\* sweep began, a client created a document under that id or changed its TTL:
\* gc() collects ids first and removes whatever is under them later, and
\* nothing else may come between the two.
GcOnlyRaces ==
    \A k \in gc.victims \ raced : documents[k] # None => Expired(documents[k])

\* The inductive invariant behind GcOnlyRaces.
IInv == TypeOK /\ WellKeyed /\ HeldRefs /\ GcOnlyRaces

\* A document leaves the map only through a DEL of its id, the collector, or
\* a CREATE that found no document under the id when it looked: the
\* get_or_create of a SET, PUSH or INC never displaces a document, and what
\* was written to it stays reachable.
OnlyEvictionsLose ==
    [][\A k \in Keys :
          documents[k] # None /\ documents'[k] # documents[k] =>
             \/ k \in gc.victims \ gc'.victims
             \/ \E c \in Clients : task'[c] = Done("DEL", issued + 1, k, Say("ok"))
             \/ \E c \in Clients : task[c].pc = "create" /\ task[c].key = k
                                   /\ task'[c].pc = "idle"]_vars

\* The collector keeps up: a document that has expired is removed from the
\* map, or gets a TTL under which it has not expired.
ExpiredIsCollected ==
    \A k \in Keys : \A d \in DocRefs :
        (documents[k] = d /\ Expired(d)) ~> (documents[k] # d \/ ~Expired(d))
=============================================================================
