------------------------ MODULE DocumentManagerProofs ------------------------
(***************************************************************************)
(* What DocumentManager guarantees for any number of connections, ids,     *)
(* documents and commands: the inductive invariant IInv, and from it the   *)
(* two properties about how a document may leave the map.  Then what       *)
(* BACKUP and RESTORE guarantee over such a map (module BackupRestore).    *)
(***************************************************************************)
EXTENDS BackupRestore, ManagerOrder, TLAPS

\* Nothing has happened yet.
LEMMA InitIInv == Init => IInv
  BY NoneAssumption DEF Init, IInv, TypeOK, WellKeyed, HeldRefs, GcOnlyRaces,
     Task, NoTask, Done, Pcs, Replies, Say, NoTTL

\* A fresh document is well formed, and is a document.
LEMMA FreshIsDoc ==
  ASSUME NEW k \in Keys, NEW t \in Nat, now \in Nat
  PROVE  NewDocument(k, t) \in Doc /\ NewDocument(k, t) # None
  BY NoDocAssumption DEF NewDocument, Doc, NoValue

\* Installing a fresh document keeps what IInv says of the map and the heap.
LEMMA InstallKeeps ==
  ASSUME IInv, NEW d \in DocRefs, NEW k \in Keys, NEW t \in Nat,
         Install(d, k, t), UNCHANGED <<now, gc>>
  PROVE  /\ documents' \in [Keys -> DocRefs \cup {None}]
         /\ heap' \in [DocRefs -> Doc \cup {None}]
         /\ raced' \in SUBSET Keys
         /\ WellKeyed' /\ GcOnlyRaces'
         /\ heap'[d] # None /\ heap'[d].key = k
         /\ \A e \in DocRefs : Allocated(e) => heap'[e] = heap[e]
  <1> USE DEF IInv, TypeOK, Install, Allocated
  <1>1. NewDocument(k, t) \in Doc /\ NewDocument(k, t) # None
    BY FreshIsDoc
  <1>2. NewDocument(k, t).key = k
    BY DEF NewDocument
  <1>3. heap'[d] = NewDocument(k, t) /\ \A e \in DocRefs : e # d => heap'[e] = heap[e]
    OBVIOUS
  <1>4. documents'[k] = d /\ \A j \in Keys : j # k => documents'[j] = documents[j]
    OBVIOUS
  <1>5. WellKeyed'
    BY <1>1, <1>2, <1>3, <1>4, NoneAssumption DEF WellKeyed
  <1>6. GcOnlyRaces'
    BY <1>3, <1>4 DEF GcOnlyRaces, WellKeyed, Expired
  <1> QED
    BY <1>1, <1>2, <1>3, <1>5, <1>6
-----------------------------------------------------------------------------
\* Who is idle, or busy with an allocated document of its id, satisfies its
\* part of HeldRefs; a step that changes one task and keeps the documents of
\* the others keeps HeldRefs.
Holds(t) ==
    t.pc # "idle" =>
        /\ t.key \in Keys
        /\ t.pc # "create" => /\ t.ref \in DocRefs
                              /\ Allocated(t.ref)
                              /\ heap[t.ref].key = t.key

LEMMA TaskKeeps ==
  ASSUME IInv, NEW c \in Clients, task' = [task EXCEPT ![c] = task'[c]],
         task'[c] \in Task, Holds(task[c])',
         \A e \in DocRefs : Allocated(e) =>
            Allocated(e)' /\ heap'[e].key = heap[e].key
  PROVE  task' \in [Clients -> Task] /\ HeldRefs'
  <1> USE DEF IInv, TypeOK
  <1>1. task' \in [Clients -> Task]
    OBVIOUS
  <1>2. ASSUME NEW b \in Clients PROVE Holds(task[b])'
    <2>1. CASE b = c
      BY <2>1
    <2>2. CASE b # c
      BY <2>2 DEF HeldRefs, Holds
    <2> QED
      BY <2>1, <2>2
  <1> QED
    BY <1>1, <1>2 DEF HeldRefs, Holds

\* A task that is taken up, answered or finished is a Task.
LEMMA BeginIsTask ==
  ASSUME TypeOK, NEW op \in Ops, NEW k \in Keys, NEW pc \in Pcs,
         NEW d \in DocRefs \cup {None}, NEW t \in Nat
  PROVE  [pc |-> pc, op |-> op, id |-> issued + 1, key |-> k,
          ref |-> d, ttl |-> t, reply |-> Say("none")] \in Task
  BY DEF TypeOK, Task, Say, Replies

LEMMA AnswerIsTask ==
  ASSUME NEW op \in Ops \cup {"none"}, NEW k \in Keys \cup {None}, NEW i \in Nat,
         NEW r \in Replies
  PROVE  Done(op, i, k, r) \in Task /\ Done(op, i, k, r).pc = "idle"
  BY DEF Done, Task, Pcs, NoTTL

\* The answers without a value.
LEMMA SayIsReply ==
  \A k \in {"none", "ok", "exists", "not_found", "null"} : Say(k) \in Replies
  BY DEF Say, Replies

\* A step that leaves the map, the heap and the collector alone and answers or
\* takes up a command keeps the invariant.
LEMMA AnswerKeeps ==
  ASSUME IInv, NEW c \in Clients, NEW op \in Ops, NEW k \in Keys,
         NEW r \in Replies, Answer(c, op, k, r), heap' = heap, raced' = raced,
         documents' \in [Keys -> DocRefs \cup {None}],
         \A j \in Keys : documents'[j] \in {documents[j], None}
  PROVE  IInv'
  <1> USE DEF IInv, TypeOK, Answer, Allocated
  <1>1. task' \in [Clients -> Task] /\ HeldRefs'
    <2>1. task'[c] \in Task /\ task'[c].pc = "idle"
      BY AnswerIsTask
    <2>2. Holds(task[c])'
      BY <2>1 DEF Holds
    <2> QED
      BY <2>1, <2>2, TaskKeeps
  <1>2. WellKeyed'
    BY DEF WellKeyed
  <1>3. GcOnlyRaces'
    BY DEF GcOnlyRaces, Expired
  <1> QED
    BY <1>1, <1>2, <1>3

LEMMA BeginKeeps ==
  ASSUME IInv, NEW c \in Clients, NEW op \in Ops, NEW k \in Keys,
         NEW pc \in Pcs, NEW d \in DocRefs \cup {None}, NEW t \in Nat,
         pc # "create" => d = documents[k] /\ d # None,
         Begin(c, op, k, pc, d, t), UNCHANGED <<documents, heap, raced>>
  PROVE  IInv'
  <1> USE DEF IInv, TypeOK, Begin, Allocated
  <1>1. task' \in [Clients -> Task] /\ HeldRefs'
    <2>1. task'[c] \in Task
      BY BeginIsTask
    <2>2. Holds(task[c])'
      BY DEF Holds, WellKeyed
    <2> QED
      BY <2>1, <2>2, TaskKeeps
  <1>2. WellKeyed' /\ GcOnlyRaces'
    BY DEF WellKeyed, GcOnlyRaces, Expired
  <1> QED
    BY <1>1, <1>2

\* The last step of a command leaves its connection idle.
LEMMA FinishKeeps ==
  ASSUME IInv, NEW c \in Clients, NEW r \in Replies, Finish(c, r),
         \A e \in DocRefs : Allocated(e) =>
            Allocated(e)' /\ heap'[e].key = heap[e].key
  PROVE  /\ task' \in [Clients -> Task] /\ HeldRefs'
         /\ UNCHANGED <<now, issued, gc>>
  <1> USE DEF IInv, TypeOK, Finish
  <1>1. task[c].op \in Ops \cup {"none"} /\ task[c].id \in Nat
        /\ task[c].key \in Keys \cup {None}
    BY DEF Task
  <1>2. task'[c] \in Task /\ task'[c].pc = "idle"
    <2>1. task'[c] = Done(task[c].op, task[c].id, task[c].key, r)
      OBVIOUS
    <2> HIDE DEF IInv, TypeOK, Finish
    <2> QED
      BY <1>1, <2>1, AnswerIsTask
  <1>3. Holds(task[c])'
    BY <1>2 DEF Holds
  <1> QED
    BY <1>2, <1>3, TaskKeeps

\* A step that writes one allocated document, keeping its id and creation, and
\* finishes the command keeps the invariant: the TTL may change only if the
\* id becomes `raced`.
LEMMA WriteKeeps ==
  ASSUME IInv, NEW c \in Clients, NEW r \in Replies, Finish(c, r),
         NEW d \in DocRefs, d = task[c].ref, Allocated(d),
         heap[d].key = task[c].key, task[c].key \in Keys,
         heap' = [heap EXCEPT ![d] = heap'[d]], heap'[d] \in Doc,
         heap'[d].key = heap[d].key, heap'[d].created = heap[d].created,
         documents' = documents,
         \/ raced' = raced /\ heap'[d].ttl = heap[d].ttl
         \/ raced' = raced \cup {task[c].key}
  PROVE  IInv'
  <1> USE DEF IInv, TypeOK, Allocated
  <1>1. heap'[d] # None
    BY NoDocAssumption
  <1>2. heap' \in [DocRefs -> Doc \cup {None}]
        /\ \A e \in DocRefs : e # d => heap'[e] = heap[e]
    OBVIOUS
  <1>3. \A e \in DocRefs : Allocated(e) =>
           Allocated(e)' /\ heap'[e].key = heap[e].key
    BY <1>1, <1>2
  <1>4. /\ task' \in [Clients -> Task] /\ HeldRefs'
        /\ UNCHANGED <<now, issued, gc>>
    BY <1>3, FinishKeeps
  <1>5. WellKeyed'
    BY <1>2, <1>3 DEF WellKeyed
  <1>6. GcOnlyRaces'
    <2> SUFFICES ASSUME NEW k \in gc.victims, k \notin raced', documents[k] # None
                 PROVE  Expired(documents[k])'
      BY <1>4 DEF GcOnlyRaces
    <2>1. k \notin raced /\ k \in Keys
      OBVIOUS
    <2>2. Expired(documents[k])
      BY <2>1 DEF GcOnlyRaces
    <2>3. CASE documents[k] = d
      <3>1. k = task[c].key
        BY <2>3, <2>1 DEF WellKeyed
      <3>2. heap'[d].ttl = heap[d].ttl
        BY <3>1
      <3> QED
        BY <2>2, <2>3, <3>2, <1>4 DEF Expired, ExpiredAt
    <2>4. CASE documents[k] # d
      BY <2>1, <2>2, <2>4, <1>2, <1>4 DEF Expired
    <2> QED
      BY <2>3, <2>4
  <1> QED
    BY <1>2, <1>4, <1>5, <1>6

\* Making a document and taking up, or finishing, a command keeps the invariant.
LEMMA CreateInsertKeeps ==
  ASSUME IInv, NEW c \in Clients, CreateInsert(c)
  PROVE  IInv'
  <1> USE DEF IInv, TypeOK
  <1>1. task[c].pc = "create" /\ task[c].key \in Keys /\ task[c].ttl \in Nat
    BY DEF CreateInsert, HeldRefs, Task
  <1>2. PICK d \in DocRefs : Install(d, task[c].key, task[c].ttl)
    BY DEF CreateInsert
  <1>3. Finish(c, Say("ok")) /\ Say("ok") \in Replies
    BY SayIsReply DEF CreateInsert
  <1>4. UNCHANGED <<now, gc, issued>>
    BY <1>3 DEF Finish
  <1>5. /\ documents' \in [Keys -> DocRefs \cup {None}]
        /\ heap' \in [DocRefs -> Doc \cup {None}]
        /\ raced' \in SUBSET Keys
        /\ WellKeyed' /\ GcOnlyRaces'
        /\ \A e \in DocRefs : Allocated(e) => heap'[e] = heap[e]
    BY <1>1, <1>2, <1>4, InstallKeeps
  <1>6. task' \in [Clients -> Task] /\ HeldRefs'
    BY <1>3, <1>5, FinishKeeps DEF Allocated
  <1> QED
    BY <1>4, <1>5, <1>6

LEMMA GetOrCreateKeeps ==
  ASSUME IInv, NEW c \in Clients, NEW k \in Keys, NEW op \in {"SET", "INC"},
         GetOrCreate(c, op, k)
  PROVE  IInv'
  <1>0. op \in Ops
    BY DEF GetOrCreate, Begin
  <1>p. "write" \in Pcs /\ NoTTL \in Nat
    BY DEF Pcs, NoTTL
  <1>1. CASE /\ documents[k] # None
             /\ Begin(c, op, k, "write", documents[k], NoTTL)
             /\ UNCHANGED <<documents, heap, raced>>
    BY <1>0, <1>1, <1>p, BeginKeeps DEF IInv, TypeOK
  <1>2. ASSUME NEW d \in DocRefs, Install(d, k, NoTTL),
               Begin(c, op, k, "write", d, NoTTL)
        PROVE  IInv'
    <2> USE DEF IInv, TypeOK
    <2>1. UNCHANGED <<now, gc>> /\ issued' \in Nat
      BY <1>2 DEF Begin
    <2>2. /\ documents' \in [Keys -> DocRefs \cup {None}]
          /\ heap' \in [DocRefs -> Doc \cup {None}]
          /\ raced' \in SUBSET Keys
          /\ WellKeyed' /\ GcOnlyRaces'
          /\ heap'[d] # None /\ heap'[d].key = k
          /\ \A e \in DocRefs : Allocated(e) => heap'[e] = heap[e]
      BY <1>2, <1>p, <2>1, InstallKeeps
    <2>3. task'[c] \in Task /\ task'[c].key = k /\ task'[c].ref = d
          /\ task' = [task EXCEPT ![c] = task'[c]]
      BY <1>0, <1>2, <1>p, BeginIsTask DEF Begin
    <2>4. Holds(task[c])'
      BY <2>2, <2>3 DEF Holds, Allocated
    <2>5. task' \in [Clients -> Task] /\ HeldRefs'
      BY <2>2, <2>3, <2>4, TaskKeeps DEF Allocated
    <2> QED
      BY <2>1, <2>2, <2>5
  <1> QED
    BY <1>1, <1>2 DEF GetOrCreate

\* What IInv says of the task a Proceed step is about.
LEMMA BusyTask ==
  ASSUME IInv, NEW c \in Clients, task[c].pc \in Pcs \ {"idle", "create"}
  PROVE  /\ task[c].ref \in DocRefs /\ Allocated(task[c].ref)
         /\ heap[task[c].ref] \in Doc /\ heap[task[c].ref].key = task[c].key
         /\ task[c].key \in Keys /\ task[c].ttl \in Nat /\ task[c].id \in Nat
  BY DEF IInv, TypeOK, HeldRefs, Task, Allocated

LEMMA ReadKeeps ==
  ASSUME IInv, NEW c \in Clients, Read(c)
  PROVE  IInv'
  <1> DEFINE r == [kind |-> "value", val |-> heap[task[c].ref].val,
                   count |-> heap[task[c].ref].count]
  <1>1. r \in Replies
    BY BusyTask DEF Read, Pcs, Replies, Doc
  <1>2. Finish(c, r) /\ UNCHANGED <<documents, heap, raced>>
    BY DEF Read
  <1> HIDE DEF r
  <1>3. task' \in [Clients -> Task] /\ HeldRefs' /\ UNCHANGED <<now, issued, gc>>
    BY <1>1, <1>2, FinishKeeps DEF Allocated
  <1> QED
    BY <1>2, <1>3 DEF IInv, TypeOK, WellKeyed, GcOnlyRaces, Expired, Allocated

LEMMA WriteStepKeeps ==
  ASSUME IInv, NEW c \in Clients, Write(c)
  PROVE  IInv'
  <1> DEFINE t == task[c]
             doc == heap[t.ref]
             new == IF t.op = "SET" THEN [doc EXCEPT !.val = t.id]
                                    ELSE [doc EXCEPT !.count = @ + 1]
             r == IF t.op = "SET" THEN Say("ok")
                  ELSE [kind |-> "integer", value |-> new.count]
  <1>1. /\ t.ref \in DocRefs /\ Allocated(t.ref) /\ doc \in Doc
        /\ doc.key = t.key /\ t.key \in Keys /\ t.id \in Nat
    BY BusyTask DEF Write, Pcs
  <1>2. new \in Doc /\ new.key = doc.key /\ new.created = doc.created /\ new.ttl = doc.ttl
    BY <1>1 DEF Doc
  <1>3. r \in Replies
    BY <1>2, SayIsReply DEF Replies, Doc
  <1>4. /\ heap' = [heap EXCEPT ![t.ref] = UpdateVersion(new)]
        /\ Finish(c, r) /\ UNCHANGED <<documents, raced>>
    BY DEF Write
  <1> HIDE DEF new, r
  <1>5. heap'[t.ref] = UpdateVersion(new)
    BY <1>1, <1>4 DEF IInv, TypeOK
  <1>6. /\ heap'[t.ref] \in Doc /\ heap'[t.ref].key = doc.key
        /\ heap'[t.ref].created = doc.created /\ heap'[t.ref].ttl = doc.ttl
    BY <1>2, <1>5 DEF Doc, UpdateVersion
  <1>7. heap' = [heap EXCEPT ![t.ref] = heap'[t.ref]]
    BY <1>4, <1>5
  <1> QED
    BY <1>1, <1>3, <1>4, <1>6, <1>7, WriteKeeps

LEMMA DeletePathKeeps ==
  ASSUME IInv, NEW c \in Clients, DeletePath(c)
  PROVE  IInv'
  <1> DEFINE d == task[c].ref
             nulled == [heap[d] EXCEPT !.val = NoValue]
             new == UpdateVersion(nulled)
  <1>1. /\ d \in DocRefs /\ Allocated(d) /\ heap[d] \in Doc
        /\ heap[d].key = task[c].key /\ task[c].key \in Keys
    BY BusyTask DEF DeletePath, Pcs
  <1>2. heap' = [heap EXCEPT ![d] = new] /\ UNCHANGED <<documents, raced>>
    BY <1>1 DEF DeletePath, IInv, TypeOK
  <1>3. Finish(c, Say("ok")) /\ Say("ok") \in Replies
    BY SayIsReply DEF DeletePath
  <1>4. new \in Doc /\ new.key = heap[d].key
        /\ new.created = heap[d].created /\ new.ttl = heap[d].ttl
    <2>1. nulled \in Doc /\ nulled.key = heap[d].key
          /\ nulled.created = heap[d].created /\ nulled.ttl = heap[d].ttl
      BY <1>1 DEF Doc, NoValue
    <2> HIDE DEF nulled
    <2> QED
      BY <2>1 DEF Doc, UpdateVersion
  <1>5. heap'[d] = new /\ heap' = [heap EXCEPT ![d] = heap'[d]]
    BY <1>1, <1>2 DEF IInv, TypeOK
  <1> HIDE DEF new
  <1> QED
    BY <1>1, <1>2, <1>3, <1>4, <1>5, WriteKeeps

LEMMA SetTTLKeeps ==
  ASSUME IInv, NEW c \in Clients, SetTTL(c)
  PROVE  IInv'
  <1> DEFINE d == task[c].ref
             new == [heap[d] EXCEPT !.ttl = task[c].ttl]
  <1>1. /\ d \in DocRefs /\ Allocated(d) /\ heap[d] \in Doc /\ task[c].ttl \in Nat
        /\ heap[d].key = task[c].key /\ task[c].key \in Keys
    BY BusyTask DEF SetTTL, Pcs
  <1>2. heap' = [heap EXCEPT ![d] = new]
        /\ UNCHANGED documents /\ raced' = raced \cup {task[c].key}
    BY <1>1 DEF SetTTL, IInv, TypeOK
  <1>3. Finish(c, Say("ok")) /\ Say("ok") \in Replies
    BY SayIsReply DEF SetTTL
  <1>4. new \in Doc /\ new.key = heap[d].key /\ new.created = heap[d].created
    BY <1>1 DEF Doc
  <1>5. heap'[d] = new /\ heap' = [heap EXCEPT ![d] = heap'[d]]
    BY <1>1, <1>2 DEF IInv, TypeOK
  <1> HIDE DEF new
  <1> QED
    BY <1>1, <1>2, <1>3, <1>4, <1>5, WriteKeeps

-----------------------------------------------------------------------------
\* Every step of a connection keeps the invariant.
LEMMA CommandKeeps ==
  ASSUME IInv, NEW c \in Clients, Command(c)
  PROVE  IInv'
  <1> USE SayIsReply
  <1>t. \A t \in TTLs \cup {NoTTL} : t \in Nat
    BY TTLAssumption DEF NoTTL
  <1>n. NoTTL \in Nat /\ {"create", "read", "delete_path", "set_ttl"} \subseteq Pcs
    BY DEF NoTTL, Pcs
  <1>d. documents \in [Keys -> DocRefs \cup {None}]
    BY DEF IInv, TypeOK
  <1>1. ASSUME NEW k \in Keys, NEW t \in TTLs \cup {NoTTL}, CreateCheck(c, k, t)
        PROVE  IInv'
    <2>1. CASE Answer(c, "CREATE", k, Say("exists")) /\ UNCHANGED <<documents, heap, raced>>
      BY <2>1, <1>d, AnswerKeeps DEF Answer
    <2>2. CASE Begin(c, "CREATE", k, "create", None, t) /\ UNCHANGED <<documents, heap, raced>>
      BY <2>2, <1>t, <1>n, BeginKeeps DEF Begin
    <2> QED
      BY <1>1, <2>1, <2>2 DEF CreateCheck
  <1>2. ASSUME NEW k \in Keys, NEW t \in TTLs \cup {NoTTL}, FindForExpire(c, k, t)
        PROVE  IInv'
    <2>1. CASE Answer(c, "EXPIRE", k, Say("not_found")) /\ UNCHANGED <<documents, heap, raced>>
      BY <2>1, <1>d, AnswerKeeps DEF Answer
    <2>2. CASE /\ documents[k] # None
               /\ Begin(c, "EXPIRE", k, "set_ttl", documents[k], t)
               /\ UNCHANGED <<documents, heap, raced>>
      BY <2>2, <1>d, <1>t, <1>n, BeginKeeps DEF Begin
    <2> QED
      BY <1>2, <2>1, <2>2 DEF FindForExpire
  <1>3. ASSUME NEW k \in Keys, NEW op \in {"SET", "INC"}, GetOrCreate(c, op, k)
        PROVE  IInv'
    BY <1>3, GetOrCreateKeeps
  <1>4. ASSUME NEW k \in Keys, Get(c, k)
        PROVE  IInv'
    <2>1. CASE Answer(c, "GET", k, Say("null")) /\ UNCHANGED <<documents, heap, raced>>
      BY <2>1, <1>d, AnswerKeeps DEF Answer
    <2>2. CASE /\ documents[k] # None
               /\ Begin(c, "GET", k, "read", documents[k], NoTTL)
               /\ UNCHANGED <<documents, heap, raced>>
      BY <2>2, <1>d, <1>n, BeginKeeps DEF Begin
    <2> QED
      BY <1>4, <2>1, <2>2 DEF Get
  <1>5. ASSUME NEW k \in Keys, Delete(c, k)
        PROVE  IInv'
    <2>1. PICK r \in {Say("not_found"), Say("ok")} : Answer(c, "DEL", k, r)
      BY <1>5 DEF Delete
    <2>2. /\ documents' = [documents EXCEPT ![k] = None]
          /\ heap' = heap /\ raced' = raced
      BY <1>5 DEF Delete
    <2>3. "DEL" \in Ops
      BY <2>1 DEF Answer
    <2>4. r \in Replies
      BY <2>1
    <2> QED
      BY <2>1, <2>2, <2>3, <2>4, <1>d, AnswerKeeps
  <1>6. ASSUME NEW k \in Keys, FindForDeletePath(c, k)
        PROVE  IInv'
    <2>1. CASE Answer(c, "DELPATH", k, Say("not_found")) /\ UNCHANGED <<documents, heap, raced>>
      BY <2>1, <1>d, AnswerKeeps DEF Answer
    <2>2. CASE /\ documents[k] # None
               /\ Begin(c, "DELPATH", k, "delete_path", documents[k], NoTTL)
               /\ UNCHANGED <<documents, heap, raced>>
      BY <2>2, <1>d, <1>n, BeginKeeps DEF Begin
    <2> QED
      BY <1>6, <2>1, <2>2 DEF FindForDeletePath
  <1> QED
    BY <1>1, <1>2, <1>3, <1>4, <1>5, <1>6 DEF Command

LEMMA ProceedKeeps ==
  ASSUME IInv, NEW c \in Clients, Proceed(c)
  PROVE  IInv'
  BY CreateInsertKeeps, ReadKeeps, WriteStepKeeps, DeletePathKeeps, SetTTLKeeps
     DEF Proceed

\* ... and so does every step of the collector, and of the clock: a document
\* that has expired stays so while nobody touches its TTL.
LEMMA GcKeeps ==
  ASSUME IInv, GcStep
  PROVE  IInv'
  <1> USE DEF IInv, TypeOK, HeldRefs, WellKeyed, GcOnlyRaces, Allocated, Expired
  <1>1. CASE GcSweep
    BY <1>1 DEF GcSweep
  <1>2. ASSUME NEW k \in Keys, GcScan(k) PROVE IInv'
    BY <1>2 DEF GcScan
  <1>3. ASSUME NEW k \in Keys, GcRemove(k) PROVE IInv'
    BY <1>3 DEF GcRemove
  <1> QED
    BY <1>1, <1>2, <1>3 DEF GcStep

LEMMA TickKeeps ==
  ASSUME IInv, Tick
  PROVE  IInv'
  <1> USE DEF IInv, TypeOK, Tick
  <1>1. WellKeyed' /\ HeldRefs'
    BY DEF WellKeyed, HeldRefs, Allocated
  <1>2. GcOnlyRaces'
    <2> SUFFICES ASSUME NEW k \in gc.victims \ raced, documents[k] # None
                 PROVE  Expired(documents[k])'
      BY DEF GcOnlyRaces
    <2>1. Expired(documents[k]) /\ heap[documents[k]] \in Doc
      BY DEF GcOnlyRaces, WellKeyed, Allocated
    <2> QED
      BY <2>1 DEF Expired, ExpiredAt, Doc
  <1> QED
    BY <1>1, <1>2

LEMMA NextIInv == IInv /\ [Next]_vars => IInv'
  <1> SUFFICES ASSUME IInv, [Next]_vars PROVE IInv'
    OBVIOUS
  <1>1. CASE UNCHANGED vars
    BY <1>1 DEF vars, IInv, TypeOK, WellKeyed, HeldRefs, GcOnlyRaces, Expired, Allocated
  <1> QED
    BY <1>1, CommandKeeps, ProceedKeeps, GcKeeps, TickKeeps DEF Next

\* In every reachable state the map, the heap, the Arcs the handlers hold and
\* the collector's victims fit together (manager.rs and document.rs).
THEOREM Invariance == Spec => []IInv
  BY InitIInv, NextIInv, PTL DEF Spec

\* gc() takes a document that has not expired only when a client created it,
\* or changed its TTL, since the sweep began.
THEOREM GcSafety == Spec => []GcOnlyRaces
  <1>1. IInv => GcOnlyRaces
    BY DEF IInv
  <1> QED
    BY <1>1, Invariance, PTL

-----------------------------------------------------------------------------
\* What OnlyEvictionsLose allows a step to do to the document under k.
Keeps(k) ==
    documents[k] # None /\ documents'[k] # documents[k] =>
        \/ k \in gc.victims \ gc'.victims
        \/ \E c \in Clients : task'[c] = Done("DEL", issued + 1, k, Say("ok"))
        \/ \E c \in Clients : task[c].pc = "create" /\ task[c].key = k
                              /\ task'[c].pc = "idle"

LEMMA NextKeepsDocuments ==
  ASSUME IInv, Next, NEW k \in Keys
  PROVE  Keeps(k)
  <1> USE DEF IInv, TypeOK
  <1>1. ASSUME NEW c \in Clients, CreateInsert(c) PROVE Keeps(k)
    <2>1. task'[c].pc = "idle"
      BY <1>1 DEF CreateInsert, Finish, Done
    <2> QED
      BY <1>1, <2>1 DEF CreateInsert, Install, Keeps
  <1>2. ASSUME NEW c \in Clients, NEW j \in Keys, Delete(c, j) PROVE Keeps(k)
    <2>1. CASE j = k
      BY <1>2, <2>1 DEF Delete, Answer, Keeps
    <2>2. CASE j # k
      BY <1>2, <2>2 DEF Delete, Keeps
    <2> QED
      BY <2>1, <2>2
  <1>3. ASSUME NEW c \in Clients, NEW j \in Keys, NEW op \in {"SET", "INC"},
               GetOrCreate(c, op, j)
        PROVE  Keeps(k)
    BY <1>3 DEF GetOrCreate, Install, Keeps
  <1>4. ASSUME NEW j \in Keys, GcRemove(j) PROVE Keeps(k)
    BY <1>4 DEF GcRemove, Keeps
  <1>5. ASSUME documents' = documents PROVE Keeps(k)
    BY <1>5 DEF Keeps
  <1>6. ASSUME NEW c \in Clients, Command(c) PROVE Keeps(k)
    BY <1>6, <1>2, <1>3, <1>5 DEF Command, CreateCheck, FindForExpire, Get, FindForDeletePath
  <1>7. ASSUME NEW c \in Clients, Proceed(c) PROVE Keeps(k)
    BY <1>7, <1>1, <1>5 DEF Proceed, Read, Write, DeletePath, SetTTL
  <1>8. CASE GcStep
    BY <1>8, <1>4, <1>5 DEF GcStep, GcSweep, GcScan
  <1>9. CASE Tick
    BY <1>9, <1>5 DEF Tick
  <1> QED
    BY <1>6, <1>7, <1>8, <1>9 DEF Next

\* A SET, PUSH or INC never displaces a document, nor does any other step but
\* a DEL of that id, the collector, or a CREATE that had found the id free.
THEOREM EvictionSafety == Spec => OnlyEvictionsLose
  <1>1. IInv /\ [Next]_vars => [\A k \in Keys : Keeps(k)]_vars
    BY NextKeepsDocuments
  <1>2. Spec => [][\A k \in Keys : Keeps(k)]_vars
    BY <1>1, Invariance, PTL DEF Spec
  <1> QED
    BY <1>2 DEF OnlyEvictionsLose, Keeps

-----------------------------------------------------------------------------
(***************************************************************************)
(* BackupRestore.                                                          *)
(***************************************************************************)
\* What a BACKUP or RESTORE in progress is made of.
Entry == [key : Keys, text : BOOLEAN, state : Nat, due : BOOLEAN, ttl : Int]

Job ==
    [pc : {"idle"}]
    \cup [pc : {"iterate"}, todo : SUBSET Keys, entries : SUBSET Entry]
    \cup [pc : {"state", "ttl"}, todo : SUBSET Keys, entries : SUBSET Entry,
          key : Keys, state : Nat]
    \cup [pc : {"restore"}, todo : SUBSET Entry]
    \cup [pc : {"persist"}, todo : SUBSET Keys]

BTypeOK ==
    /\ text \in SUBSET DocRefs /\ job \in Job /\ backup \in SUBSET Entry
    /\ saved \in [Keys -> Nat] /\ jobs \in Nat
    /\ span \in Nat \X Nat
    /\ states \in [Keys -> SUBSET Int] /\ deadlines \in [Keys -> SUBSET Int]
    /\ gone \in SUBSET Keys

\* A document counts its creation as a write.
Versioned == \A d \in DocRefs : Allocated(d) => heap[d].version > 0

\* What is recorded includes what is there, and the entry the iterator is at
\* is there.
SeenInv ==
    /\ InBackup => \A k \in Keys : StatesNow(k) \subseteq states[k]
                                   /\ DeadlinesNow(k) \subseteq deadlines[k]
    /\ InBackup => span[1] <= now
    /\ job.pc \in {"state", "ttl"} => documents[job.key] # None

\* An entry of a backup has a state of its id, and an id without one was absent.
RegularInv ==
    InBackup =>
        /\ \A e \in job.entries : e.state \in states[e.key]
        /\ job.pc = "ttl" => job.state \in states[job.key]
        /\ \A k \in Keys \ job.todo :
              \/ \E e \in job.entries : e.key = k
              \/ job.pc # "iterate" /\ k = job.key
              \/ Absent \in states[k]

\* The TTL of an entry, in a backup that ends at `end`.
TtlFits(e, end) ==
    IF RestoredTtl(e) = NoTTL
    THEN \E t \in deadlines[e.key] : t = Forever \/ t <= end
    ELSE \E t \in deadlines[e.key] : RestoredTtl(e) <= t - span[1]

TtlInv ==
    IF InBackup THEN \A e \in job.entries : TtlFits(e, now)
    ELSE \A e \in backup : TtlFits(e, span[2])

\* What is restored stays there until it is taken away, and what is stored
\* has a version.
RestoreInv ==
    /\ job.pc = "restore" => \A e \in backup \ job.todo : documents[e.key] # None \/ e.key \in gone
    /\ job.pc = "persist" => \A e \in backup :
          IF e.key \in job.todo THEN documents[e.key] # None \/ e.key \in gone
          ELSE saved[e.key] # 0 \/ e.key \in gone

BInv == BTypeOK /\ Versioned /\ SeenInv /\ RegularInv /\ TtlInv /\ RestoreInv
-----------------------------------------------------------------------------
LEMMA JobFields ==
    ASSUME job \in Job
    PROVE  /\ job.pc \in {"idle", "iterate", "state", "ttl", "restore", "persist"}
           /\ job.pc \in {"iterate", "state", "ttl", "persist"} => job.todo \in SUBSET Keys
           /\ job.pc \in {"iterate", "state", "ttl"} => job.entries \in SUBSET Entry
           /\ job.pc \in {"state", "ttl"} => job.key \in Keys /\ job.state \in Nat
           /\ job.pc = "restore" => job.todo \in SUBSET Entry
           /\ job.pc = "state" =>
                 \A n \in Nat : LET j == [job EXCEPT !.pc = "ttl", !.state = n]
                                IN  /\ j \in Job /\ j.pc = "ttl" /\ j.todo = job.todo
                                    /\ j.entries = job.entries /\ j.key = job.key
                                    /\ j.state = n
           /\ job.pc # "idle" =>
                 \A S : LET j == [job EXCEPT !.todo = @ \ S]
                       IN  /\ j \in Job /\ j.pc = job.pc /\ j.todo = job.todo \ S
                           /\ InBackup => j.entries = job.entries
                           /\ job.pc \in {"state", "ttl"} => j.key = job.key /\ j.state = job.state
<1>1. CASE job \in [pc : {"idle"}]
  BY <1>1
<1>2. CASE job \in [pc : {"iterate"}, todo : SUBSET Keys, entries : SUBSET Entry]
  BY <1>2 DEF Job, InBackup
<1>3. CASE job \in [pc : {"state", "ttl"}, todo : SUBSET Keys, entries : SUBSET Entry,
                     key : Keys, state : Nat]
  BY <1>3 DEF Job, InBackup
<1>4. CASE job \in [pc : {"restore"}, todo : SUBSET Entry]
  BY <1>4 DEF Job, InBackup
<1>5. CASE job \in [pc : {"persist"}, todo : SUBSET Keys]
  BY <1>5 DEF Job, InBackup
<1> QED BY <1>1, <1>2, <1>3, <1>4, <1>5 DEF Job

LEMMA NewJobs ==
    /\ NoJob \in Job /\ NoJob.pc = "idle"
    /\ \A T \in SUBSET Keys, E \in SUBSET Entry :
          [pc |-> "iterate", todo |-> T, entries |-> E] \in Job
    /\ \A T \in SUBSET Keys, E \in SUBSET Entry, k \in Keys :
          [pc |-> "state", todo |-> T, entries |-> E, key |-> k, state |-> NoValue] \in Job
    /\ \A T \in SUBSET Entry : [pc |-> "restore", todo |-> T] \in Job
    /\ \A T \in SUBSET Keys : [pc |-> "persist", todo |-> T] \in Job
  BY DEF NoJob, Job, NoValue

\* What is recorded is numbers.
LEMMA NowTyped ==
    ASSUME TypeOK, WellKeyed, NEW k \in Keys
    PROVE  /\ StatesNow(k) \subseteq Int /\ DeadlinesNow(k) \subseteq Int
           /\ documents[k] # None => EncodeState(documents[k]) \in Nat
<1>1. documents[k] # None => documents[k] \in DocRefs /\ heap[documents[k]] \in Doc
  BY DEF TypeOK, WellKeyed, Allocated
<1>2. documents[k] # None => EncodeState(documents[k]) \in Nat
  BY <1>1 DEF EncodeState, Doc, NoValue
<1>3. StatesNow(k) \subseteq Int
  BY <1>2 DEF StatesNow, Absent
<1>4. DeadlinesNow(k) \subseteq Int
  <2> SUFFICES ASSUME NEW d \in {documents[k]} \ {None}
               PROVE  (IF heap[d].ttl = NoTTL THEN Forever ELSE heap[d].created + heap[d].ttl) \in Int
    BY DEF DeadlinesNow
  <2>1. heap[d] \in Doc
    BY <1>1
  <2> QED BY <2>1 DEF Doc, Forever
<1> QED BY <1>2, <1>3, <1>4

LEMMA NowTypedNext ==
    ASSUME TypeOK', WellKeyed', NEW k \in Keys
    PROVE  StatesNow(k)' \subseteq Int /\ DeadlinesNow(k)' \subseteq Int
<1>1. documents'[k] # None => documents'[k] \in DocRefs /\ heap'[documents'[k]] \in Doc
  BY DEF TypeOK, WellKeyed, Allocated
<1>2. StatesNow(k)' \subseteq Int
  BY <1>1 DEF StatesNow, Absent, EncodeState, Doc, NoValue
<1>3. DeadlinesNow(k)' \subseteq Int
  <2> SUFFICES ASSUME NEW d \in {documents'[k]} \ {None}
               PROVE  (IF heap'[d].ttl = NoTTL THEN Forever ELSE heap'[d].created + heap'[d].ttl) \in Int
    BY DEF DeadlinesNow
  <2>1. heap'[d] \in Doc
    BY <1>1
  <2> QED BY <2>1 DEF Doc, Forever
<1> QED BY <1>2, <1>3

LEMMA SameNow ==
    ASSUME UNCHANGED <<vars, text>>
    PROVE  \A k \in Keys : StatesNow(k)' = StatesNow(k) /\ DeadlinesNow(k)' = DeadlinesNow(k)
  BY DEF vars, StatesNow, DeadlinesNow, EncodeState, Expired

LEMMA ClockGoesOn == TypeOK /\ Next => now' \in Nat /\ now <= now'
<1> SUFFICES ASSUME TypeOK, Next PROVE now' \in {now, now + 1}
  BY DEF TypeOK
<1>1. ASSUME NEW c \in Clients, Command(c) \/ Proceed(c) PROVE now' = now
  BY <1>1 DEF Command, Proceed, CreateCheck, FindForExpire, GetOrCreate, Get, Delete,
              FindForDeletePath, CreateInsert, Read, Write, DeletePath, SetTTL,
              Begin, Answer, Finish
<1>2. GcStep => now' = now
  BY DEF GcStep, GcSweep, GcScan, GcRemove
<1> QED BY <1>1, <1>2 DEF Next, Tick

\* Every write to a document goes through update_version, or leaves its version.
LEMMA NextVersions ==
    ASSUME IInv, Versioned, Next
    PROVE  Versioned'
<1> USE DEF Versioned, Allocated
<1>1. ASSUME heap' = heap PROVE Versioned'
  BY <1>1
<1>2. ASSUME NEW d \in DocRefs, NEW k, NEW t, Install(d, k, t) PROVE Versioned'
  BY <1>2 DEF IInv, TypeOK, Install, NewDocument
<1>3. ASSUME NEW d \in DocRefs, NEW doc \in Doc, heap' = [heap EXCEPT ![d] = doc],
             doc.version > 0
      PROVE  Versioned'
  BY <1>3 DEF IInv, TypeOK
<1>4. ASSUME NEW c \in Clients, Command(c) PROVE Versioned'
  BY <1>1, <1>2, <1>4
     DEF Command, CreateCheck, FindForExpire, GetOrCreate, Get, Delete, FindForDeletePath
<1>5. ASSUME NEW c \in Clients, Proceed(c) PROVE Versioned'
  <2>1. CASE CreateInsert(c)
    BY <1>2, <2>1 DEF CreateInsert
  <2>2. CASE Read(c)
    BY <1>1, <2>2 DEF Read
  <2>3. CASE Write(c)
    <3> DEFINE t == task[c]
               doc == heap[t.ref]
               new == IF t.op = "SET" THEN [doc EXCEPT !.val = t.id]
                                      ELSE [doc EXCEPT !.count = @ + 1]
    <3>1. t.ref \in DocRefs /\ doc \in Doc /\ t.id \in Nat
      BY <2>3, BusyTask DEF Write, Pcs
    <3>2. new \in Doc
      BY <3>1 DEF Doc
    <3>3. heap' = [heap EXCEPT ![t.ref] = UpdateVersion(new)]
      BY <2>3 DEF Write
    <3> HIDE DEF new
    <3>4. UpdateVersion(new) \in Doc /\ UpdateVersion(new).version > 0
      BY <3>2 DEF UpdateVersion, Doc
    <3> QED BY <1>3, <3>1, <3>3, <3>4
  <2>4. CASE DeletePath(c)
    <3> DEFINE d == task[c].ref
               nulled == [heap[d] EXCEPT !.val = NoValue]
    <3>1. d \in DocRefs /\ heap[d] \in Doc
      BY <2>4, BusyTask DEF DeletePath, Pcs
    <3>2. nulled \in Doc
      BY <3>1 DEF Doc, NoValue
    <3>3. heap' = [heap EXCEPT ![d] = UpdateVersion(nulled)]
      BY <2>4, <3>1 DEF DeletePath, IInv, TypeOK
    <3> HIDE DEF nulled
    <3>4. UpdateVersion(nulled) \in Doc /\ UpdateVersion(nulled).version > 0
      BY <3>2 DEF UpdateVersion, Doc
    <3> QED BY <1>3, <3>1, <3>3, <3>4
  <2>5. CASE SetTTL(c)
    <3> DEFINE d == task[c].ref
               new == [heap[d] EXCEPT !.ttl = task[c].ttl]
    <3>1. d \in DocRefs /\ heap[d] \in Doc /\ heap[d] # None /\ task[c].ttl \in Nat
      BY <2>5, BusyTask, NoDocAssumption DEF SetTTL, Pcs
    <3>2. new \in Doc /\ new.version > 0
      BY <3>1 DEF Doc
    <3>3. heap' = [heap EXCEPT ![d] = new]
      BY <2>5, <3>1 DEF SetTTL, IInv, TypeOK
    <3> QED BY <1>3, <3>1, <3>2, <3>3
  <2> QED BY <1>5, <2>1, <2>2, <2>3, <2>4, <2>5 DEF Proceed
<1>6. CASE GcStep
  BY <1>1, <1>6 DEF GcStep, GcSweep, GcScan, GcRemove
<1>7. CASE Tick
  BY <1>1, <1>7 DEF Tick
<1> QED BY <1>4, <1>5, <1>6, <1>7 DEF Next

LEMMA BInitHolds == BInit => IInv /\ BInv
<1> SUFFICES ASSUME BInit PROVE IInv /\ BInv
  OBVIOUS
<1>1. IInv
  BY InitIInv DEF BInit
<1>2. BTypeOK
  BY NewJobs DEF BInit, BTypeOK
<1>3. Versioned
  BY DEF BInit, Init, Versioned, Allocated
<1>4. job.pc = "idle" /\ backup = {}
  BY NewJobs DEF BInit
<1> QED BY <1>1, <1>2, <1>3, <1>4 DEF BInv, SeenInv, RegularInv, TtlInv, RestoreInv, InBackup

\* What everybody else does while a BACKUP or RESTORE is under way.
LEMMA ServeKeeps ==
    ASSUME IInv, BInv, Serve
    PROVE  IInv' /\ BInv'
<1>0. /\ UNCHANGED <<job, backup, saved, jobs, span>>
      /\ gone' = gone \cup {k \in Keys : documents'[k] = None}
      /\ \A k \in Keys : Held(k) => documents'[k] = documents[k]
  BY DEF Serve
<1>1. IInv' /\ Versioned' /\ now' \in Nat /\ now <= now'
  BY NextIInv, NextVersions, ClockGoesOn DEF Serve, BInv, IInv
<1>2. text' \in SUBSET DocRefs
  BY DEF Serve, BInv, BTypeOK
<1>3. \A k \in Keys : StatesNow(k)' \subseteq Int /\ DeadlinesNow(k)' \subseteq Int
  BY <1>1, NowTypedNext DEF IInv
<1>4. /\ states' \in [Keys -> SUBSET Int] /\ deadlines' \in [Keys -> SUBSET Int]
      /\ \A k \in Keys : states[k] \subseteq states'[k] /\ deadlines[k] \subseteq deadlines'[k]
      /\ InBackup => \A k \in Keys : StatesNow(k)' \subseteq states'[k]
                                     /\ DeadlinesNow(k)' \subseteq deadlines'[k]
  <2>1. states \in [Keys -> SUBSET Int] /\ deadlines \in [Keys -> SUBSET Int]
    BY DEF BInv, BTypeOK
  <2>2. CASE InBackup
    <3>1. /\ states' = [k \in Keys |-> states[k] \cup StatesNow(k)']
          /\ deadlines' = [k \in Keys |-> deadlines[k] \cup DeadlinesNow(k)']
      BY <2>2 DEF Serve, ObserveBackup, Observe
    <3> QED BY <1>3, <2>1, <3>1
  <2>3. CASE ~InBackup
    <3>1. states' = states /\ deadlines' = deadlines
      BY <2>3 DEF Serve, ObserveBackup
    <3> QED BY <2>1, <2>3, <3>1
  <2> QED BY <2>2, <2>3
<1>5. BTypeOK'
  BY <1>0, <1>2, <1>4 DEF BInv, BTypeOK
<1>6. SeenInv'
  <2>1. job.pc \in {"state", "ttl"} => documents'[job.key] # None
    BY <1>0, JobFields DEF BInv, BTypeOK, SeenInv, Held
  <2>2. InBackup' <=> InBackup
    BY <1>0 DEF InBackup
  <2>3. InBackup => span[1] <= now'
    BY <1>1 DEF BInv, SeenInv, BTypeOK, IInv, TypeOK
  <2> QED BY <1>0, <1>4, <2>1, <2>2, <2>3 DEF SeenInv
<1>7. RegularInv'
  <2>1. InBackup => /\ job.entries \in SUBSET Entry
                    /\ job.pc = "ttl" => job.key \in Keys
    BY JobFields DEF BInv, BTypeOK, InBackup
  <2>2. InBackup' <=> InBackup
    BY <1>0 DEF InBackup
  <2>3. \A e \in Entry : e.key \in Keys
    BY DEF Entry
  <2> QED BY <1>0, <1>4, <2>1, <2>2, <2>3 DEF BInv, RegularInv
<1>8. TtlInv'
  <2>1. \A e \in Entry : e.key \in Keys
    BY DEF Entry
  <2>2. ASSUME NEW e \in Entry, NEW old \in Int, NEW new \in Int, old <= new,
               TtlFits(e, old)
        PROVE  TtlFits(e, new)'
    BY <1>0, <1>4, <2>1, <2>2 DEF TtlFits, RestoredTtl, BInv, BTypeOK
  <2>3. CASE InBackup
    <3>1. InBackup' /\ job'.entries = job.entries /\ job.entries \in SUBSET Entry
      BY <1>0, <2>3, JobFields DEF InBackup, BInv, BTypeOK
    <3>2. \A e \in job.entries : TtlFits(e, now)'
      BY <1>1, <2>2, <2>3, <3>1 DEF BInv, TtlInv, IInv, TypeOK
    <3> QED BY <3>1, <3>2 DEF TtlInv
  <2>4. CASE ~InBackup
    <3>1. ~InBackup' /\ deadlines' = deadlines
      BY <1>0, <2>4 DEF InBackup, Serve, ObserveBackup
    <3>2. \A e \in backup : TtlFits(e, span[2])'
      BY <1>0, <2>4, <3>1 DEF BInv, TtlInv, TtlFits, RestoredTtl
    <3> QED BY <1>0, <3>1, <3>2 DEF TtlInv
  <2> QED BY <2>3, <2>4
<1>9. RestoreInv'
  <2>1. \A e \in backup : e.key \in Keys
    BY DEF BInv, BTypeOK, Entry
  <2> QED BY <1>0, <2>1 DEF BInv, RestoreInv
<1> QED BY <1>1, <1>5, <1>6, <1>7, <1>8, <1>9 DEF BInv

\* The steps of BACKUP and RESTORE that leave the documents alone.
LEMMA DocumentsSame ==
    ASSUME IInv, BInv, UNCHANGED <<vars, text>>
    PROVE  /\ IInv' /\ Versioned' /\ text' \in SUBSET DocRefs
           /\ documents' = documents /\ heap' = heap /\ now' = now
           /\ \A k \in Keys : StatesNow(k)' = StatesNow(k) /\ DeadlinesNow(k)' = DeadlinesNow(k)
<1>1. IInv'
  BY NextIInv
<1>2. documents' = documents /\ heap' = heap /\ now' = now
  BY DEF vars
<1>3. Versioned' /\ text' \in SUBSET DocRefs
  BY <1>2 DEF BInv, BTypeOK, Versioned, Allocated
<1> QED BY <1>1, <1>2, <1>3, SameNow

LEMMA BeginBackupKeeps ==
    ASSUME IInv, BInv, BeginBackup
    PROVE  IInv' /\ BInv'
<1>0. /\ job' = [pc |-> "iterate", todo |-> Keys, entries |-> {}]
      /\ jobs' = jobs + 1 /\ span' = <<now, now>>
      /\ UNCHANGED <<vars, text, backup, saved, gone>>
      /\ states' = [k \in Keys |-> StatesNow(k)']
      /\ deadlines' = [k \in Keys |-> DeadlinesNow(k)']
  BY DEF BeginBackup, Observe
<1>1. /\ IInv' /\ Versioned' /\ text' \in SUBSET DocRefs /\ now' = now
      /\ \A k \in Keys : StatesNow(k)' = StatesNow(k) /\ DeadlinesNow(k)' = DeadlinesNow(k)
  BY <1>0, DocumentsSame
<1>2. job' \in Job /\ job'.pc = "iterate" /\ job'.todo = Keys /\ job'.entries = {}
  BY <1>0, NewJobs
<1>3. InBackup'
  BY <1>2 DEF InBackup
<1>4. BTypeOK'
  <2>1. \A k \in Keys : StatesNow(k)' \subseteq Int /\ DeadlinesNow(k)' \subseteq Int
    BY <1>1, NowTypedNext DEF IInv
  <2>2. now \in Nat
    BY DEF IInv, TypeOK
  <2> QED BY <1>0, <1>1, <1>2, <2>1, <2>2 DEF BInv, BTypeOK
<1>5. SeenInv'
  <2>1. span'[1] = now /\ now \in Nat
    BY <1>0 DEF IInv, TypeOK
  <2> QED BY <1>0, <1>1, <1>2, <1>3, <2>1 DEF SeenInv
<1>6. RegularInv' /\ TtlInv' /\ RestoreInv'
  BY <1>2, <1>3 DEF RegularInv, TtlInv, RestoreInv
<1> QED BY <1>1, <1>4, <1>5, <1>6 DEF BInv

LEMMA VisitKeeps ==
    ASSUME IInv, BInv, NEW k \in Keys, Visit(k)
    PROVE  IInv' /\ BInv'
<1>0. /\ job.pc = "iterate" /\ k \in job.todo
      /\ UNCHANGED <<vars, text, backup, saved, jobs, hist>>
      /\ UNCHANGED <<span, states, deadlines, gone>>
  BY DEF Visit, hist
<1>1. /\ IInv' /\ Versioned' /\ text' \in SUBSET DocRefs /\ documents' = documents /\ now' = now
      /\ \A j \in Keys : StatesNow(j)' = StatesNow(j) /\ DeadlinesNow(j)' = DeadlinesNow(j)
  BY <1>0, DocumentsSame
<1>2. job.todo \in SUBSET Keys /\ job.entries \in SUBSET Entry
  BY <1>0, JobFields DEF BInv, BTypeOK
<1>3. /\ job' \in Job /\ job'.todo = job.todo \ {k} /\ job'.entries = job.entries
      /\ \/ job'.pc = "iterate" /\ (documents[k] = None \/ Expired(documents[k]))
         \/ job'.pc = "state" /\ job'.key = k /\ documents[k] # None
  <2>1. CASE documents[k] = None \/ Expired(documents[k])
    <3>1. job' = [job EXCEPT !.todo = @ \ {k}]
      BY <2>1 DEF Visit
    <3> QED BY <1>0, <2>1, <3>1, JobFields DEF BInv, BTypeOK, InBackup
  <2>2. CASE ~(documents[k] = None \/ Expired(documents[k]))
    <3>1. job' = [pc |-> "state", todo |-> job.todo \ {k}, entries |-> job.entries,
                  key |-> k, state |-> NoValue]
      BY <2>2 DEF Visit
    <3>2. job.todo \ {k} \in SUBSET Keys
      BY <1>2
    <3> QED BY <1>2, <2>2, <3>1, <3>2, NewJobs
  <2> QED BY <2>1, <2>2
<1>4. InBackup /\ InBackup'
  BY <1>0, <1>3 DEF InBackup
<1>5. BTypeOK'
  BY <1>0, <1>1, <1>3 DEF BInv, BTypeOK
<1>6. SeenInv'
  BY <1>0, <1>1, <1>3, <1>4 DEF BInv, SeenInv
<1>7. RegularInv'
  <2>1. documents[k] = None \/ Expired(documents[k]) => Absent \in states[k]
    BY <1>4 DEF BInv, SeenInv, StatesNow
  <2>2. \A j \in Keys \ job.todo : \/ \E e \in job.entries : e.key = j
                                   \/ Absent \in states[j]
    BY <1>0, <1>4 DEF BInv, RegularInv
  <2>3. \A j \in Keys \ job'.todo : \/ \E e \in job'.entries : e.key = j
                                    \/ job'.pc # "iterate" /\ j = job'.key
                                    \/ Absent \in states'[j]
    <3> SUFFICES ASSUME NEW j \in Keys \ job'.todo
                 PROVE  \/ \E e \in job'.entries : e.key = j
                        \/ job'.pc # "iterate" /\ j = job'.key
                        \/ Absent \in states'[j]
      OBVIOUS
    <3>1. CASE j = k
      BY <1>0, <1>3, <2>1, <3>1
    <3>2. CASE j # k
      BY <1>0, <1>3, <2>2, <3>2
    <3> QED BY <3>1, <3>2
  <2> QED BY <1>0, <1>3, <1>4, <2>3 DEF BInv, RegularInv
<1>8. TtlInv'
  BY <1>0, <1>1, <1>3, <1>4 DEF BInv, TtlInv, TtlFits, RestoredTtl
<1>9. RestoreInv'
  BY <1>3 DEF RestoreInv
<1> QED BY <1>1, <1>5, <1>6, <1>7, <1>8, <1>9 DEF BInv

LEMMA BackupStateKeeps ==
    ASSUME IInv, BInv, BackupState
    PROVE  IInv' /\ BInv'
<1>0. /\ job.pc = "state"
      /\ job' = [job EXCEPT !.pc = "ttl", !.state = EncodeState(documents[job.key])]
      /\ UNCHANGED <<vars, text, backup, saved, jobs, hist>>
      /\ UNCHANGED <<span, states, deadlines, gone>>
  BY DEF BackupState, hist
<1>1. /\ IInv' /\ Versioned' /\ text' \in SUBSET DocRefs /\ documents' = documents /\ now' = now
      /\ \A j \in Keys : StatesNow(j)' = StatesNow(j) /\ DeadlinesNow(j)' = DeadlinesNow(j)
  BY <1>0, DocumentsSame
<1>2. job.key \in Keys /\ documents[job.key] # None
  BY <1>0, JobFields DEF BInv, BTypeOK, SeenInv
<1>3. EncodeState(documents[job.key]) \in Nat
  BY <1>2, NowTyped DEF IInv
<1>4. /\ job' \in Job /\ job'.pc = "ttl" /\ job'.todo = job.todo
      /\ job'.entries = job.entries /\ job'.key = job.key
      /\ job'.state = EncodeState(documents[job.key])
  BY <1>0, <1>3, JobFields DEF BInv, BTypeOK
<1>5. InBackup /\ InBackup'
  BY <1>0, <1>4 DEF InBackup
<1>6. BTypeOK'
  BY <1>0, <1>1, <1>4 DEF BInv, BTypeOK
<1>7. SeenInv'
  BY <1>0, <1>1, <1>2, <1>4, <1>5 DEF BInv, SeenInv
<1>8. RegularInv'
  <2>1. EncodeState(documents[job.key]) \in states[job.key]
    BY <1>2, <1>5 DEF BInv, SeenInv, StatesNow
  <2> QED BY <1>0, <1>4, <1>5, <2>1 DEF BInv, RegularInv
<1>9. TtlInv'
  BY <1>0, <1>1, <1>4, <1>5 DEF BInv, TtlInv, TtlFits, RestoredTtl
<1>10. RestoreInv'
  BY <1>4 DEF RestoreInv
<1> QED BY <1>1, <1>6, <1>7, <1>8, <1>9, <1>10 DEF BInv

LEMMA BackupTtlKeeps ==
    ASSUME IInv, BInv, BackupTtl
    PROVE  IInv' /\ BInv'
<1> DEFINE k == job.key
           d == documents[k]
           due == heap[d].ttl # NoTTL
           entry == [key |-> k, text |-> d \in text, state |-> job.state,
                     due |-> due, ttl |-> IF due THEN TtlRemaining(heap[d]) ELSE 0]
<1>0. /\ job.pc = "ttl"
      /\ job' = [pc |-> "iterate", todo |-> job.todo, entries |-> job.entries \cup {entry}]
      /\ UNCHANGED <<vars, text, backup, saved, jobs, hist>>
      /\ UNCHANGED <<span, states, deadlines, gone>>
  BY DEF BackupTtl, hist
<1>1. /\ IInv' /\ Versioned' /\ text' \in SUBSET DocRefs /\ documents' = documents /\ now' = now
      /\ \A j \in Keys : StatesNow(j)' = StatesNow(j) /\ DeadlinesNow(j)' = DeadlinesNow(j)
  BY <1>0, DocumentsSame
<1>2. /\ k \in Keys /\ d # None /\ job.state \in Nat
      /\ job.todo \in SUBSET Keys /\ job.entries \in SUBSET Entry
  BY <1>0, JobFields DEF BInv, BTypeOK, SeenInv
<1>3. d \in DocRefs /\ heap[d] \in Doc
  BY <1>2 DEF IInv, TypeOK, WellKeyed, Allocated
<1>4. /\ heap[d].ttl \in Nat /\ heap[d].created \in Nat /\ now \in Nat
      /\ TtlRemaining(heap[d]) = heap[d].created + heap[d].ttl - now
      /\ TtlRemaining(heap[d]) \in Int
  BY <1>3 DEF Doc, TtlRemaining, IInv, TypeOK
<1>5. /\ entry \in Entry /\ entry.key = k /\ entry.state = job.state /\ entry.due = due
      /\ due => entry.ttl = TtlRemaining(heap[d])
  <2>1. (IF due THEN TtlRemaining(heap[d]) ELSE 0) \in Int
    BY <1>4
  <2>2. due \in BOOLEAN /\ (d \in text) \in BOOLEAN
    OBVIOUS
  <2> QED BY <1>2, <2>1, <2>2 DEF Entry
<1>6. (IF due THEN heap[d].created + heap[d].ttl ELSE Forever) \in deadlines[k]
  <2>1. InBackup
    BY <1>0 DEF InBackup
  <2>2. d \in {documents[k]} \ {None}
    BY <1>2
  <2>3. (IF due THEN heap[d].created + heap[d].ttl ELSE Forever) \in DeadlinesNow(k)
    BY <2>2 DEF DeadlinesNow
  <2> QED BY <1>2, <2>1, <2>3 DEF BInv, SeenInv
<1>7. span[1] <= now /\ span[1] \in Nat
  BY <1>0 DEF BInv, SeenInv, BTypeOK, InBackup
<1> HIDE DEF entry
<1>8. TtlFits(entry, now)
  <2>1. CASE due /\ TtlRemaining(heap[d]) > 0
    <3>0. entry.due /\ entry.ttl = TtlRemaining(heap[d]) /\ entry.ttl > 0
      BY <1>5, <2>1
    <3>1. RestoredTtl(entry) = TtlRemaining(heap[d]) /\ RestoredTtl(entry) # NoTTL
      <4>1. RestoredTtl(entry) = entry.ttl
        BY <3>0 DEF RestoredTtl
      <4> QED BY <1>4, <3>0, <4>1 DEF NoTTL
    <3>2. RestoredTtl(entry) <= (heap[d].created + heap[d].ttl) - span[1]
      BY <1>4, <1>7, <3>1
    <3>3. heap[d].created + heap[d].ttl \in deadlines[k]
      BY <1>6, <2>1
    <3> QED BY <1>5, <3>1, <3>2, <3>3 DEF TtlFits
  <2>2. CASE due /\ ~(TtlRemaining(heap[d]) > 0)
    <3>1. RestoredTtl(entry) = NoTTL
      BY <1>5, <2>2 DEF RestoredTtl
    <3>2. heap[d].created + heap[d].ttl <= now
      BY <1>4, <2>2
    <3>3. heap[d].created + heap[d].ttl \in deadlines[k]
      BY <1>6, <2>2
    <3> QED BY <1>5, <3>1, <3>2, <3>3 DEF TtlFits
  <2>3. CASE ~due
    <3>1. RestoredTtl(entry) = NoTTL
      BY <1>5, <2>3 DEF RestoredTtl
    <3>2. Forever \in deadlines[k]
      BY <1>6, <2>3
    <3> QED BY <1>5, <3>1, <3>2 DEF TtlFits
  <2> QED BY <2>1, <2>2, <2>3
<1>9. /\ job' \in Job /\ job'.pc = "iterate" /\ job'.todo = job.todo
      /\ job'.entries = job.entries \cup {entry}
  <2>1. job.entries \cup {entry} \in SUBSET Entry
    BY <1>2, <1>5
  <2> QED BY <1>0, <1>2, <2>1, NewJobs
<1>10. InBackup /\ InBackup'
  BY <1>0, <1>9 DEF InBackup
<1>11. BTypeOK'
  BY <1>0, <1>1, <1>9 DEF BInv, BTypeOK
<1>12. SeenInv'
  BY <1>0, <1>1, <1>9, <1>10 DEF BInv, SeenInv
<1>13. RegularInv'
  <2>1. job.state \in states[k]
    BY <1>0, <1>10 DEF BInv, RegularInv
  <2>2. \A e \in job'.entries : e.state \in states'[e.key]
    BY <1>0, <1>5, <1>9, <1>10, <2>1 DEF BInv, RegularInv
  <2>3. \A j \in Keys \ job'.todo : \/ \E e \in job'.entries : e.key = j
                                    \/ Absent \in states'[j]
    BY <1>0, <1>5, <1>9, <1>10 DEF BInv, RegularInv
  <2> QED BY <1>9, <2>2, <2>3 DEF RegularInv
<1>14. TtlInv'
  <2>1. \A e \in job.entries \cup {entry} : TtlFits(e, now)
    BY <1>8, <1>10 DEF BInv, TtlInv
  <2> QED BY <1>0, <1>1, <1>9, <1>10, <2>1 DEF TtlInv, TtlFits, RestoredTtl
<1>15. RestoreInv'
  BY <1>9 DEF RestoreInv
<1> QED BY <1>1, <1>11, <1>12, <1>13, <1>14, <1>15 DEF BInv

LEMMA EndBackupKeeps ==
    ASSUME IInv, BInv, EndBackup
    PROVE  IInv' /\ BInv'
<1>0. /\ job.pc = "iterate" /\ job' = NoJob /\ backup' = job.entries
      /\ span' = <<span[1], now>>
      /\ UNCHANGED <<vars, text, saved, jobs, states, deadlines, gone>>
  BY DEF EndBackup
<1>1. IInv' /\ Versioned' /\ text' \in SUBSET DocRefs
  BY <1>0, DocumentsSame
<1>2. job'.pc = "idle" /\ job' \in Job
  BY <1>0, NewJobs
<1>3. InBackup /\ ~InBackup' /\ job.entries \in SUBSET Entry
  BY <1>0, <1>2, JobFields DEF InBackup, BInv, BTypeOK
<1>4. span'[1] = span[1] /\ span'[2] = now /\ span' \in Nat \X Nat
  <2>1. now \in Nat /\ span[1] \in Nat
    BY DEF IInv, TypeOK, BInv, BTypeOK
  <2> QED BY <1>0, <2>1
<1>5. BTypeOK'
  BY <1>0, <1>1, <1>2, <1>3, <1>4 DEF BInv, BTypeOK
<1>6. SeenInv' /\ RegularInv' /\ RestoreInv'
  BY <1>2, <1>3 DEF SeenInv, RegularInv, RestoreInv
<1>7. TtlInv'
  <2>1. \A e \in job.entries : TtlFits(e, now)
    BY <1>3 DEF BInv, TtlInv
  <2> QED BY <1>0, <1>3, <1>4, <2>1 DEF TtlInv, TtlFits, RestoredTtl
<1> QED BY <1>1, <1>5, <1>6, <1>7 DEF BInv

\* The steps of RESTORE but the one that inserts leave alone what a backup
\* recorded.
LEMMA RestoreStepKeeps ==
    ASSUME IInv, BInv, ~InBackup, ~InBackup',
           UNCHANGED <<vars, text, backup, span, states, deadlines, gone>>,
           job' \in Job, saved' \in [Keys -> Nat], jobs' \in Nat,
           RestoreInv'
    PROVE  IInv' /\ BInv'
<1>1. IInv' /\ Versioned' /\ text' \in SUBSET DocRefs
  BY DocumentsSame
<1>2. BTypeOK'
  BY <1>1 DEF BInv, BTypeOK
<1>3. SeenInv' /\ RegularInv'
  BY DEF SeenInv, RegularInv, InBackup
<1>4. TtlInv'
  BY DEF BInv, TtlInv, TtlFits, RestoredTtl
<1> QED BY <1>1, <1>2, <1>3, <1>4 DEF BInv

LEMMA RestoreStepsKeep ==
    ASSUME IInv, BInv,
           \/ BeginRestore \/ RestoreFails \/ RestoreDone \/ EndRestore
           \/ \E k \in Keys : Persist(k)
    PROVE  IInv' /\ BInv'
<1>0. job \in Job /\ saved \in [Keys -> Nat] /\ jobs \in Nat /\ backup \in SUBSET Entry
  BY DEF BInv, BTypeOK
<1>1. CASE BeginRestore
  <2>1. /\ job.pc = "idle" /\ jobs' = jobs + 1 /\ job' = [pc |-> "restore", todo |-> backup]
        /\ UNCHANGED <<vars, text, backup, saved, span, states, deadlines, gone>>
    BY <1>1 DEF BeginRestore, hist
  <2>2. job' \in Job /\ job'.pc = "restore" /\ job'.todo = backup
    BY <1>0, <2>1, NewJobs
  <2>3. RestoreInv'
    BY <2>1, <2>2 DEF RestoreInv
  <2>4. ~InBackup /\ ~InBackup'
    BY <2>1, <2>2 DEF InBackup
  <2> QED BY <1>0, <2>1, <2>2, <2>3, <2>4, RestoreStepKeeps
<1>2. CASE RestoreFails \/ EndRestore
  <2>1. /\ job.pc \in {"restore", "persist"} /\ job' = NoJob
        /\ UNCHANGED <<vars, text, backup, saved, jobs, span, states, deadlines, gone>>
    BY <1>2 DEF RestoreFails, EndRestore, hist
  <2>2. job' \in Job /\ job'.pc = "idle"
    BY <2>1, NewJobs
  <2>3. RestoreInv'
    BY <2>2 DEF RestoreInv
  <2>4. ~InBackup /\ ~InBackup'
    BY <2>1, <2>2 DEF InBackup
  <2> QED BY <1>0, <2>1, <2>2, <2>3, <2>4, RestoreStepKeeps
<1>3. CASE RestoreDone
  <2>1. /\ job.pc = "restore" /\ job.todo = {}
        /\ job' = [pc |-> "persist", todo |-> {e.key : e \in backup}]
        /\ saved' = [k \in Keys |-> 0]
        /\ UNCHANGED <<vars, text, backup, jobs, span, states, deadlines, gone>>
    BY <1>3 DEF RestoreDone, hist
  <2>2. {e.key : e \in backup} \in SUBSET Keys
    BY <1>0 DEF Entry
  <2>3. job' \in Job /\ job'.pc = "persist" /\ job'.todo = {e.key : e \in backup}
    BY <2>1, <2>2, NewJobs
  <2>4. documents' = documents
    BY <2>1 DEF vars
  <2>5. RestoreInv'
    BY <2>1, <2>3, <2>4 DEF BInv, RestoreInv
  <2>6. ~InBackup /\ ~InBackup' /\ saved' \in [Keys -> Nat]
    BY <2>1, <2>3 DEF InBackup
  <2> QED BY <1>0, <2>1, <2>3, <2>5, <2>6, RestoreStepKeeps
<1>4. ASSUME NEW k \in Keys, Persist(k) PROVE IInv' /\ BInv'
  <2>1. /\ job.pc = "persist" /\ k \in job.todo
        /\ job' = [job EXCEPT !.todo = @ \ {k}]
        /\ saved' = [saved EXCEPT ![k] =
                        IF documents[k] = None THEN 0 ELSE heap[documents[k]].version]
        /\ UNCHANGED <<vars, text, backup, jobs, span, states, deadlines, gone>>
    BY <1>4 DEF Persist, hist
  <2>2. job' \in Job /\ job'.pc = "persist" /\ job'.todo = job.todo \ {k}
    BY <1>0, <2>1, JobFields
  <2>3. documents[k] # None =>
            heap[documents[k]].version \in Nat /\ heap[documents[k]].version # 0
    <3> SUFFICES ASSUME documents[k] # None
                 PROVE  heap[documents[k]].version \in Nat /\ heap[documents[k]].version # 0
      OBVIOUS
    <3>1. documents[k] \in DocRefs /\ Allocated(documents[k]) /\ heap[documents[k]] \in Doc
      BY DEF IInv, TypeOK, WellKeyed, Allocated
    <3> QED BY <3>1 DEF BInv, Versioned, Doc
  <2>4. /\ saved' \in [Keys -> Nat]
        /\ \A j \in Keys \ {k} : saved'[j] = saved[j]
        /\ documents[k] # None => saved'[k] # 0
    BY <1>0, <2>1, <2>3
  <2>5. documents' = documents
    BY <2>1 DEF vars
  <2>6. RestoreInv'
    <3> SUFFICES ASSUME NEW e \in backup
                 PROVE  IF e.key \in job'.todo THEN documents[e.key] # None \/ e.key \in gone
                        ELSE saved'[e.key] # 0 \/ e.key \in gone
      BY <2>1, <2>2, <2>5 DEF RestoreInv
    <3>1. /\ e.key \in Keys
          /\ IF e.key \in job.todo THEN documents[e.key] # None \/ e.key \in gone
             ELSE saved[e.key] # 0 \/ e.key \in gone
      BY <1>0, <2>1 DEF Entry, BInv, RestoreInv
    <3> QED BY <2>1, <2>2, <2>4, <3>1
  <2>7. ~InBackup /\ ~InBackup'
    BY <2>1, <2>2 DEF InBackup
  <2> QED BY <1>0, <2>1, <2>2, <2>4, <2>6, <2>7, RestoreStepKeeps
<1> QED BY <1>1, <1>2, <1>3, <1>4

\* The document restore() makes of an entry.
Restored(e) == UpdateVersion([NewDocument(e.key, RestoredTtl(e)) EXCEPT !.val = e.state])

LEMMA RestoredIsDoc ==
    ASSUME TypeOK, NEW e \in Entry
    PROVE  /\ Restored(e) \in Doc /\ Restored(e) # None /\ Restored(e).key = e.key
           /\ Restored(e).val = e.state /\ Restored(e).version = 2
           /\ Restored(e).ttl = RestoredTtl(e)
<1> DEFINE new == NewDocument(e.key, RestoredTtl(e))
           filled == [new EXCEPT !.val = e.state]
<1>1. e.key \in Keys /\ RestoredTtl(e) \in Nat /\ e.state \in Nat
  BY DEF Entry, RestoredTtl, NoTTL
<1>2. /\ new \in Doc /\ new.key = e.key /\ new.version = 1 /\ new.ttl = RestoredTtl(e)
  BY <1>1, FreshIsDoc DEF NewDocument, TypeOK
<1>3. /\ filled \in Doc /\ filled.key = e.key /\ filled.version = 1
      /\ filled.ttl = RestoredTtl(e) /\ filled.val = e.state
  <2> HIDE DEF new
  <2> QED BY <1>1, <1>2 DEF Doc
<1>4. Restored(e) = UpdateVersion(filled)
  BY DEF Restored
<1> HIDE DEF filled
<1> QED BY <1>3, <1>4, NoDocAssumption DEF UpdateVersion, Doc

LEMMA RestoreOneDoes ==
    ASSUME IInv, BInv, NEW e \in backup, RestoreOne(e)
    PROVE  /\ e \in Entry /\ job.pc = "restore" /\ e \in job.todo
           /\ \E d \in DocRefs :
                 /\ ~Allocated(d)
                 /\ heap' = [heap EXCEPT ![d] = Restored(e)]
                 /\ documents' = [documents EXCEPT ![e.key] = d]
                 /\ text' \in {text, text \cup {d}}
           /\ raced' = raced \cup {e.key} /\ gone' = gone \ {e.key}
           /\ job' \in Job /\ job'.pc = "restore" /\ job'.todo = job.todo \ {e}
           /\ UNCHANGED <<now, task, issued, gc, backup, saved, jobs, span, states, deadlines>>
<1>1. e \in Entry /\ job \in Job /\ job.pc = "restore"
  BY DEF BInv, BTypeOK, RestoreOne
<1>2. job' = [job EXCEPT !.todo = @ \ {e}]
  BY DEF RestoreOne
<1>3. job' \in Job /\ job'.pc = "restore" /\ job'.todo = job.todo \ {e}
  BY <1>1, <1>2, JobFields
<1> QED BY <1>1, <1>3 DEF RestoreOne, Restored

LEMMA RestoreOneKeeps ==
    ASSUME IInv, BInv, NEW e \in backup, RestoreOne(e)
    PROVE  IInv' /\ BInv'
<1>0. /\ e \in Entry /\ e.key \in Keys /\ job.pc = "restore" /\ e \in job.todo
      /\ raced' = raced \cup {e.key} /\ gone' = gone \ {e.key}
      /\ job' \in Job /\ job'.pc = "restore" /\ job'.todo = job.todo \ {e}
      /\ UNCHANGED <<now, task, issued, gc, backup, saved, jobs, span, states, deadlines>>
  BY RestoreOneDoes DEF Entry
<1>1. PICK d \in DocRefs :
          /\ ~Allocated(d)
          /\ heap' = [heap EXCEPT ![d] = Restored(e)]
          /\ documents' = [documents EXCEPT ![e.key] = d]
          /\ text' \in {text, text \cup {d}}
  BY RestoreOneDoes
<1>2. /\ Restored(e) \in Doc /\ Restored(e) # None /\ Restored(e).key = e.key
      /\ Restored(e).version = 2
  BY <1>0, RestoredIsDoc DEF IInv
<1>3. /\ heap' \in [DocRefs -> Doc \cup {None}] /\ heap'[d] = Restored(e)
      /\ \A c \in DocRefs : Allocated(c) => c # d /\ heap'[c] = heap[c]
      /\ \A c \in DocRefs \ {d} : heap'[c] = heap[c]
      /\ documents' \in [Keys -> DocRefs \cup {None}] /\ documents'[e.key] = d
      /\ \A k \in Keys \ {e.key} : documents'[k] = documents[k]
  BY <1>0, <1>1, <1>2 DEF IInv, TypeOK, Allocated
<1>4. TypeOK'
  BY <1>0, <1>3 DEF IInv, TypeOK
<1>5. WellKeyed'
  BY <1>2, <1>3 DEF IInv, TypeOK, WellKeyed, Allocated
<1>6. HeldRefs'
  BY <1>0, <1>3 DEF IInv, HeldRefs, Allocated
<1>7. GcOnlyRaces'
  BY <1>0, <1>3 DEF IInv, TypeOK, WellKeyed, GcOnlyRaces, Expired
<1>8. Versioned'
  BY <1>2, <1>3 DEF BInv, Versioned, Allocated
<1>9. BTypeOK'
  BY <1>0, <1>1 DEF BInv, BTypeOK
<1>10. ~InBackup /\ ~InBackup'
  BY <1>0 DEF InBackup
<1>11. SeenInv' /\ RegularInv'
  BY <1>0, <1>10 DEF SeenInv, RegularInv
<1>12. TtlInv'
  BY <1>0, <1>10 DEF BInv, TtlInv, TtlFits, RestoredTtl
<1>13. RestoreInv'
  <2>1. ASSUME NEW f \in backup \ job'.todo PROVE documents'[f.key] # None \/ f.key \in gone'
    <3>1. f.key \in Keys
      BY DEF BInv, BTypeOK, Entry
    <3>2. CASE f.key = e.key
      BY <1>3, <3>2, NoneAssumption
    <3>3. CASE f.key # e.key
      <4>1. f \in backup \ job.todo
        BY <1>0, <3>3
      <4> QED BY <1>0, <1>3, <3>1, <3>3, <4>1 DEF BInv, RestoreInv
    <3> QED BY <3>2, <3>3
  <2> QED BY <1>0, <2>1 DEF RestoreInv
<1> QED BY <1>4, <1>5, <1>6, <1>7, <1>8, <1>9, <1>11, <1>12, <1>13 DEF IInv, BInv

LEMMA BNextKeeps == IInv /\ BInv /\ [BNext]_bvars => (IInv /\ BInv)'
<1> SUFFICES ASSUME IInv, BInv, [BNext]_bvars PROVE IInv' /\ BInv'
  OBVIOUS
<1>1. CASE UNCHANGED bvars
  <2>1. /\ UNCHANGED <<vars, text>>
        /\ UNCHANGED <<job, backup, saved, jobs, span, states, deadlines, gone>>
    BY <1>1 DEF bvars, hist
  <2>2. /\ IInv' /\ Versioned' /\ documents' = documents /\ now' = now
        /\ \A k \in Keys : StatesNow(k)' = StatesNow(k) /\ DeadlinesNow(k)' = DeadlinesNow(k)
    BY <2>1, DocumentsSame
  <2>3. InBackup' <=> InBackup
    BY <2>1 DEF InBackup
  <2>4. BTypeOK'
    BY <2>1 DEF BInv, BTypeOK
  <2>5. SeenInv'
    BY <2>1, <2>2, <2>3 DEF BInv, SeenInv
  <2>6. RegularInv'
    BY <2>1, <2>3 DEF BInv, RegularInv
  <2>7. TtlInv'
    BY <2>1, <2>2, <2>3 DEF BInv, TtlInv, TtlFits, RestoredTtl
  <2>8. RestoreInv'
    BY <2>1, <2>2 DEF BInv, RestoreInv
  <2> QED BY <2>2, <2>4, <2>5, <2>6, <2>7, <2>8 DEF BInv
<1> QED BY <1>1, ServeKeeps, BeginBackupKeeps, VisitKeeps, BackupStateKeeps, BackupTtlKeeps,
           EndBackupKeeps, RestoreStepsKeep, RestoreOneKeeps DEF BNext

\* The map stays as consistent as it is without BACKUP and RESTORE, gc() takes
\* an unexpired document only in its race, and a job knows of the map what
\* BInv says (backup, restore, handle_restore).
THEOREM BackupInvariance == BSpec => [](IInv /\ BInv)
  BY BInitHolds, BNextKeeps, PTL DEF BSpec
-----------------------------------------------------------------------------
\* Which steps end a job, and which take something out of its list.
LEMMA JobSteps ==
    ASSUME IInv, BInv, BNext
    PROVE  /\ job.pc = "iterate" /\ job'.pc = "idle" => EndBackup
           /\ job.pc = "persist" /\ job'.pc = "idle" => EndRestore
           /\ job.pc = "restore" /\ job'.pc = "restore" =>
                 UNCHANGED job \/ \E e \in backup : RestoreOne(e)
<1>1. NoJob.pc = "idle"
  BY NewJobs
<1>2. ASSUME NEW k \in Keys, Persist(k) PROVE job.pc = "persist" /\ job'.pc = "persist"
  BY <1>2, JobFields DEF Persist, BInv, BTypeOK
<1>3. ASSUME NEW k \in Keys, Visit(k) PROVE job.pc = "iterate" /\ job'.pc # "idle"
  <2>1. job.pc = "iterate"
    BY <1>3 DEF Visit
  <2>2. [job EXCEPT !.todo = @ \ {k}].pc = "iterate"
    BY <2>1, JobFields DEF BInv, BTypeOK
  <2> QED BY <1>3, <2>1, <2>2 DEF Visit
<1>4. CASE Serve
  BY <1>4 DEF Serve
<1>5. CASE BeginBackup \/ BeginRestore
  BY <1>5 DEF BeginBackup, BeginRestore
<1>6. CASE BackupState \/ BackupTtl
  BY <1>6 DEF BackupState, BackupTtl
<1>7. CASE EndBackup
  BY <1>7 DEF EndBackup
<1>8. CASE RestoreFails \/ RestoreDone
  BY <1>1, <1>8 DEF RestoreFails, RestoreDone
<1>9. CASE EndRestore
  BY <1>9 DEF EndRestore
<1>10. ASSUME NEW e \in backup, RestoreOne(e) PROVE job.pc = "restore" /\ job'.pc = "restore"
  BY <1>10, RestoreOneDoes
<1> QED BY <1>2, <1>3, <1>4, <1>5, <1>6, <1>7, <1>8, <1>9, <1>10 DEF BNext

\* What BackupIsRegular says of a step.
Regular ==
    job.pc = "iterate" /\ job'.pc = "idle" =>
        \A k \in Keys :
           IF \E e \in backup' : e.key = k
           THEN \A e \in backup' : e.key = k => e.state \in states[k]
           ELSE Absent \in states[k]

\* A backup taken while everybody goes on has, of every id, a state it had
\* meanwhile, and misses none that was there, unexpired, all the time (backup).
THEOREM BackupRegular == BSpec => BackupIsRegular
<1>1. IInv /\ BInv /\ [BNext]_bvars => [Regular]_bvars
  <2> SUFFICES ASSUME IInv, BInv, BNext, job.pc = "iterate", job'.pc = "idle"
               PROVE  \A k \in Keys :
                         IF \E e \in backup' : e.key = k
                         THEN \A e \in backup' : e.key = k => e.state \in states[k]
                         ELSE Absent \in states[k]
    BY DEF Regular
  <2>1. EndBackup
    BY JobSteps
  <2>2. backup' = job.entries /\ job.todo = {} /\ InBackup
    BY <2>1 DEF EndBackup, InBackup
  <2> QED BY <2>2 DEF BInv, RegularInv
<1>2. BSpec => [][Regular]_bvars
  BY <1>1, BackupInvariance, PTL DEF BSpec
<1> QED BY <1>2 DEF BackupIsRegular, Regular

\* What RestoreKeepsTTL says of a step.
TtlKept ==
    \A e \in backup :
        job.pc = "restore" /\ job'.pc = "restore" /\ e \in job.todo \ job'.todo =>
           LET doc == heap'[documents'[e.key]]
           IN  IF doc.ttl = NoTTL
               THEN \E t \in deadlines[e.key] : t = Forever \/ t <= span[2]
               ELSE \E t \in deadlines[e.key] : doc.ttl <= t - span[1]

\* No document comes back with more time than it had when its backup began,
\* and none comes back without a TTL that had one throughout and did not run
\* out of time during the backup (backup, restore).
THEOREM RestoredTtls == BSpec => RestoreKeepsTTL
<1>1. IInv /\ BInv /\ [BNext]_bvars => [TtlKept]_bvars
  <2> SUFFICES ASSUME IInv, BInv, BNext, NEW e \in backup,
                      job.pc = "restore", job'.pc = "restore", e \in job.todo \ job'.todo
               PROVE  LET doc == heap'[documents'[e.key]]
                      IN  IF doc.ttl = NoTTL
                          THEN \E t \in deadlines[e.key] : t = Forever \/ t <= span[2]
                          ELSE \E t \in deadlines[e.key] : doc.ttl <= t - span[1]
    BY DEF TtlKept
  <2>1. PICK f \in backup : RestoreOne(f)
    BY JobSteps
  <2>2. f = e
    BY <2>1, RestoreOneDoes
  <2>3. PICK d \in DocRefs :
            /\ heap' = [heap EXCEPT ![d] = Restored(e)]
            /\ documents' = [documents EXCEPT ![e.key] = d]
    BY <2>1, <2>2, RestoreOneDoes
  <2>4. e \in Entry /\ e.key \in Keys
    BY DEF BInv, BTypeOK, Entry
  <2>5. heap'[documents'[e.key]] = Restored(e)
    BY <2>3, <2>4 DEF IInv, TypeOK
  <2>6. Restored(e).ttl = RestoredTtl(e)
    BY <2>4, RestoredIsDoc DEF IInv
  <2>7. TtlFits(e, span[2])
    BY DEF BInv, TtlInv, InBackup
  <2> QED BY <2>5, <2>6, <2>7 DEF TtlFits
<1>2. BSpec => [][TtlKept]_bvars
  BY <1>1, BackupInvariance, PTL DEF BSpec
<1> QED BY <1>2 DEF RestoreKeepsTTL, TtlKept

\* What RestoredAreSaved says of a step.
Saves ==
    job.pc = "persist" /\ job'.pc = "idle" =>
        \A e \in backup : saved[e.key] # 0 \/ e.key \in gone

\* A RESTORE that is acknowledged has handed to the storage a document of each
\* of its ids that nobody took away meanwhile (handle_restore).
THEOREM RestoreSaves == BSpec => RestoredAreSaved
<1>1. IInv /\ BInv /\ [BNext]_bvars => [Saves]_bvars
  <2> SUFFICES ASSUME IInv, BInv, BNext, job.pc = "persist", job'.pc = "idle"
               PROVE  \A e \in backup : saved[e.key] # 0 \/ e.key \in gone
    BY DEF Saves
  <2>1. job.todo = {}
    BY JobSteps DEF EndRestore
  <2> QED BY <2>1 DEF BInv, RestoreInv
<1>2. BSpec => [][Saves]_bvars
  BY <1>1, BackupInvariance, PTL DEF BSpec
<1> QED BY <1>2 DEF RestoredAreSaved, Saves

-----------------------------------------------------------------------------
(***************************************************************************)
(* Linearizability: the order of module ManagerOrder explains the answers, *)
(* for any number of connections, ids, documents and commands, since       *)
(* OrderInv is inductive.                                                  *)
(***************************************************************************)
\* Appending to a sequence.
LEMMA AppendAt ==
  ASSUME NEW S, NEW s \in Seq(S), NEW e \in S
  PROVE  /\ Append(s, e) \in Seq(S) /\ Len(Append(s, e)) = Len(s) + 1
         /\ DOMAIN s = 1..Len(s) /\ DOMAIN Append(s, e) = 1..(Len(s) + 1)
         /\ Len(s) \in Nat
         /\ \A i \in 1..Len(s) : Append(s, e)[i] = s[i]
         /\ Append(s, e)[Len(s) + 1] = e
  OBVIOUS

\* What Typed says of the parts of `lives`.
LEMMA Parts ==
  ASSUME Typed, NEW k \in Keys
  PROVE  /\ lives[k] \in Seq(LifeType) /\ Len(lives[k]) \in Nat /\ Len(lives[k]) >= 1
         /\ Lives(k) = 1..Len(lives[k])
         /\ \A l \in Lives(k) :
               /\ lives[k][l].ref \in DocRefs \cup {None}
               /\ lives[k][l].points \in Seq(PointType)
               /\ Len(lives[k][l].points) \in Nat /\ Len(lives[k][l].points) >= 1
               /\ Points(k, l) = 1..Len(lives[k][l].points)
               /\ \A i \in Points(k, l) : At(k, l, i) \in PointType
  <1> USE DEF Typed, Lives
  <1>1. lives[k] \in Seq(LifeType) /\ Len(lives[k]) >= 1
    OBVIOUS
  <1>2. Len(lives[k]) \in Nat /\ DOMAIN lives[k] = 1..Len(lives[k])
        /\ \A l \in DOMAIN lives[k] : lives[k][l] \in LifeType
    BY <1>1
  <1>3. ASSUME NEW l \in DOMAIN lives[k]
        PROVE  /\ lives[k][l].ref \in DocRefs \cup {None}
               /\ lives[k][l].points \in Seq(PointType)
               /\ Len(lives[k][l].points) >= 1
    <2>1. lives[k][l] \in LifeType
      BY <1>2
    <2> QED
      BY <2>1 DEF LifeType
  <1>4. ASSUME NEW l \in DOMAIN lives[k]
        PROVE  /\ Len(lives[k][l].points) \in Nat
               /\ Points(k, l) = 1..Len(lives[k][l].points)
               /\ \A i \in Points(k, l) : At(k, l, i) \in PointType
    BY <1>3 DEF Points, At
  <1> QED
    BY <1>1, <1>2, <1>3, <1>4

-----------------------------------------------------------------------------
(***************************************************************************)
(* A step adds one point to the record, or none.                           *)
(***************************************************************************)
\* The n-th point of life l of k is new, and is p: it comes last in its life.
Adds(k, l, n, p) ==
  /\ l \in DOMAIN lives'[k] /\ n \in DOMAIN lives'[k][l].points
  /\ lives'[k][l].points[n] = p
  /\ l \in Lives(k) => \A i \in Points(k, l) : i < n
  /\ \A j \in Keys : \A m \in Lives(j) :
        /\ m \in DOMAIN lives'[j] /\ lives'[j][m].ref = lives[j][m].ref
        /\ \A i \in Points(j, m) : /\ i \in DOMAIN lives'[j][m].points
                                   /\ lives'[j][m].points[i] = At(j, m, i)
  /\ \A j \in Keys : \A m \in DOMAIN lives'[j] : \A i \in DOMAIN lives'[j][m].points :
        \/ m \in Lives(j) /\ i \in Points(j, m)
        \/ j = k /\ m = l /\ i = n

LEMMA JoinsIs ==
  ASSUME Typed, NEW k \in Keys, NEW l \in Lives(k), NEW p \in PointType, Joins(k, l, p)
  PROVE  LET n == Len(lives[k][l].points) + 1
         IN  /\ Typed' /\ Adds(k, l, n, p)
             /\ \A j \in Keys : j # k => lives'[j] = lives[j]
             /\ Len(lives'[k]) = Len(lives[k])
             /\ \A m \in Lives(k) : m # l => lives'[k][m] = lives[k][m]
             /\ lives'[k][l].ref = lives[k][l].ref
             /\ Len(lives'[k][l].points) = n
  <1> DEFINE life == lives[k][l]
             n == Len(life.points) + 1
             longer == [life EXCEPT !.points = Append(life.points, p)]
  <1>1. lives' = [lives EXCEPT ![k] = [lives[k] EXCEPT ![l] = longer]]
    BY DEF Joins
  <1>2. life \in LifeType /\ life.points \in Seq(PointType) /\ lives[k] \in Seq(LifeType)
    BY Parts DEF Lives
  <1>3. /\ Append(life.points, p) \in Seq(PointType)
        /\ Len(Append(life.points, p)) = n /\ n \in Nat
        /\ DOMAIN Append(life.points, p) = 1..n
        /\ \A i \in 1..Len(life.points) : Append(life.points, p)[i] = life.points[i]
        /\ Append(life.points, p)[n] = p
    BY <1>2, AppendAt
  <1>4. /\ longer \in LifeType /\ longer.ref = life.ref
        /\ longer.points = Append(life.points, p)
    BY <1>2, <1>3 DEF LifeType
  <1> HIDE DEF longer
  <1>5. /\ [lives[k] EXCEPT ![l] = longer] \in Seq(LifeType)
        /\ Len([lives[k] EXCEPT ![l] = longer]) = Len(lives[k])
    BY <1>2, <1>4 DEF Lives
  <1>6. /\ lives'[k] = [lives[k] EXCEPT ![l] = longer]
        /\ \A j \in Keys : j # k => lives'[j] = lives[j]
        /\ lives' \in [Keys -> Seq(LifeType)]
    BY <1>1, <1>5 DEF Typed
  <1>7. /\ lives'[k][l] = longer /\ Len(lives'[k]) = Len(lives[k])
        /\ DOMAIN lives'[k] = Lives(k)
        /\ \A m \in Lives(k) : m # l => lives'[k][m] = lives[k][m]
    BY <1>5, <1>6 DEF Lives
  <1>8. Len(lives'[k][l].points) = n /\ DOMAIN lives'[k][l].points = 1..n
        /\ lives'[k][l].ref = life.ref
        /\ lives'[k][l].points[n] = p
        /\ \A i \in 1..Len(life.points) : lives'[k][l].points[i] = life.points[i]
    BY <1>3, <1>4, <1>7
  <1>9. Points(k, l) = 1..Len(life.points) /\ Len(life.points) \in Nat
    BY Parts
  <1>10. Typed'
    <2>1. ASSUME NEW j \in Keys PROVE (Len(lives[j]) >= 1)' /\ \A m \in Lives(j)' : Len(lives'[j][m].points) >= 1
      <3>1. CASE j = k
        <4>1. Len(lives[k]) >= 1 /\ \A m \in Lives(k) : Len(lives[k][m].points) >= 1
          BY DEF Typed
        <4> QED BY <3>1, <4>1, <1>3, <1>7, <1>8, <1>9 DEF Lives
      <3>2. CASE j # k
        BY <3>2, <1>6 DEF Typed, Lives
      <3> QED BY <3>1, <3>2
    <2> QED BY <2>1, <1>6 DEF Typed
  <1>11. Adds(k, l, n, p)
    <2>1. ASSUME NEW j \in Keys, NEW m \in Lives(j)
          PROVE  /\ m \in DOMAIN lives'[j] /\ lives'[j][m].ref = lives[j][m].ref
                 /\ \A i \in Points(j, m) : /\ i \in DOMAIN lives'[j][m].points
                                            /\ lives'[j][m].points[i] = At(j, m, i)
      <3>1. CASE j = k /\ m = l
        BY <3>1, <1>3, <1>7, <1>8, <1>9 DEF At
      <3>2. CASE ~(j = k /\ m = l)
        <4>1. lives'[j][m] = lives[j][m] /\ m \in DOMAIN lives'[j]
          BY <3>2, <1>6, <1>7 DEF Lives
        <4> QED BY <4>1 DEF Points, At
      <3> QED BY <3>1, <3>2
    <2>2. ASSUME NEW j \in Keys, NEW m \in DOMAIN lives'[j],
                 NEW i \in DOMAIN lives'[j][m].points
          PROVE  \/ m \in Lives(j) /\ i \in Points(j, m)
                 \/ j = k /\ m = l /\ i = n
      <3>1. CASE j = k /\ m = l
        BY <3>1, <1>3, <1>7, <1>8, <1>9
      <3>2. CASE ~(j = k /\ m = l)
        <4>1. m \in Lives(j) /\ lives'[j][m] = lives[j][m]
          BY <3>2, <1>6, <1>7 DEF Lives
        <4> QED BY <4>1 DEF Points
      <3> QED BY <3>1, <3>2
    <2>3. l \in DOMAIN lives'[k] /\ n \in DOMAIN lives'[k][l].points
          /\ lives'[k][l].points[n] = p /\ \A i \in Points(k, l) : i < n
      BY <1>3, <1>7, <1>8, <1>9
    <2> QED BY <2>1, <2>2, <2>3 DEF Adds
  <1> QED
    BY <1>6, <1>7, <1>8, <1>10, <1>11

LEMMA OpensIs ==
  ASSUME Typed, NEW k \in Keys, NEW p \in PointType, Opens(k, p),
         documents'[k] \in DocRefs \cup {None}
  PROVE  LET l == Len(lives[k]) + 1
         IN  /\ Typed' /\ Adds(k, l, 1, p)
             /\ \A j \in Keys : j # k => lives'[j] = lives[j]
             /\ Len(lives'[k]) = l
             /\ \A m \in Lives(k) : lives'[k][m] = lives[k][m]
             /\ lives'[k][l].ref = documents'[k]
             /\ Len(lives'[k][l].points) = 1
  <1> DEFINE l == Len(lives[k]) + 1
             life == [ref |-> documents'[k], points |-> <<p>>]
  <1>1. life \in LifeType /\ life.ref = documents'[k] /\ life.points = <<p>>
    BY DEF LifeType
  <1>2. Len(<<p>>) = 1 /\ DOMAIN <<p>> = {1} /\ <<p>>[1] = p
    OBVIOUS
  <1>3. lives[k] \in Seq(LifeType) /\ lives' = [lives EXCEPT ![k] = Append(lives[k], life)]
    BY DEF Opens, Typed
  <1> HIDE DEF life
  <1>4. /\ Append(lives[k], life) \in Seq(LifeType)
        /\ Len(Append(lives[k], life)) = l /\ l \in Nat
        /\ DOMAIN lives[k] = 1..Len(lives[k]) /\ Len(lives[k]) \in Nat
        /\ DOMAIN Append(lives[k], life) = 1..l
        /\ \A m \in 1..Len(lives[k]) : Append(lives[k], life)[m] = lives[k][m]
        /\ Append(lives[k], life)[l] = life
    BY <1>1, <1>3, AppendAt
  <1>5. /\ lives'[k] = Append(lives[k], life)
        /\ \A j \in Keys : j # k => lives'[j] = lives[j]
        /\ lives' \in [Keys -> Seq(LifeType)]
    BY <1>3, <1>4 DEF Typed
  <1>6. /\ lives'[k][l] = life /\ Len(lives'[k]) = l
        /\ DOMAIN lives'[k] = 1..l /\ Lives(k) = 1..Len(lives[k])
        /\ \A m \in Lives(k) : lives'[k][m] = lives[k][m]
    BY <1>4, <1>5 DEF Lives
  <1>7. /\ Len(lives'[k][l].points) = 1 /\ DOMAIN lives'[k][l].points = {1}
        /\ lives'[k][l].ref = documents'[k] /\ lives'[k][l].points[1] = p
    BY <1>1, <1>2, <1>6
  <1>8. Typed'
    <2>1. ASSUME NEW j \in Keys PROVE (Len(lives[j]) >= 1)' /\ \A m \in Lives(j)' : Len(lives'[j][m].points) >= 1
      <3>1. CASE j = k
        <4>1. \A m \in Lives(k) : Len(lives[k][m].points) >= 1
          BY DEF Typed
        <4>2. \A m \in 1..l : m = l \/ m \in Lives(k)
          BY <1>4, <1>6
        <4>3. ASSUME NEW m \in DOMAIN lives'[k] PROVE Len(lives'[k][m].points) >= 1
          <5>1. CASE m = l
            BY <5>1, <1>7
          <5>2. CASE m # l
            BY <5>2, <4>1, <4>2, <1>6
          <5> QED BY <5>1, <5>2
        <4> QED BY <3>1, <4>3, <1>4, <1>6 DEF Lives
      <3>2. CASE j # k
        BY <3>2, <1>5 DEF Typed, Lives
      <3> QED BY <3>1, <3>2
    <2> QED BY <2>1, <1>5 DEF Typed
  <1>9. Adds(k, l, 1, p)
    <2>1. ASSUME NEW j \in Keys, NEW m \in Lives(j)
          PROVE  lives'[j][m] = lives[j][m] /\ m \in DOMAIN lives'[j]
      <3>1. CASE j = k
        BY <3>1, <1>4, <1>6
      <3>2. CASE j # k
        BY <3>2, <1>5 DEF Lives
      <3> QED BY <3>1, <3>2
    <2>2. ASSUME NEW j \in Keys, NEW m \in DOMAIN lives'[j],
                 NEW i \in DOMAIN lives'[j][m].points
          PROVE  \/ m \in Lives(j) /\ i \in Points(j, m)
                 \/ j = k /\ m = l /\ i = 1
      <3>1. CASE j = k /\ m = l
        BY <3>1, <1>7
      <3>2. CASE ~(j = k /\ m = l)
        <4>1. m \in Lives(j)
          BY <3>2, <1>4, <1>5, <1>6 DEF Lives
        <4> QED BY <4>1, <2>1 DEF Points
      <3> QED BY <3>1, <3>2
    <2>3. l \in DOMAIN lives'[k] /\ l \notin Lives(k)
      BY <1>4, <1>6
    <2> QED BY <2>1, <2>2, <2>3, <1>7 DEF Adds, Points, At
  <1> QED
    BY <1>5, <1>6, <1>7, <1>8, <1>9

-----------------------------------------------------------------------------
(***************************************************************************)
(* The order and the commands: what a new point p of life l of k keeps.    *)
(***************************************************************************)
\* The places before and after the step, in the words of the model.
LEMMA AddedPlaces ==
  ASSUME NEW k \in Keys, NEW l, NEW n, NEW p, Adds(k, l, n, p)
  PROVE  /\ l \in Lives(k)' /\ n \in Points(k, l)' /\ At(k, l, n)' = p
         /\ l \in Lives(k) => \A i \in Points(k, l) : i < n
         /\ \A j \in Keys : \A m \in Lives(j) :
               /\ m \in Lives(j)' /\ lives'[j][m].ref = lives[j][m].ref
               /\ \A i \in Points(j, m) : i \in Points(j, m)' /\ At(j, m, i)' = At(j, m, i)
         /\ \A j \in Keys : \A m \in Lives(j)' : \A i \in Points(j, m)' :
               \/ m \in Lives(j) /\ i \in Points(j, m) /\ At(j, m, i)' = At(j, m, i)
               \/ j = k /\ m = l /\ i = n
  BY DEF Adds, Lives, Points, At

LEMMA TimesKeep ==
  ASSUME Typed, Times, NEW k \in Keys, NEW l, NEW n, NEW p \in PointType, Adds(k, l, n, p),
         issued \in Nat, issued' \in Nat, issued <= issued',
         p.done = issued', p.id <= issued',
         \A c \in Clients : task'[c].id <= issued'
  PROVE  Times'
  <1>1. ASSUME NEW j \in Keys, NEW m \in Lives(j)', NEW i \in Points(j, m)'
        PROVE  /\ At(j, m, i)'.id <= At(j, m, i)'.done
               /\ At(j, m, i)'.done <= issued'
    <2>1. CASE m \in Lives(j) /\ i \in Points(j, m) /\ At(j, m, i)' = At(j, m, i)
      <3>1. At(j, m, i) \in PointType
        BY <2>1, Parts
      <3>2. At(j, m, i).id \in Nat /\ At(j, m, i).done \in Nat
        BY <3>1 DEF PointType
      <3>3. At(j, m, i).id <= At(j, m, i).done /\ At(j, m, i).done <= issued
        BY <2>1 DEF Times
      <3> QED BY <2>1, <3>2, <3>3
    <2>2. CASE At(j, m, i)' = p
      BY <2>2
    <2> QED BY <2>1, <2>2, AddedPlaces
  <1> QED BY <1>1 DEF Times

LEMMA RealTimeKeeps ==
  ASSUME Typed, Typed', Times, RealTime, NEW k \in Keys, NEW l, NEW n, NEW p \in PointType,
         Adds(k, l, n, p), issued \in Nat, issued' \in Nat, issued <= issued',
         p.done = issued', p.id <= issued',
         \A m \in Lives(k) : m > l => \A i \in Points(k, m) : p.id <= At(k, m, i).done
  PROVE  RealTime'
  <1> SUFFICES ASSUME NEW j \in Keys, NEW a \in Lives(j)', NEW b \in Lives(j)',
                      NEW h \in Points(j, a)', NEW i \in Points(j, b)',
                      At(j, a, h)'.done < At(j, b, i)'.id
               PROVE  a < b \/ (a = b /\ h < i)
    BY DEF RealTime
  <1>1. a \in Nat /\ b \in Nat /\ p.id \in Nat /\ p.done \in Nat
    <2>1. Lives(j)' = 1..Len(lives'[j]) /\ Len(lives'[j]) \in Nat
      BY DEF Typed, Lives
    <2> QED BY <2>1 DEF PointType
  <1>2. CASE /\ a \in Lives(j) /\ h \in Points(j, a) /\ At(j, a, h)' = At(j, a, h)
             /\ b \in Lives(j) /\ i \in Points(j, b) /\ At(j, b, i)' = At(j, b, i)
    BY <1>2 DEF RealTime
  <1>3. CASE /\ a \in Lives(j) /\ h \in Points(j, a) /\ At(j, a, h)' = At(j, a, h)
             /\ j = k /\ b = l /\ i = n
    <2>1. At(k, l, n)' = p
      BY AddedPlaces
    <2>2. At(k, a, h).done < p.id /\ At(k, a, h) \in PointType
      BY <1>3, <2>1, Parts
    <2>3. ~(a > l)
      <3>1. ASSUME a > l PROVE p.id <= At(k, a, h).done
        BY <3>1, <1>3
      <3>2. At(k, a, h).done \in Nat
        BY <2>2 DEF PointType
      <3> QED BY <3>1, <3>2, <2>2, <1>1
    <2>4. ASSUME a = l PROVE h < n
      BY <2>4, <1>3, AddedPlaces
    <2> QED BY <2>3, <2>4, <1>1, <1>3
  <1>4. CASE j = k /\ a = l /\ h = n
    <2>1. At(j, a, h)' = p
      BY <1>4, AddedPlaces
    <2>2. ~(p.done < At(j, b, i)'.id)
      <3>1. CASE b \in Lives(j) /\ i \in Points(j, b) /\ At(j, b, i)' = At(j, b, i)
        <4>1. At(j, b, i).id \in Nat /\ At(j, b, i).done \in Nat
          BY <3>1, Parts DEF PointType
        <4>2. At(j, b, i).id <= At(j, b, i).done /\ At(j, b, i).done <= issued
          BY <3>1 DEF Times
        <4> QED BY <3>1, <4>1, <4>2
      <3>2. CASE At(j, b, i)' = p
        BY <3>2, <1>1
      <3> QED BY <3>1, <3>2, AddedPlaces
    <2> QED BY <2>1, <2>2
  <1> QED BY <1>2, <1>3, <1>4, AddedPlaces

LEMMA OnceKeeps ==
  ASSUME Once, NEW k \in Keys, NEW l, NEW n, NEW p, Adds(k, l, n, p),
         p.op \in Ops => \A j \in Keys : \A m \in Lives(j) : \A i \in Points(j, m) :
                            At(j, m, i).op \in Ops => At(j, m, i).id # p.id
  PROVE  Once'
  <1>1. ASSUME NEW j \in Keys, NEW g \in Keys, NEW a \in Lives(j)', NEW b \in Lives(g)',
               NEW h \in Points(j, a)', NEW i \in Points(g, b)',
               At(j, a, h)'.op \in Ops, At(g, b, i)'.op \in Ops,
               At(j, a, h)'.id = At(g, b, i)'.id
        PROVE  <<j, a, h>> = <<g, b, i>>
    <2> DEFINE Old(x, y, z) == y \in Lives(x) /\ z \in Points(x, y) /\ At(x, y, z)' = At(x, y, z)
    <2>1. Old(j, a, h) \/ (j = k /\ a = l /\ h = n /\ At(j, a, h)' = p)
      BY AddedPlaces
    <2>2. Old(g, b, i) \/ (g = k /\ b = l /\ i = n /\ At(g, b, i)' = p)
      BY AddedPlaces
    <2>3. CASE Old(j, a, h) /\ Old(g, b, i)
      BY <1>1, <2>3 DEF Once
    <2>4. CASE Old(j, a, h) /\ At(g, b, i)' = p
      BY <1>1, <2>4
    <2>5. CASE At(j, a, h)' = p /\ Old(g, b, i)
      BY <1>1, <2>5
    <2> QED BY <2>1, <2>2, <2>3, <2>4, <2>5
  <1> QED BY <1>1 DEF Once

LEMMA ToldKeeps ==
  ASSUME Told, NEW k \in Keys, NEW l, NEW n, NEW p, Adds(k, l, n, p),
         \A b \in Clients : \/ task'[b] = task[b] \/ task'[b].pc # "idle"
                            \/ /\ task'[b].key = k /\ task'[b].op = p.op
                               /\ task'[b].id = p.id /\ task'[b].reply = p.reply
  PROVE  Told'
  <1>1. ASSUME NEW b \in Clients, task'[b].pc = "idle", task'[b].op # "none"
        PROVE  \E j \in Keys : \E a \in Lives(j)' : \E i \in Points(j, a)' :
                  /\ task'[b].key = j /\ task'[b].op = At(j, a, i)'.op
                  /\ task'[b].id = At(j, a, i)'.id /\ task'[b].reply = At(j, a, i)'.reply
    <2>1. CASE task'[b] = task[b]
      <3>0. PICK j \in Keys : \E a \in Lives(j) : \E i \in Points(j, a) :
               /\ task[b].key = j /\ task[b].op = At(j, a, i).op
               /\ task[b].id = At(j, a, i).id /\ task[b].reply = At(j, a, i).reply
        BY <1>1, <2>1 DEF Told
      <3>a. PICK a \in Lives(j) : \E i \in Points(j, a) :
               /\ task[b].key = j /\ task[b].op = At(j, a, i).op
               /\ task[b].id = At(j, a, i).id /\ task[b].reply = At(j, a, i).reply
        BY <3>0
      <3>1. PICK i \in Points(j, a) :
               /\ task[b].key = j /\ task[b].op = At(j, a, i).op
               /\ task[b].id = At(j, a, i).id /\ task[b].reply = At(j, a, i).reply
        BY <3>a
      <3>2. a \in Lives(j)' /\ i \in Points(j, a)' /\ At(j, a, i)' = At(j, a, i)
        BY AddedPlaces
      <3> QED BY <2>1, <3>1, <3>2
    <2>2. CASE /\ task'[b].key = k /\ task'[b].op = p.op
               /\ task'[b].id = p.id /\ task'[b].reply = p.reply
      <3>1. l \in Lives(k)' /\ n \in Points(k, l)' /\ At(k, l, n)' = p
        BY AddedPlaces
      <3> QED BY <2>2, <3>1
    <2> QED BY <1>1, <2>1, <2>2
  <1> QED BY <1>1 DEF Told

LEMMA WorksKeep ==
  ASSUME Typed, Works, NEW k \in Keys, NEW l, NEW n, NEW p, Adds(k, l, n, p),
         p.done = issued', issued \in Nat, issued' \in Nat, issued <= issued',
         \A b \in Clients : task[b].id \in Nat /\ task[b].id <= issued,
         \A b \in Clients :
            \/ task'[b] = task[b] \/ task'[b].pc \in {"idle", "create"}
            \/ /\ task'[b].key = k /\ task'[b].ref = lives'[k][l].ref
               /\ \A m \in Lives(k)' : ~(m > l)
  PROVE  Works'
  <1>1. ASSUME NEW b \in Clients, task'[b].pc \notin {"idle", "create"}
        PROVE  \E j \in Keys : \E a \in Lives(j)' :
                  /\ task'[b].key = j /\ task'[b].ref = lives'[j][a].ref
                  /\ \A m \in Lives(j)' : \A i \in Points(j, m)' :
                        m > a => task'[b].id <= At(j, m, i)'.done
    <2>1. CASE task'[b] = task[b]
      <3>0. PICK j \in Keys : \E a \in Lives(j) :
               /\ task[b].key = j /\ task[b].ref = lives[j][a].ref
               /\ \A m \in Lives(j) : \A i \in Points(j, m) :
                     m > a => task[b].id <= At(j, m, i).done
        BY <1>1, <2>1 DEF Works
      <3>1. PICK a \in Lives(j) :
               /\ task[b].key = j /\ task[b].ref = lives[j][a].ref
               /\ \A m \in Lives(j) : \A i \in Points(j, m) :
                     m > a => task[b].id <= At(j, m, i).done
        BY <3>0
      <3>2. a \in Lives(j)' /\ lives'[j][a].ref = lives[j][a].ref
        BY AddedPlaces
      <3>3. ASSUME NEW m \in Lives(j)', NEW i \in Points(j, m)', m > a
            PROVE  task[b].id <= At(j, m, i)'.done
        <4>1. CASE m \in Lives(j) /\ i \in Points(j, m) /\ At(j, m, i)' = At(j, m, i)
          BY <3>1, <3>3, <4>1
        <4>2. CASE At(j, m, i)' = p
          BY <4>2
        <4> QED BY <4>1, <4>2, AddedPlaces
      <3> QED BY <2>1, <3>1, <3>2, <3>3
    <2>2. CASE /\ task'[b].key = k /\ task'[b].ref = lives'[k][l].ref
               /\ \A m \in Lives(k)' : ~(m > l)
      BY <2>2, AddedPlaces
    <2> QED BY <1>1, <2>1, <2>2
  <1> QED BY <1>1 DEF Works

LEMMA UnansweredKeep ==
  ASSUME Typed, Times, Unanswered, NEW k \in Keys, NEW l, NEW n, NEW p, Adds(k, l, n, p),
         issued \in Nat, issued' \in Nat, issued <= issued', NEW c,
         \A b \in Clients : task[b].id \in Nat /\ task[b].id <= issued,
         \A b \in Clients : b # c => task'[b] = task[b],
         c \in Clients => \/ task'[c] = task[c] \/ task'[c].pc = "idle"
                          \/ task'[c].id > issued /\ p.op \notin Ops,
         p.op \in Ops => /\ c \in Clients /\ task'[c].pc = "idle"
                         /\ \A b \in Clients : b # c /\ task[b].pc # "idle" => task[b].id # p.id
  PROVE  Unanswered'
  <1>1. ASSUME NEW b \in Clients, task'[b].pc # "idle",
               NEW a \in Clients, a # b, task'[a].pc # "idle"
        PROVE  task'[a].id # task'[b].id
    <2>1. CASE task'[a] = task[a] /\ task'[b] = task[b]
      BY <1>1, <2>1 DEF Unanswered
    <2>2. CASE task'[a] = task[a] /\ b = c /\ task'[c].id > issued
      <3>1. task[a].id \in Nat /\ task[a].id <= issued
        OBVIOUS
      <3>2. task'[b].id > issued
        BY <2>2
      <3> HIDE DEF Unanswered
      <3>3. ASSUME task[a].id = task'[b].id PROVE FALSE
        BY <3>1, <3>2, <3>3
      <3> QED BY <2>2, <3>3
    <2>3. CASE task'[b] = task[b] /\ a = c /\ task'[c].id > issued
      <3>1. task[b].id \in Nat /\ task[b].id <= issued
        OBVIOUS
      <3>2. task'[a].id > issued
        BY <2>3
      <3>3. ASSUME task[b].id = task'[a].id PROVE FALSE
        BY <3>1, <3>2, <3>3
      <3> QED BY <2>3, <3>3
    <2> QED BY <1>1, <2>1, <2>2, <2>3
  <1>2. ASSUME NEW b \in Clients, task'[b].pc # "idle", NEW j \in Keys,
               NEW m \in Lives(j)', NEW i \in Points(j, m)', At(j, m, i)'.op \in Ops
        PROVE  At(j, m, i)'.id # task'[b].id
    <2>1. CASE /\ m \in Lives(j) /\ i \in Points(j, m) /\ At(j, m, i)' = At(j, m, i)
               /\ task'[b] = task[b]
      BY <1>2, <2>1 DEF Unanswered
    <2>2. CASE /\ m \in Lives(j) /\ i \in Points(j, m) /\ At(j, m, i)' = At(j, m, i)
               /\ b = c /\ task'[c].id > issued
      <3>1. At(j, m, i).id \in Nat /\ At(j, m, i).done \in Nat
        BY <2>2, Parts DEF PointType
      <3>2. At(j, m, i).id <= At(j, m, i).done /\ At(j, m, i).done <= issued
        BY <2>2 DEF Times
      <3>3. ASSUME At(j, m, i).id = task'[b].id PROVE FALSE
        <4>1. task'[b].id > issued
          BY <2>2
        <4> QED BY <3>1, <3>2, <3>3, <4>1
      <3> QED BY <2>2, <3>3
    <2>3. CASE At(j, m, i)' = p
      <3>1. b # c /\ task'[b] = task[b]
        BY <1>2, <2>3
      <3> QED BY <1>2, <2>3, <3>1
    <2> QED BY <1>2, <2>1, <2>2, <2>3, AddedPlaces
  <1> QED BY <1>1, <1>2 DEF Unanswered

-----------------------------------------------------------------------------
(***************************************************************************)
(* The chain of points: a new one at the end of a life, be it over or not. *)
(***************************************************************************)
LEMMA SeenIs ==
  ASSUME TypeOK, NEW d \in DocRefs \cup {None}, d # None => Allocated(d)
  PROVE  Seen(heap, d) \in Contents /\ (Seen(heap, d).there <=> d # None)
  BY DEF TypeOK, Seen, Gone, Contents, Allocated, Doc, NoValue

\* What begins a life is the same after any content.
LEMMA OpenerAny ==
  ASSUME NEW s \in Contents, NEW t \in Contents, s.there <=> t.there, NEW p,
         Resets(p), Allowed(s, p), p.after = Effect(s, p)
  PROVE  Allowed(t, p) /\ p.after = Effect(t, p)
  BY DEF Resets, Allowed, Effect, Contents

Chain == Typed /\ Ends /\ Owned /\ Begins /\ Explained /\ Current

\* The Arcs of two lives are two.
LEMMA ApartRefs ==
  ASSUME Owned, NEW k \in Keys, NEW l \in Lives(k), NEW j \in Keys, NEW m \in Lives(j),
         <<j, m>> # <<k, l>>, lives[j][m].ref # None
  PROVE  lives[j][m].ref # lives[k][l].ref
  <1>1. CASE j = k
    BY <1>1 DEF Owned
  <1>2. CASE j # k
    BY <1>2 DEF Owned
  <1> QED BY <1>1, <1>2

LEMMA JoinsKeeps ==
  ASSUME TypeOK, TypeOK', Chain, NEW k \in Keys, NEW l \in Lives(k), NEW p \in PointType,
         Joins(k, l, p), documents' = documents,
         p.after = Seen(heap', lives[k][l].ref),
         \A d \in DocRefs : Allocated(d) =>
            /\ heap'[d] # None /\ heap'[d].key = heap[d].key
            /\ d # lives[k][l].ref => Seen(heap', d) = Seen(heap, d),
         Allowed(Seen(heap, lives[k][l].ref), p),
         p.after = Effect(Seen(heap, lives[k][l].ref), p)
  PROVE  Chain'
  <1> USE DEF Chain
  <1>n. PICK n \in Nat : n = Len(lives[k][l].points) + 1
    BY Parts
  <1>r. PICK r \in DocRefs \cup {None} : r = lives[k][l].ref
    BY Parts
  <1>1. /\ Typed' /\ Adds(k, l, n, p)
        /\ \A j \in Keys : j # k => lives'[j] = lives[j]
        /\ Len(lives'[k]) = Len(lives[k])
        /\ \A m \in Lives(k) : m # l => lives'[k][m] = lives[k][m]
        /\ lives'[k][l].ref = r /\ Len(lives'[k][l].points) = n
    BY JoinsIs, <1>n, <1>r
  <1>2. /\ \A j \in Keys : Lives(j)' = Lives(j)
        /\ \A j \in Keys : Len(lives'[j]) = Len(lives[j])
        /\ \A j \in Keys : \A m \in Lives(j) : lives'[j][m].ref = lives[j][m].ref
        /\ \A j \in Keys : \A m \in Lives(j) : <<j, m>> # <<k, l>> => lives'[j][m] = lives[j][m]
    <2>1. Lives(k)' = Lives(k)
      BY <1>1 DEF Lives, Typed
    <2>2. ASSUME NEW j \in Keys, j # k PROVE Lives(j)' = Lives(j) /\ lives'[j] = lives[j]
      BY <2>2, <1>1 DEF Lives
    <2>3. ASSUME NEW j \in Keys, NEW m \in Lives(j)
          PROVE  /\ lives'[j][m].ref = lives[j][m].ref
                 /\ <<j, m>> # <<k, l>> => lives'[j][m] = lives[j][m]
      <3>1. CASE j = k /\ m = l
        BY <3>1, <1>1, <1>r
      <3>2. CASE j = k /\ m # l
        BY <3>2, <1>1
      <3>3. CASE j # k
        BY <3>3, <2>2
      <3> QED BY <3>1, <3>2, <3>3
    <2>4. ASSUME NEW j \in Keys PROVE Lives(j)' = Lives(j) /\ Len(lives'[j]) = Len(lives[j])
      BY <1>1, <2>1, <2>2
    <2> QED BY <2>3, <2>4
  <1>3. /\ \A j \in Keys : \A m \in Lives(j) : \A i \in Points(j, m) : At(j, m, i)' = At(j, m, i)
        /\ \A j \in Keys : \A m \in Lives(j) : \A i \in Points(j, m)' :
              i \in Points(j, m) \/ (j = k /\ m = l /\ i = n)
        /\ At(k, l, n)' = p
    BY <1>1, <1>2, AddedPlaces
  <1>4. n - 1 \in Nat /\ n - 1 >= 1 /\ Points(k, l) = 1..(n - 1)
    BY <1>n, Parts
  <1>5. r # None => Allocated(r)
    BY <1>r DEF Owned
  <1>6. /\ Seen(heap, r) \in Contents /\ (Seen(heap, r).there <=> r # None)
        /\ p.after \in Contents /\ (p.after.there <=> r # None)
    <2>1. r # None => Allocated(r)'
      BY <1>4, <1>5 DEF Allocated
    <2>2. Seen(heap', r) \in Contents /\ (Seen(heap', r).there <=> r # None)
      BY <1>4, <2>1 DEF TypeOK, Seen, Gone, Contents, Allocated, Doc, NoValue
    <2> QED BY <1>5, <1>r, <2>2, SeenIs
  <1>7. At(k, l, n - 1).after = Seen(heap, r)
    BY <1>4, <1>n, <1>r DEF Ends
  <1>8. ASSUME NEW j \in Keys, NEW m \in Lives(j), <<j, m>> # <<k, l>>
        PROVE  /\ Points(j, m)' = Points(j, m) /\ Len(lives'[j][m].points) = Len(lives[j][m].points)
               /\ Seen(heap', lives[j][m].ref) = Seen(heap, lives[j][m].ref)
    <2>1. lives'[j][m] = lives[j][m]
      BY <1>2, <1>8
    <2>2. Seen(heap', lives[j][m].ref) = Seen(heap, lives[j][m].ref)
      <3>1. CASE lives[j][m].ref = None
        BY <3>1 DEF Seen
      <3>2. CASE lives[j][m].ref # None
        <4>1. lives[j][m].ref # r
          BY <1>8, <3>2, ApartRefs, <1>r
        <4>2. Allocated(lives[j][m].ref) /\ lives[j][m].ref \in DocRefs
          BY <3>2, Parts DEF Owned
        <4> QED BY <4>1, <4>2, <1>r
      <3> QED BY <3>1, <3>2
    <2> QED BY <2>1, <2>2 DEF Points
  <1>9. Ends'
    <2>1. ASSUME NEW j \in Keys, NEW m \in Lives(j)
          PROVE  /\ lives'[j][m].points[Len(lives'[j][m].points)].after = Seen(heap', lives'[j][m].ref)
                 /\ \A i \in Points(j, m)' : At(j, m, i)'.after.there <=> lives'[j][m].ref # None
      <3>1. CASE j = k /\ m = l
        <4>1. lives'[k][l].points[Len(lives'[k][l].points)].after = Seen(heap', r)
          BY <1>1, <1>3, <1>r DEF At
        <4>2. \A i \in Points(k, l)' : At(k, l, i)'.after.there <=> r # None
          BY <1>3, <1>6, <1>r DEF Ends
        <4> QED BY <3>1, <4>1, <4>2, <1>1
      <3>2. CASE <<j, m>> # <<k, l>>
        <4>1. lives'[j][m] = lives[j][m]
          BY <3>2, <1>2
        <4> QED BY <4>1, <3>2, <1>8 DEF Ends, At, Points
      <3> QED BY <3>1, <3>2
    <2> QED BY <2>1, <1>2 DEF Ends, At
  <1>10. Owned'
    <2>1. ASSUME NEW j \in Keys, NEW m \in Lives(j), lives[j][m].ref # None
          PROVE  /\ heap'[lives[j][m].ref] # None /\ heap'[lives[j][m].ref].key = j
                 /\ \A h \in Lives(j) : lives[j][h].ref = lives[j][m].ref => h = m
      <3>1. Allocated(lives[j][m].ref) /\ lives[j][m].ref \in DocRefs
            /\ heap[lives[j][m].ref].key = j
        BY <2>1, Parts DEF Owned
      <3> QED BY <2>1, <3>1 DEF Owned
    <2> QED BY <2>1, <1>2 DEF Owned, Allocated
  <1>11. Begins'
    <2>1. ASSUME NEW j \in Keys, NEW m \in Lives(j) PROVE At(j, m, 1)' = At(j, m, 1)
      <3>1. 1 \in Points(j, m)
        BY Parts
      <3> QED BY <3>1, <1>3
    <2> QED BY <2>1, <1>2 DEF Begins
  <1>12. Explained'
    <2>1. ASSUME NEW j \in Keys, NEW m \in Lives(j), NEW i \in Points(j, m)', m > 1 \/ i > 1
          PROVE  /\ Allowed(Found(j, m, i)', At(j, m, i)')
                 /\ At(j, m, i)'.after = Effect(Found(j, m, i)', At(j, m, i)')
      <3>0. /\ m \in Nat /\ (m > 1 => m - 1 \in Lives(j)) /\ Points(j, m) = 1..Len(lives[j][m].points)
            /\ Len(lives[j][m].points) \in Nat /\ Len(lives[j][m].points) >= 1
            /\ m >= 1
        BY Parts
      <3>1. CASE j = k /\ m = l /\ i = n
        <4>1. Found(k, l, n)' = Seen(heap, r)
          <5>1. Found(k, l, n)' = At(k, l, n - 1)'.after
            BY <1>4 DEF Found, At
          <5>2. At(k, l, n - 1)' = At(k, l, n - 1)
            BY <1>3, <1>4
          <5> QED BY <5>1, <5>2, <1>7
        <4> QED BY <3>1, <4>1, <1>3, <1>r
      <3>2. CASE i \in Points(j, m) /\ i > 1
        <4>1. Found(j, m, i)' = Found(j, m, i)
          <5>1. i - 1 \in Points(j, m)
            BY <3>0, <3>2
          <5>2. At(j, m, i - 1)' = At(j, m, i - 1)
            BY <5>1, <1>3
          <5> QED BY <5>2, <3>2 DEF Found, At
        <4> QED BY <3>2, <4>1, <1>3 DEF Explained
      <3>3. CASE i \in Points(j, m) /\ ~(i > 1)
        <4>1. i = 1 /\ m > 1 /\ m - 1 \in Lives(j) /\ m - 1 \in Nat
          BY <3>0, <3>3, <2>1
        <4>2. At(j, m, i)' = At(j, m, i)
          BY <3>3, <1>3
        <4>3. Allowed(Found(j, m, i), At(j, m, i)) /\ At(j, m, i).after = Effect(Found(j, m, i), At(j, m, i))
          BY <3>3, <4>1 DEF Explained
        <4>4. Found(j, m, i) = At(j, m - 1, Len(lives[j][m - 1].points)).after
          BY <4>1 DEF Found
        <4>5. Found(j, m, i)' = lives'[j][m - 1].points[Len(lives'[j][m - 1].points)].after
          BY <4>1 DEF Found, At
        <4>6. CASE j = k /\ m - 1 = l
          <5>1. Found(j, m, i) = Seen(heap, r)
            BY <4>4, <4>6, <1>7, <1>n
          <5>2. Found(j, m, i)' = p.after
            BY <4>5, <4>6, <1>1, <1>3 DEF At
          <5>3. Resets(At(j, m, 1))
            BY <4>1 DEF Begins
          <5>4. Seen(heap, r) \in Contents /\ p.after \in Contents
                /\ (Seen(heap, r).there <=> p.after.there)
            BY <1>6
          <5>5. Allowed(p.after, At(j, m, 1)) /\ At(j, m, 1).after = Effect(p.after, At(j, m, 1))
            <6>1. Allowed(Seen(heap, r), At(j, m, 1))
                  /\ At(j, m, 1).after = Effect(Seen(heap, r), At(j, m, 1))
              BY <4>1, <4>3, <5>1
            <6> QED BY <5>3, <5>4, <6>1, OpenerAny
          <5> QED BY <5>2, <5>5, <4>1, <4>2
        <4>7. CASE ~(j = k /\ m - 1 = l)
          <5>1. lives'[j][m - 1] = lives[j][m - 1]
            BY <4>1, <4>7, <1>2
          <5>2. Found(j, m, i)' = Found(j, m, i)
            BY <5>1, <4>4, <4>5 DEF At
          <5> QED BY <5>2, <4>2, <4>3
        <4> QED BY <4>6, <4>7
      <3> QED BY <3>1, <3>2, <3>3, <1>3
    <2> QED BY <2>1, <1>2 DEF Explained
  <1>13. Current'
    <2>1. ASSUME NEW j \in Keys PROVE Len(lives[j]) \in Lives(j)
      BY Parts
    <2>2. ASSUME NEW j \in Keys
          PROVE  /\ lives'[j][Len(lives'[j])].ref = documents'[j]
                 /\ lives'[j][Len(lives'[j])].points[Len(lives'[j][Len(lives'[j])].points)].after
                       = Seen(heap', documents'[j])
      <3>m. PICK m \in Nat : m = Len(lives[j])
        BY Parts
      <3>1. m \in Lives(j) /\ Len(lives'[j]) = m /\ lives[j][m].ref = documents[j]
        BY <2>1, <1>2, <3>m DEF Current
      <3>2. lives'[j][m].ref = lives[j][m].ref /\ m \in Lives(j)'
        BY <3>1, <1>2
      <3>3. lives'[j][m].points[Len(lives'[j][m].points)].after = Seen(heap', lives'[j][m].ref)
        BY <1>9, <3>2 DEF Ends, At
      <3> QED BY <3>1, <3>2, <3>3
    <2> QED BY <2>2 DEF Current, At
  <1> QED BY <1>1, <1>9, <1>10, <1>11, <1>12, <1>13

LEMMA OpensKeeps ==
  ASSUME TypeOK, TypeOK', Chain, NEW k \in Keys, NEW p \in PointType, Opens(k, p),
         \A j \in Keys : j # k => documents'[j] = documents[j],
         p.after = Seen(heap', documents'[k]),
         \A d \in DocRefs : Allocated(d) =>
            /\ heap'[d] # None /\ heap'[d].key = heap[d].key
            /\ Seen(heap', d) = Seen(heap, d),
         documents'[k] # None =>
            /\ ~Allocated(documents'[k])
            /\ heap'[documents'[k]] # None /\ heap'[documents'[k]].key = k,
         Resets(p), Allowed(Seen(heap, documents[k]), p),
         p.after = Effect(Seen(heap, documents[k]), p)
  PROVE  Chain'
  <1> USE DEF Chain
  <1>r. PICK r \in DocRefs \cup {None} : r = documents'[k]
    BY DEF TypeOK
  <1>l. PICK l \in Nat : l = Len(lives[k]) + 1
    BY Parts
  <1>1. /\ Typed' /\ Adds(k, l, 1, p)
        /\ \A j \in Keys : j # k => lives'[j] = lives[j]
        /\ Len(lives'[k]) = l
        /\ \A m \in Lives(k) : lives'[k][m] = lives[k][m]
        /\ lives'[k][l].ref = r /\ Len(lives'[k][l].points) = 1
    BY OpensIs, <1>l, <1>r
  <1>2. /\ \A j \in Keys : \A m \in Lives(j) : m \in Lives(j)' /\ lives'[j][m] = lives[j][m]
        /\ \A j \in Keys : \A m \in Lives(j)' : m \in Lives(j) \/ (j = k /\ m = l)
    <2>1. \A m \in Lives(k)' : m \in Lives(k) \/ m = l
      <3>1. Lives(k)' = 1..l /\ Lives(k) = 1..(l - 1)
        BY <1>1, <1>l, Parts DEF Lives, Typed
      <3> QED BY <3>1
    <2>2. ASSUME NEW j \in Keys, j # k PROVE Lives(j)' = Lives(j) /\ lives'[j] = lives[j]
      BY <2>2, <1>1 DEF Lives
    <2>3. \A j \in Keys : \A m \in Lives(j) : m \in Lives(j)'
      BY <1>1, AddedPlaces
    <2> QED BY <1>1, <2>1, <2>2, <2>3
  <1>3. /\ l \in Lives(k)' /\ l \notin Lives(k) /\ l >= 2
        /\ Lives(k) = 1..(l - 1)
        /\ At(k, l, 1)' = p /\ Points(k, l)' = 1..1
    <2>1. Points(k, l)' = 1..1
      BY <1>1, Parts DEF Typed, Lives, Points, Adds, LifeType
    <2> QED BY <2>1, <1>1, <1>l, Parts, AddedPlaces
  <1>4. p.after = Seen(heap', r) /\ (p.after.there <=> r # None)
    <2>1. r # None => heap'[r] \in Doc
      BY <1>r DEF TypeOK
    <2> QED BY <1>r, <2>1 DEF Seen, Gone, Doc
  <1>5. ASSUME NEW j \in Keys, NEW m \in Lives(j)
        PROVE  /\ Points(j, m)' = Points(j, m)
               /\ \A i \in Points(j, m) : At(j, m, i)' = At(j, m, i)
               /\ lives'[j][m].ref = lives[j][m].ref
               /\ Len(lives'[j][m].points) = Len(lives[j][m].points)
               /\ Seen(heap', lives[j][m].ref) = Seen(heap, lives[j][m].ref)
               /\ lives[j][m].ref # None =>
                     /\ Allocated(lives[j][m].ref) /\ lives[j][m].ref \in DocRefs
                     /\ heap[lives[j][m].ref].key = j /\ lives[j][m].ref # r
    <2>1. lives'[j][m] = lives[j][m]
      BY <1>2
    <2>2. lives[j][m].ref # None =>
             /\ Allocated(lives[j][m].ref) /\ lives[j][m].ref \in DocRefs
             /\ heap[lives[j][m].ref].key = j
      BY Parts DEF Owned
    <2>3. Seen(heap', lives[j][m].ref) = Seen(heap, lives[j][m].ref)
      BY <2>2 DEF Seen
    <2>4. lives[j][m].ref # None => lives[j][m].ref # r
      BY <2>2, <1>r
    <2> QED BY <2>1, <2>2, <2>3, <2>4 DEF Points, At
  <1>6. Ends'
    <2>1. ASSUME NEW j \in Keys, NEW m \in Lives(j)'
          PROVE  /\ lives'[j][m].points[Len(lives'[j][m].points)].after = Seen(heap', lives'[j][m].ref)
                 /\ \A i \in Points(j, m)' : At(j, m, i)'.after.there <=> lives'[j][m].ref # None
      <3>1. CASE j = k /\ m = l
        <4>1. \A i \in Points(k, l)' : At(k, l, i)' = p
          BY <1>3
        <4>2. lives'[k][l].points[Len(lives'[k][l].points)] = p
          BY <1>1, <1>3 DEF At
        <4> QED BY <3>1, <4>1, <4>2, <1>1, <1>4
      <3>2. CASE m \in Lives(j)
        <4>1. lives'[j][m] = lives[j][m]
          BY <3>2, <1>2
        <4> QED BY <3>2, <4>1, <1>5 DEF Ends, At
      <3> QED BY <3>1, <3>2, <1>2
    <2> QED BY <2>1 DEF Ends, At
  <1>7. Owned'
    <2>1. ASSUME NEW j \in Keys, NEW m \in Lives(j)', lives'[j][m].ref # None
          PROVE  /\ heap'[lives'[j][m].ref] # None /\ heap'[lives'[j][m].ref].key = j
                 /\ \A h \in Lives(j)' : lives'[j][h].ref = lives'[j][m].ref => h = m
      <3>1. CASE j = k /\ m = l
        <4>1. lives'[k][l].ref = r
          BY <1>1
        <4>2. heap'[r] # None /\ heap'[r].key = k
          BY <2>1, <3>1, <4>1, <1>r
        <4>3. ASSUME NEW h \in Lives(k)', lives'[k][h].ref = r PROVE h = l
          <5>1. r # None
            BY <4>1, <2>1, <3>1
          <5>2. ASSUME h \in Lives(k) PROVE FALSE
            <6>1. lives[k][h].ref = r
              BY <4>3, <5>2, <1>5
            <6> QED BY <5>1, <5>2, <6>1, <1>5
          <5> QED BY <5>2, <1>2
        <4> QED BY <3>1, <4>1, <4>2, <4>3
      <3>2. CASE m \in Lives(j)
        <4>1. lives'[j][m].ref = lives[j][m].ref
          BY <3>2, <1>5
        <4>2. ASSUME NEW h \in Lives(j)', lives'[j][h].ref = lives[j][m].ref PROVE h = m
          <5>1. CASE h \in Lives(j)
            BY <5>1, <4>1, <4>2, <3>2, <2>1, <1>5 DEF Owned
          <5>2. CASE j = k /\ h = l
            BY <5>2, <4>1, <4>2, <3>2, <2>1, <1>1, <1>5
          <5> QED BY <5>1, <5>2, <1>2
        <4> QED BY <4>1, <4>2, <3>2, <2>1, <1>5
      <3> QED BY <3>1, <3>2, <1>2
    <2> QED BY <2>1 DEF Owned, Allocated
  <1>8. Begins'
    <2>1. ASSUME NEW j \in Keys, NEW m \in Lives(j), m > 1 PROVE Resets(At(j, m, 1)')
      <3>1. 1 \in Points(j, m)
        BY Parts
      <3> QED BY <2>1, <3>1, <1>5 DEF Begins
    <2> QED BY <2>1, <1>2, <1>3 DEF Begins
  <1>9. Explained'
    <2>1. ASSUME NEW j \in Keys, NEW m \in Lives(j)', NEW i \in Points(j, m)', m > 1 \/ i > 1
          PROVE  /\ Allowed(Found(j, m, i)', At(j, m, i)')
                 /\ At(j, m, i)'.after = Effect(Found(j, m, i)', At(j, m, i)')
      <3>1. CASE j = k /\ m = l
        <4>1. i = 1
          BY <3>1, <1>3
        <4>2. Found(k, l, 1)' = lives'[k][l - 1].points[Len(lives'[k][l - 1].points)].after
          BY DEF Found, At
        <4>3. l - 1 \in Lives(k) /\ l - 1 = Len(lives[k])
          BY <1>3, <1>l
        <4>4. lives'[k][l - 1] = lives[k][l - 1]
          BY <4>3, <1>2
        <4>5. lives[k][l - 1].points[Len(lives[k][l - 1].points)].after = Seen(heap, documents[k])
          BY <4>3 DEF Current, At
        <4>6. Found(k, l, 1)' = Seen(heap, documents[k])
          BY <4>2, <4>4, <4>5
        <4> QED BY <3>1, <4>1, <4>6, <1>3
      <3>2. CASE m \in Lives(j)
        <4>0. /\ m \in Nat /\ (m > 1 => m - 1 \in Lives(j)) /\ Points(j, m) = 1..Len(lives[j][m].points)
              /\ i \in Points(j, m) /\ m >= 1
          BY <3>2, <1>5, Parts
        <4>1. At(j, m, i)' = At(j, m, i)
          BY <3>2, <4>0, <1>5
        <4>2. Found(j, m, i)' = Found(j, m, i)
          <5>1. CASE i > 1
            BY <5>1, <3>2, <1>2 DEF Found, At
          <5>2. CASE ~(i > 1)
            <6>1. m - 1 \in Lives(j)
              BY <5>2, <4>0, <2>1
            <6>2. lives'[j][m - 1] = lives[j][m - 1]
              BY <6>1, <1>2
            <6> QED BY <5>2, <6>2 DEF Found, At
          <5> QED BY <5>1, <5>2
        <4> QED BY <3>2, <4>0, <4>1, <4>2, <2>1 DEF Explained
      <3> QED BY <3>1, <3>2, <1>2
    <2> QED BY <2>1 DEF Explained
  <1>10. Current'
    <2>1. ASSUME NEW j \in Keys
          PROVE  /\ lives'[j][Len(lives'[j])].ref = documents'[j]
                 /\ lives'[j][Len(lives'[j])].points[Len(lives'[j][Len(lives'[j])].points)].after
                       = Seen(heap', documents'[j])
      <3>1. CASE j = k
        <4>1. lives'[k][l].ref = documents'[k] /\ Len(lives'[k]) = l
          BY <1>1, <1>r
        <4>2. lives'[k][l].points[Len(lives'[k][l].points)] = p
          BY <1>1, <1>3 DEF At
        <4> QED BY <3>1, <4>1, <4>2
      <3>2. CASE j # k
        <4>m. PICK m \in Nat : m = Len(lives[j])
          BY Parts
        <4>1. m \in Lives(j) /\ Len(lives'[j]) = m /\ lives[j][m].ref = documents[j]
          BY <3>2, <4>m, <1>1, Parts DEF Current
        <4>2. lives'[j][m].ref = lives[j][m].ref /\ m \in Lives(j)'
          BY <4>1, <1>2
        <4>3. lives'[j][m].points[Len(lives'[j][m].points)].after = Seen(heap', lives'[j][m].ref)
          BY <1>6, <4>2 DEF Ends, At
        <4> QED BY <3>2, <4>1, <4>2, <4>3
      <3> QED BY <3>1, <3>2
    <2> QED BY <2>1 DEF Current, At
  <1> QED BY <1>1, <1>6, <1>7, <1>8, <1>9, <1>10

-----------------------------------------------------------------------------
(***************************************************************************)
(* Each kind of step, as a point in the order.                             *)
(***************************************************************************)
Order == Times /\ RealTime /\ Once /\ Told /\ Works /\ Unanswered

LEMMA OrderInvIs == OrderInv <=> IInv /\ Engaged /\ Chain /\ Order
  BY DEF OrderInv, Chain, Order, Linearized

LEMMA Numbers ==
  ASSUME IInv, Times
  PROVE  /\ issued \in Nat
         /\ \A b \in Clients : task[b].id \in Nat /\ task[b].id <= issued
  BY DEF IInv, TypeOK, Times, Task

LEMMA AnsweredKeeps ==
  ASSUME IInv, IInv', Typed, Typed', Order, NEW c \in Clients, NEW k \in Keys, NEW l, NEW n,
         NEW p \in PointType, Adds(k, l, n, p),
         \A b \in Clients : b # c => task'[b] = task[b],
         task'[c].pc = "idle", task'[c].key = k, task'[c].op = p.op,
         task'[c].id = p.id, task'[c].reply = p.reply, p.op \in Ops, p.done = issued',
         \/ task[c].pc = "idle" /\ issued' = issued + 1 /\ p.id = issued + 1
         \/ task[c].pc # "idle" /\ issued' = issued /\ p.id = task[c].id,
         \A m \in Lives(k) : m > l => \A i \in Points(k, m) : p.id <= At(k, m, i).done
  PROVE  Order'
  <1> USE DEF Order
  <1>1. /\ issued \in Nat /\ issued' \in Nat /\ issued <= issued'
        /\ \A b \in Clients : task[b].id \in Nat /\ task[b].id <= issued
    BY Numbers
  <1>2. p.id <= issued' /\ p.id \in Nat
    BY <1>1 DEF PointType
  <1>3. \A b \in Clients : task'[b].id <= issued'
    <2>1. ASSUME NEW b \in Clients PROVE task'[b].id <= issued'
      <3>1. CASE b = c
        BY <3>1, <1>2
      <3>2. CASE b # c
        <4>1. task[b].id \in Nat /\ task[b].id <= issued
          BY <1>1
        <4> QED BY <3>2, <4>1, <1>1
      <3> QED BY <3>1, <3>2
    <2> QED BY <2>1
  <1>4. \A j \in Keys : \A m \in Lives(j) : \A i \in Points(j, m) :
           At(j, m, i).op \in Ops => At(j, m, i).id # p.id
    <2> SUFFICES ASSUME NEW j \in Keys, NEW m \in Lives(j), NEW i \in Points(j, m),
                        At(j, m, i).op \in Ops, At(j, m, i).id = p.id
                 PROVE  FALSE
      OBVIOUS
    <2>1. CASE task[c].pc # "idle" /\ p.id = task[c].id
      BY <2>1 DEF Unanswered
    <2>2. CASE p.id = issued + 1
      <3>1. At(j, m, i).id \in Nat /\ At(j, m, i).done \in Nat
        BY Parts DEF PointType
      <3>2. At(j, m, i).id <= At(j, m, i).done /\ At(j, m, i).done <= issued
        BY DEF Times
      <3> QED BY <2>2, <3>1, <3>2, <1>1
    <2> QED BY <2>1, <2>2
  <1>5. ASSUME NEW b \in Clients, b # c, task[b].pc # "idle" PROVE task[b].id # p.id
    <2>1. CASE task[c].pc # "idle" /\ p.id = task[c].id
      BY <2>1, <1>5 DEF Unanswered
    <2>2. CASE p.id = issued + 1
      <3>1. task[b].id \in Nat /\ task[b].id <= issued
        BY <1>1
      <3> QED BY <2>2, <3>1, <1>1
    <2> QED BY <2>1, <2>2
  <1>6. Times'
    BY <1>1, <1>2, <1>3, TimesKeep
  <1>7. RealTime'
    BY <1>1, <1>2, RealTimeKeeps
  <1>8. Once'
    BY <1>4, OnceKeeps
  <1>9. Told'
    <2>1. \A b \in Clients : \/ task'[b] = task[b] \/ task'[b].pc # "idle"
                             \/ /\ task'[b].key = k /\ task'[b].op = p.op
                                /\ task'[b].id = p.id /\ task'[b].reply = p.reply
      OBVIOUS
    <2> QED BY <2>1, ToldKeeps
  <1>10. Works'
    <2>1. \A b \in Clients : task'[b] = task[b] \/ task'[b].pc \in {"idle", "create"}
      OBVIOUS
    <2> QED BY <2>1, <1>1, WorksKeep
  <1>11. Unanswered'
    BY <1>1, <1>5, UnansweredKeep
  <1> QED BY <1>6, <1>7, <1>8, <1>9, <1>10, <1>11

\* get_or_create makes a document: the command is taken up, and works on it.
LEMMA MadeKeeps ==
  ASSUME IInv, IInv', Typed, Typed', Order, NEW c \in Clients, NEW k \in Keys, NEW l, NEW n,
         NEW p \in PointType, Adds(k, l, n, p), \A m \in Lives(k)' : ~(m > l),
         \A b \in Clients : b # c => task'[b] = task[b],
         task[c].pc = "idle", task'[c].pc = "write", task'[c].key = k,
         task'[c].ref = lives'[k][l].ref, task'[c].id = issued + 1,
         p.op = "MAKE", p.id = issued + 1, p.done = issued', issued' = issued + 1
  PROVE  Order'
  <1> USE DEF Order
  <1>1. /\ issued \in Nat /\ issued' \in Nat /\ issued <= issued'
        /\ \A b \in Clients : task[b].id \in Nat /\ task[b].id <= issued
    BY Numbers
  <1>2. p.id <= issued' /\ p.op \notin Ops
    BY <1>1, OpsAssumption DEF AllOps
  <1>3. \A b \in Clients : task'[b].id <= issued'
    <2>1. ASSUME NEW b \in Clients PROVE task'[b].id <= issued'
      <3>1. CASE b = c
        BY <3>1, <1>1
      <3>2. CASE b # c
        <4>1. task[b].id \in Nat /\ task[b].id <= issued
          BY <1>1
        <4> QED BY <3>2, <4>1, <1>1
      <3> QED BY <3>1, <3>2
    <2> QED BY <2>1
  <1>4. \A m \in Lives(k) : m > l => \A i \in Points(k, m) : p.id <= At(k, m, i).done
    BY AddedPlaces
  <1>5. Times'
    BY <1>1, <1>2, <1>3, TimesKeep
  <1>6. RealTime'
    BY <1>1, <1>2, <1>4, RealTimeKeeps
  <1>7. Once'
    BY <1>2, OnceKeeps
  <1>8. Told'
    <2>1. \A b \in Clients : task'[b] = task[b] \/ task'[b].pc # "idle"
      OBVIOUS
    <2> QED BY <2>1, ToldKeeps
  <1>9. Works'
    <2>1. \A b \in Clients :
             \/ task'[b] = task[b] \/ task'[b].pc \in {"idle", "create"}
             \/ /\ task'[b].key = k /\ task'[b].ref = lives'[k][l].ref
                /\ \A m \in Lives(k)' : ~(m > l)
      OBVIOUS
    <2> QED BY <2>1, <1>1, WorksKeep
  <1>10. Unanswered'
    <2>1. task'[c].id > issued
      BY <1>1
    <2> QED BY <2>1, <1>1, <1>2, UnansweredKeep
  <1> QED BY <1>5, <1>6, <1>7, <1>8, <1>9, <1>10

\* The collector removes a document: no command is concerned.
LEMMA EvictedKeeps ==
  ASSUME IInv, IInv', Typed, Typed', Order, NEW k \in Keys, NEW l, NEW n,
         NEW p \in PointType, Adds(k, l, n, p), \A m \in Lives(k)' : ~(m > l),
         task' = task, issued' = issued, p.op = "EVICT", p.id = 0, p.done = issued
  PROVE  Order'
  <1> USE DEF Order
  <1>1. /\ issued \in Nat /\ issued' \in Nat /\ issued <= issued'
        /\ \A b \in Clients : task[b].id \in Nat /\ task[b].id <= issued
    BY Numbers
  <1>2. p.id <= issued' /\ p.op \notin Ops /\ p.done = issued'
    BY <1>1, OpsAssumption DEF AllOps
  <1>3. \A m \in Lives(k) : m > l => \A i \in Points(k, m) : p.id <= At(k, m, i).done
    BY AddedPlaces
  <1>4. Times'
    BY <1>1, <1>2, TimesKeep
  <1>5. RealTime'
    BY <1>1, <1>2, <1>3, RealTimeKeeps
  <1>6. Once'
    BY <1>2, OnceKeeps
  <1>7. Told'
    BY ToldKeeps
  <1>8. Works'
    BY <1>1, <1>2, WorksKeep
  <1>9. Unanswered'
    BY <1>1, <1>2, UnansweredKeep
  <1> QED BY <1>4, <1>5, <1>6, <1>7, <1>8, <1>9

\* A step that shows in no content and answers nobody.
LEMMA QuietChain ==
  ASSUME Chain, lives' = lives, documents' = documents, heap' = heap
  PROVE  Chain'
  <1> USE DEF Chain, Lives, Points, At, Found, Allocated
  <1>1. Typed' /\ Ends' /\ Owned'
    BY DEF Typed, Ends, Owned
  <1>2. Begins' /\ Explained' /\ Current'
    BY DEF Begins, Explained, Current
  <1> QED BY <1>1, <1>2

LEMMA QuietOrder ==
  ASSUME Order, lives' = lives, task' = task, issued' = issued
  PROVE  Order'
  <1> USE DEF Order, Lives, Points, At
  <1>1. Times' /\ RealTime' /\ Once'
    BY DEF Times, RealTime, Once
  <1>2. Told' /\ Works' /\ Unanswered'
    BY DEF Told, Works, Unanswered
  <1> QED BY <1>1, <1>2

\* A command is taken up, and finds the Arc under its id.
LEMMA TakenUpKeeps ==
  ASSUME IInv, Chain, Order, lives' = lives, NEW c \in Clients, NEW k \in Keys,
         NEW op \in Ops, NEW pc \in Pcs \ {"idle"}, NEW d, NEW t,
         Begin(c, op, k, pc, d, t), pc # "create" => d = documents[k]
  PROVE  Order'
  <1> USE DEF Order
  <1>1. /\ issued \in Nat /\ issued' = issued + 1
        /\ \A b \in Clients : task[b].id \in Nat /\ task[b].id <= issued
    BY Numbers DEF Begin
  <1>2. /\ task[c].pc = "idle" /\ \A b \in Clients : b # c => task'[b] = task[b]
        /\ task'[c].pc = pc /\ task'[c].id = issued + 1 /\ task'[c].key = k
        /\ task'[c].ref = d
    BY DEF Begin, IInv, TypeOK
  <1>3. \A j \in Keys : \A m \in Lives(j) : \A i \in Points(j, m) :
           /\ At(j, m, i).id \in Nat /\ At(j, m, i).done \in Nat
           /\ At(j, m, i).id <= At(j, m, i).done /\ At(j, m, i).done <= issued
    BY Parts DEF Chain, Times, PointType
  <1>4. \A j \in Keys : Lives(j)' = Lives(j) /\ \A m \in Lives(j) :
           Points(j, m)' = Points(j, m) /\ \A i \in Points(j, m) : At(j, m, i)' = At(j, m, i)
    BY DEF Lives, Points, At
  <1>5. Times'
    <2>1. ASSUME NEW b \in Clients PROVE task'[b].id <= issued'
      <3>1. CASE b = c
        BY <3>1, <1>1, <1>2
      <3>2. CASE b # c
        <4>1. task[b].id \in Nat /\ task[b].id <= issued
          BY <1>1
        <4> QED BY <3>2, <4>1, <1>1, <1>2
      <3> QED BY <3>1, <3>2
    <2>2. ASSUME NEW j \in Keys, NEW m \in Lives(j), NEW i \in Points(j, m)
          PROVE  At(j, m, i).id <= At(j, m, i).done /\ At(j, m, i).done <= issued'
      <3>1. /\ At(j, m, i).id \in Nat /\ At(j, m, i).done \in Nat
            /\ At(j, m, i).id <= At(j, m, i).done /\ At(j, m, i).done <= issued
        BY <1>3
      <3> QED BY <3>1, <1>1
    <2> QED BY <2>1, <2>2, <1>4 DEF Times
  <1>6. RealTime' /\ Once'
    BY DEF RealTime, Once, Lives, Points, At
  <1>7. Told'
    <2> USE DEF Lives, Points, At
    <2>1. ASSUME NEW b \in Clients, b # c PROVE task'[b] = task[b]
      BY <2>1, <1>2
    <2>2. task'[c].pc # "idle"
      BY <1>2
    <2> QED BY <2>1, <2>2 DEF Told
  <1>8. Works'
    <2>1. ASSUME NEW b \in Clients, task'[b].pc \notin {"idle", "create"}
          PROVE  \E j \in Keys : \E a \in Lives(j) :
                    /\ task'[b].key = j /\ task'[b].ref = lives[j][a].ref
                    /\ \A m \in Lives(j) : \A i \in Points(j, m) :
                          m > a => task'[b].id <= At(j, m, i).done
      <3>1. CASE b = c
        <4>1. Len(lives[k]) \in Lives(k) /\ Lives(k) = 1..Len(lives[k]) /\ Len(lives[k]) \in Nat
          BY Parts DEF Chain
        <4>2. lives[k][Len(lives[k])].ref = d
          BY <2>1, <3>1, <1>2 DEF Chain, Current
        <4>3. \A m \in Lives(k) : ~(m > Len(lives[k]))
          BY <4>1
        <4> QED BY <3>1, <4>1, <4>2, <4>3, <1>2
      <3>2. CASE b # c
        BY <2>1, <3>2, <1>2 DEF Works
      <3> QED BY <3>1, <3>2
    <2> QED BY <2>1 DEF Works, Lives, Points, At
  <1>9. Unanswered'
    <2>1. ASSUME NEW b \in Clients, task'[b].pc # "idle",
                 NEW a \in Clients, a # b, task'[a].pc # "idle"
          PROVE  task'[a].id # task'[b].id
      <3>1. CASE a # c /\ b # c
        BY <2>1, <3>1, <1>2 DEF Unanswered
      <3>2. CASE a = c
        <4>1. task[b].id \in Nat /\ task[b].id <= issued
          BY <1>1
        <4>2. task'[b].id = task[b].id /\ task'[a].id = issued + 1
          BY <2>1, <3>2, <1>2
        <4> QED BY <4>1, <4>2, <1>1
      <3>3. CASE b = c
        <4>1. task[a].id \in Nat /\ task[a].id <= issued
          BY <1>1
        <4>2. task'[a].id = task[a].id /\ task'[b].id = issued + 1
          BY <2>1, <3>3, <1>2
        <4> QED BY <4>1, <4>2, <1>1
      <3> QED BY <3>1, <3>2, <3>3
    <2>2. ASSUME NEW b \in Clients, task'[b].pc # "idle", NEW j \in Keys,
                 NEW m \in Lives(j), NEW i \in Points(j, m), At(j, m, i).op \in Ops
          PROVE  At(j, m, i).id # task'[b].id
      <3>1. CASE b # c
        BY <2>2, <3>1, <1>2 DEF Unanswered
      <3>2. CASE b = c
        <4>1. /\ At(j, m, i).id \in Nat /\ At(j, m, i).done \in Nat
              /\ At(j, m, i).id <= At(j, m, i).done /\ At(j, m, i).done <= issued
          BY <1>3
        <4>2. task'[b].id = issued + 1
          BY <3>2, <1>2
        <4> QED BY <4>1, <4>2, <1>1
      <3> QED BY <3>1, <3>2
    <2> QED BY <2>1, <2>2, <1>4 DEF Unanswered
  <1> QED BY <1>5, <1>6, <1>7, <1>8, <1>9
-----------------------------------------------------------------------------
(***************************************************************************)
(* The steps of ONext.                                                     *)
(***************************************************************************)
LEMMA RecordIs ==
  ASSUME NEW c \in Clients, Record(c), NEW k, task'[c].key = k
  PROVE  /\ documents' # documents => Opens(k, Point(c, documents'[k]))
         /\ documents' = documents /\ task'[c].pc = "idle" =>
               Joins(k, LifeOf(c, k), Point(c, lives[k][LifeOf(c, k)].ref))
         /\ documents' = documents /\ task'[c].pc # "idle" => lives' = lives
  BY DEF Record

\* The life of the Arc a command in progress works on.
LEMMA LifeOfIs ==
  ASSUME IInv, Chain, Works, NEW c \in Clients, NEW k \in Keys, task[c].key = k,
         task[c].pc \notin {"idle", "create"}
  PROVE  /\ LifeOf(c, k) \in Lives(k) /\ lives[k][LifeOf(c, k)].ref = task[c].ref
         /\ \A m \in Lives(k) : m > LifeOf(c, k) =>
               \A i \in Points(k, m) : task[c].id <= At(k, m, i).done
  <1>1. PICK j \in Keys : \E a \in Lives(j) :
           /\ task[c].key = j /\ task[c].ref = lives[j][a].ref
           /\ \A m \in Lives(j) : \A i \in Points(j, m) :
                 m > a => task[c].id <= At(j, m, i).done
    BY DEF Works
  <1>2. j = k
    BY <1>1
  <1>3. PICK a \in Lives(k) :
           /\ task[c].ref = lives[k][a].ref
           /\ \A m \in Lives(k) : \A i \in Points(k, m) :
                 m > a => task[c].id <= At(k, m, i).done
    BY <1>1, <1>2
  <1>4. task[c].ref # None
    BY NoneAssumption DEF IInv, HeldRefs
  <1>5. LifeOf(c, k) \in Lives(k) /\ lives[k][LifeOf(c, k)].ref = task[c].ref
    BY <1>3 DEF LifeOf, Lives
  <1>6. LifeOf(c, k) = a
    BY <1>3, <1>4, <1>5 DEF Chain, Owned
  <1> QED BY <1>3, <1>5, <1>6

\* What a step of c adds is a point.
LEMMA PointIs ==
  ASSUME IInv, IInv', NEW c \in Clients, NEW d \in DocRefs \cup {None},
         d # None => heap'[d] # None,
         task'[c].pc = "idle" => task'[c].op \in Ops
  PROVE  /\ Point(c, d) \in PointType
         /\ Point(c, d).id = task'[c].id /\ Point(c, d).reply = task'[c].reply
         /\ Point(c, d).done = issued' /\ Point(c, d).after = Seen(heap', d)
         /\ task'[c].pc = "idle" => Point(c, d).op = task'[c].op
         /\ task'[c].pc # "idle" => Point(c, d).op = "MAKE"
  <1>1. Seen(heap', d) \in Contents
    BY DEF IInv, TypeOK, Seen, Gone, Contents, Doc, NoValue
  <1>2. task'[c].id \in Nat /\ task'[c].reply \in Replies /\ issued' \in Nat
    BY DEF IInv, TypeOK, Task
  <1> QED BY <1>1, <1>2 DEF Point, PointType

\* A command is answered at once, and changes nothing.
LEMMA AnswerStep ==
  ASSUME OrderInv, IInv', Engaged', NEW c \in Clients, NEW k \in Keys, NEW op \in Ops,
         NEW r \in Replies, Answer(c, op, k, r), UNCHANGED <<documents, heap>>, Record(c),
         \/ op = "CREATE" /\ r = Say("exists") /\ documents[k] # None
         \/ op = "GET" /\ r = Say("null") /\ documents[k] = None
         \/ op \in {"DEL", "DELPATH", "EXPIRE"} /\ r = Say("not_found") /\ documents[k] = None
  PROVE  OrderInv'
  <1>0. IInv /\ Chain /\ Order /\ TypeOK /\ TypeOK'
    BY OrderInvIs DEF IInv
  <1>1. /\ task[c].pc = "idle" /\ issued' = issued + 1
        /\ task'[c] = Done(op, issued + 1, k, r)
        /\ \A b \in Clients : b # c => task'[b] = task[b]
    BY <1>0 DEF Answer, TypeOK
  <1>2. /\ task'[c].pc = "idle" /\ task'[c].op = op /\ task'[c].id = issued + 1
        /\ task'[c].key = k /\ task'[c].reply = r
    BY <1>1 DEF Done
  <1>l. PICK l \in Lives(k) : l = Len(lives[k]) /\ \A m \in Lives(k) : ~(m > l)
    BY <1>0, Parts DEF Chain
  <1>3. LifeOf(c, k) = l /\ lives[k][l].ref = documents[k]
    BY <1>0, <1>1, <1>l DEF LifeOf, Chain, Current
  <1>d. PICK d \in DocRefs \cup {None} : d = documents[k]
    BY <1>0 DEF TypeOK
  <1>4. d # None => Allocated(d) /\ heap'[d] # None
    BY <1>0, <1>d DEF IInv, WellKeyed, Allocated
  <1>p. PICK p : p = Point(c, d)
    OBVIOUS
  <1>5. /\ p \in PointType /\ p.id = issued + 1 /\ p.reply = r /\ p.op = op
        /\ p.done = issued' /\ p.after = Seen(heap', d)
    BY <1>0, <1>2, <1>4, <1>p, PointIs
  <1>6. Joins(k, l, p)
    BY <1>2, <1>3, <1>d, <1>p, RecordIs
  <1>7. PICK n : Typed' /\ Adds(k, l, n, p)
    BY <1>0, <1>5, <1>6, JoinsIs DEF Chain
  <1>8. Seen(heap, d) \in Contents /\ (Seen(heap, d).there <=> d # None)
    BY <1>0, <1>4, SeenIs
  <1>9. Allowed(Seen(heap, d), p) /\ p.after = Effect(Seen(heap, d), p)
    <2>1. CASE op = "CREATE" /\ r = Say("exists") /\ d # None
      BY <2>1, <1>5, <1>8 DEF Allowed, Effect, Say
    <2>2. CASE op = "GET" /\ r = Say("null") /\ d = None
      BY <2>2, <1>5, <1>8 DEF Allowed, Effect, Say
    <2>3. CASE op \in {"DEL", "DELPATH", "EXPIRE"} /\ r = Say("not_found") /\ d = None
      BY <2>3, <1>5, <1>8 DEF Allowed, Effect, Say, Seen
    <2> QED BY <2>1, <2>2, <2>3, <1>d
  <1>10. Chain'
    <2>1. \A e \in DocRefs : Allocated(e) =>
            /\ heap'[e] # None /\ heap'[e].key = heap[e].key
            /\ e # lives[k][l].ref => Seen(heap', e) = Seen(heap, e)
      BY DEF Allocated
    <2> QED BY <2>1, <1>0, <1>3, <1>d, <1>5, <1>6, <1>9, JoinsKeeps
  <1>11. Order'
    BY <1>0, <1>1, <1>2, <1>5, <1>7, <1>l, AnsweredKeeps DEF Chain
  <1> QED BY <1>10, <1>11, OrderInvIs, PTL

\* A step that changes what is under k begins a life.
LEMMA OpeningStep ==
  ASSUME OrderInv, IInv', Engaged', NEW k \in Keys, NEW p \in PointType, Opens(k, p),
         \A j \in Keys : j # k => documents'[j] = documents[j],
         \/ documents'[k] = None /\ heap' = heap
         \/ /\ documents'[k] # None /\ ~Allocated(documents'[k])
            /\ heap'[documents'[k]].key = k
            /\ \A e \in DocRefs : Allocated(e) => heap'[e] = heap[e],
         p.after = Seen(heap', documents'[k]), Resets(p),
         Allowed(Seen(heap, documents[k]), p),
         p.after = Effect(Seen(heap, documents[k]), p)
  PROVE  /\ Chain' /\ Typed /\ Typed'
         /\ \E l \in Nat : /\ Adds(k, l, 1, p) /\ lives'[k][l].ref = documents'[k]
                           /\ \A m \in Lives(k)' : ~(m > l)
  <1>0. IInv /\ Chain /\ TypeOK /\ TypeOK' /\ Typed
    BY OrderInvIs DEF IInv, Chain
  <1>1. documents'[k] \in DocRefs \cup {None}
    BY <1>0 DEF TypeOK
  <1>2. documents'[k] # None => heap'[documents'[k]] # None
    BY DEF IInv, WellKeyed, Allocated
  <1>3. \A e \in DocRefs : Allocated(e) =>
           /\ heap'[e] # None /\ heap'[e].key = heap[e].key
           /\ Seen(heap', e) = Seen(heap, e)
    BY DEF Allocated, Seen
  <1>4. Chain'
    BY <1>0, <1>2, <1>3, OpensKeeps
  <1>5. /\ Typed' /\ Adds(k, Len(lives[k]) + 1, 1, p)
        /\ Len(lives'[k]) = Len(lives[k]) + 1
        /\ lives'[k][Len(lives[k]) + 1].ref = documents'[k]
    BY <1>0, <1>1, OpensIs
  <1>6. Len(lives[k]) + 1 \in Nat /\ Lives(k)' = 1..(Len(lives[k]) + 1)
    BY <1>0, <1>5, Parts DEF Typed, Lives
  <1>7. \A m \in Lives(k)' : ~(m > Len(lives[k]) + 1)
    BY <1>6
  <1> QED BY <1>0, <1>4, <1>5, <1>6, <1>7

LEMMA DeleteStep ==
  ASSUME OrderInv, IInv', Engaged', NEW c \in Clients, NEW k \in Keys, documents[k] # None,
         Answer(c, "DEL", k, Say("ok")), documents' = [documents EXCEPT ![k] = None],
         heap' = heap, Record(c)
  PROVE  OrderInv'
  <1>0. IInv /\ Chain /\ Order /\ TypeOK /\ TypeOK' /\ "DEL" \in Ops
    BY OrderInvIs DEF IInv, Answer
  <1>1. /\ task[c].pc = "idle" /\ issued' = issued + 1
        /\ task'[c] = Done("DEL", issued + 1, k, Say("ok"))
        /\ \A b \in Clients : b # c => task'[b] = task[b]
    BY <1>0 DEF Answer, TypeOK
  <1>2. /\ task'[c].pc = "idle" /\ task'[c].op = "DEL" /\ task'[c].id = issued + 1
        /\ task'[c].key = k /\ task'[c].reply = Say("ok")
    BY <1>1 DEF Done
  <1>3. documents'[k] = None /\ \A j \in Keys : j # k => documents'[j] = documents[j]
    BY <1>0 DEF TypeOK
  <1>p. PICK p : p = Point(c, None)
    OBVIOUS
  <1>4. /\ p \in PointType /\ p.id = issued + 1 /\ p.reply = Say("ok") /\ p.op = "DEL"
        /\ p.done = issued' /\ p.after = Seen(heap', None)
    BY <1>0, <1>2, <1>p, PointIs
  <1>5. Opens(k, p)
    BY <1>2, <1>3, <1>p, RecordIs
  <1>6. Seen(heap, documents[k]) \in Contents /\ Seen(heap, documents[k]).there
    BY <1>0, SeenIs DEF IInv, WellKeyed, TypeOK
  <1>7. /\ Allowed(Seen(heap, documents[k]), p) /\ Resets(p)
        /\ p.after = Effect(Seen(heap, documents[k]), p)
    BY <1>4, <1>6 DEF Allowed, Effect, Resets, Say, Seen
  <1>8. /\ Chain' /\ Typed /\ Typed'
        /\ \E l \in Nat : Adds(k, l, 1, p) /\ \A m \in Lives(k)' : ~(m > l)
    BY <1>3, <1>4, <1>5, <1>7, OpeningStep
  <1>l. PICK l \in Nat : Adds(k, l, 1, p) /\ \A m \in Lives(k)' : ~(m > l)
    BY <1>8
  <1>9. \A m \in Lives(k) : ~(m > l)
    BY <1>l, AddedPlaces
  <1>10. Order'
    BY <1>0, <1>1, <1>2, <1>4, <1>8, <1>9, <1>l, AnsweredKeeps
  <1> QED BY <1>8, <1>10, OrderInvIs, PTL

\* get_or_create makes the document.
LEMMA MakeStep ==
  ASSUME OrderInv, IInv', Engaged', NEW c \in Clients, NEW k \in Keys, NEW op \in Ops, NEW d \in DocRefs,
         documents[k] = None, Install(d, k, NoTTL), Begin(c, op, k, "write", d, NoTTL),
         Record(c)
  PROVE  OrderInv'
  <1>0. IInv /\ Chain /\ Order /\ TypeOK /\ TypeOK'
    BY OrderInvIs DEF IInv
  <1>1. /\ task[c].pc = "idle" /\ issued' = issued + 1
        /\ task'[c].pc = "write" /\ task'[c].id = issued + 1 /\ task'[c].key = k
        /\ task'[c].ref = d /\ task'[c].reply = Say("none")
        /\ \A b \in Clients : b # c => task'[b] = task[b]
    BY <1>0 DEF Begin, TypeOK
  <1>2. /\ documents'[k] = d /\ \A j \in Keys : j # k => documents'[j] = documents[j]
        /\ ~Allocated(d) /\ heap'[d] = NewDocument(k, NoTTL)
        /\ \A e \in DocRefs : Allocated(e) => heap'[e] = heap[e]
    BY <1>0 DEF Install, TypeOK
  <1>3. heap'[d] # None /\ d # None
    BY <1>0, <1>2, NoneAssumption DEF IInv, WellKeyed, Allocated
  <1>p. PICK p : p = Point(c, d)
    OBVIOUS
  <1>4. /\ p \in PointType /\ p.id = issued + 1 /\ p.reply = Say("none") /\ p.op = "MAKE"
        /\ p.done = issued' /\ p.after = Seen(heap', d)
    BY <1>0, <1>1, <1>3, <1>p, PointIs
  <1>5. Opens(k, p)
    BY <1>1, <1>2, <1>3, <1>p, RecordIs
  <1>6. Seen(heap, documents[k]) = Gone
    BY DEF Seen
  <1>7. p.after = [there |-> TRUE, val |-> NoValue, count |-> 0]
    BY <1>2, <1>3, <1>4 DEF Seen, NewDocument
  <1>8. /\ Allowed(Seen(heap, documents[k]), p) /\ Resets(p)
        /\ p.after = Effect(Seen(heap, documents[k]), p)
    BY <1>4, <1>6, <1>7 DEF Allowed, Effect, Resets, Say, Gone
  <1>9. heap'[documents'[k]].key = k
    BY <1>2 DEF NewDocument
  <1>10. /\ Chain' /\ Typed /\ Typed'
         /\ \E l \in Nat : /\ Adds(k, l, 1, p) /\ lives'[k][l].ref = documents'[k]
                           /\ \A m \in Lives(k)' : ~(m > l)
    BY <1>2, <1>3, <1>4, <1>5, <1>8, <1>9, OpeningStep
  <1>l. PICK l \in Nat : /\ Adds(k, l, 1, p) /\ lives'[k][l].ref = documents'[k]
                         /\ \A m \in Lives(k)' : ~(m > l)
    BY <1>10
  <1>11. Order'
    BY <1>0, <1>1, <1>2, <1>4, <1>10, <1>l, MadeKeeps
  <1> QED BY <1>10, <1>11, OrderInvIs, PTL

LEMMA InsertStep ==
  ASSUME OrderInv, IInv', Engaged', NEW c \in Clients, CreateInsert(c), Record(c)
  PROVE  OrderInv'
  <1>0. IInv /\ Chain /\ Order /\ TypeOK /\ TypeOK'
    BY OrderInvIs DEF IInv
  <1>k. PICK k \in Keys : k = task[c].key
    BY <1>0 DEF IInv, HeldRefs, CreateInsert
  <1>d. PICK d \in DocRefs : Install(d, k, task[c].ttl)
    BY <1>k DEF CreateInsert
  <1>c. task[c].op = "CREATE"
    BY OrderInvIs DEF Engaged, CreateInsert
  <1>1. /\ task[c].pc = "create" /\ issued' = issued
        /\ task'[c] = Done("CREATE", task[c].id, k, Say("ok"))
        /\ \A b \in Clients : b # c => task'[b] = task[b]
    BY <1>0, <1>k, <1>c DEF CreateInsert, Finish, TypeOK
  <1>2. /\ task'[c].pc = "idle" /\ task'[c].op = "CREATE" /\ task'[c].id = task[c].id
        /\ task'[c].key = k /\ task'[c].reply = Say("ok") /\ "CREATE" \in Ops
    <2>1. task[c].op \in Ops \cup {"none"}
      BY <1>0 DEF TypeOK, Task
    <2> QED BY <1>1, <1>c, <2>1 DEF Done
  <1>3. /\ documents'[k] = d /\ \A j \in Keys : j # k => documents'[j] = documents[j]
        /\ ~Allocated(d) /\ heap'[d] = NewDocument(k, task[c].ttl)
        /\ \A e \in DocRefs : Allocated(e) => heap'[e] = heap[e]
    BY <1>0, <1>d DEF Install, TypeOK
  <1>4. heap'[d] # None /\ d # None /\ documents[k] # d
    BY <1>0, <1>3, NoneAssumption DEF IInv, WellKeyed, Allocated
  <1>p. PICK p : p = Point(c, d)
    OBVIOUS
  <1>5. /\ p \in PointType /\ p.id = task[c].id /\ p.reply = Say("ok") /\ p.op = "CREATE"
        /\ p.done = issued' /\ p.after = Seen(heap', d)
    BY <1>0, <1>2, <1>4, <1>p, PointIs
  <1>6. Opens(k, p)
    BY <1>2, <1>3, <1>4, <1>p, RecordIs
  <1>7. p.after = [there |-> TRUE, val |-> NoValue, count |-> 0]
    BY <1>3, <1>4, <1>5 DEF Seen, NewDocument
  <1>8. /\ Allowed(Seen(heap, documents[k]), p) /\ Resets(p)
        /\ p.after = Effect(Seen(heap, documents[k]), p)
    BY <1>5, <1>7 DEF Allowed, Effect, Resets, Say
  <1>9. heap'[documents'[k]].key = k
    BY <1>3 DEF NewDocument
  <1>10. /\ Chain' /\ Typed /\ Typed'
         /\ \E l \in Nat : Adds(k, l, 1, p) /\ \A m \in Lives(k)' : ~(m > l)
    BY <1>3, <1>4, <1>5, <1>6, <1>8, <1>9, OpeningStep
  <1>l. PICK l \in Nat : Adds(k, l, 1, p) /\ \A m \in Lives(k)' : ~(m > l)
    BY <1>10
  <1>11. \A m \in Lives(k) : ~(m > l)
    BY <1>l, AddedPlaces
  <1>12. Order'
    BY <1>0, <1>1, <1>2, <1>5, <1>10, <1>11, <1>l, AnsweredKeeps
  <1> QED BY <1>10, <1>12, OrderInvIs, PTL

\* The end of a command that works on an Arc, wherever the map has it by now.
LEMMA ArcStep ==
  ASSUME OrderInv, IInv', Engaged', NEW c \in Clients, task[c].pc \notin {"idle", "create"},
         task[c].op \in Ops, NEW r, Finish(c, r), documents' = documents, Record(c),
         \A e \in DocRefs : Allocated(e) =>
            /\ heap'[e] # None /\ heap'[e].key = heap[e].key
            /\ e # task[c].ref => Seen(heap', e) = Seen(heap, e),
         \A p : p.op = task[c].op /\ p.id = task[c].id /\ p.reply = r =>
            /\ Allowed(Seen(heap, task[c].ref), p)
            /\ Seen(heap', task[c].ref) = Effect(Seen(heap, task[c].ref), p)
  PROVE  OrderInv'
  <1>0. IInv /\ Chain /\ Order /\ TypeOK /\ TypeOK'
    BY OrderInvIs DEF IInv
  <1>k. PICK k \in Keys : k = task[c].key
    BY <1>0 DEF IInv, HeldRefs
  <1>d. PICK d \in DocRefs : d = task[c].ref /\ Allocated(d)
    BY <1>0 DEF IInv, HeldRefs
  <1>1. /\ issued' = issued
        /\ task'[c] = Done(task[c].op, task[c].id, k, r)
        /\ \A b \in Clients : b # c => task'[b] = task[b]
    BY <1>0, <1>k DEF Finish, TypeOK
  <1>2. /\ task'[c].pc = "idle" /\ task'[c].op = task[c].op /\ task'[c].id = task[c].id
        /\ task'[c].key = k /\ task'[c].reply = r
    BY <1>1 DEF Done
  <1>l. PICK l \in Lives(k) : /\ l = LifeOf(c, k) /\ lives[k][l].ref = d
                              /\ \A m \in Lives(k) : m > l =>
                                    \A i \in Points(k, m) : task[c].id <= At(k, m, i).done
    BY <1>0, <1>k, <1>d, LifeOfIs DEF Order
  <1>p. PICK p : p = Point(c, d)
    OBVIOUS
  <1>3. /\ p \in PointType /\ p.id = task[c].id /\ p.reply = r /\ p.op = task[c].op
        /\ p.done = issued' /\ p.after = Seen(heap', d)
    BY <1>0, <1>2, <1>d, <1>p, PointIs
  <1>4. Joins(k, l, p)
    BY <1>2, <1>l, <1>p, RecordIs
  <1>5. PICK n : Typed' /\ Adds(k, l, n, p)
    BY <1>0, <1>3, <1>4, JoinsIs DEF Chain
  <1>6. Allowed(Seen(heap, d), p) /\ p.after = Effect(Seen(heap, d), p)
    BY <1>3, <1>d
  <1>7. Chain'
    <2>1. \A e \in DocRefs : Allocated(e) =>
            /\ heap'[e] # None /\ heap'[e].key = heap[e].key
            /\ e # lives[k][l].ref => Seen(heap', e) = Seen(heap, e)
      BY <1>l, <1>d
    <2> QED BY <2>1, <1>0, <1>l, <1>3, <1>4, <1>6, JoinsKeeps
  <1>8. Order'
    BY <1>0, <1>1, <1>2, <1>3, <1>5, <1>l, AnsweredKeeps DEF Chain
  <1> QED BY <1>7, <1>8, OrderInvIs, PTL

LEMMA BeginStep ==
  ASSUME OrderInv, IInv', Engaged', NEW c \in Clients, NEW k \in Keys,
         NEW op \in Ops, NEW pc \in Pcs \ {"idle"}, NEW d, NEW t,
         Begin(c, op, k, pc, d, t), pc # "create" => d = documents[k],
         UNCHANGED <<documents, heap, raced>>, Record(c)
  PROVE  OrderInv'
  <1>0. IInv /\ Chain /\ Order
    BY OrderInvIs
  <1>1. task'[c].pc = pc /\ task'[c].key = k
    BY <1>0 DEF Begin, IInv, TypeOK
  <1>2. lives' = lives
    BY <1>1, RecordIs
  <1>3. Chain'
    BY <1>0, <1>2, QuietChain
  <1>4. Order'
    BY <1>0, <1>2, TakenUpKeeps
  <1> QED BY <1>3, <1>4, OrderInvIs, PTL

LEMMA EvictStep ==
  ASSUME OrderInv, IInv', Engaged', NEW k \in Keys, GcRemove(k), Evict
  PROVE  OrderInv'
  <1>0. IInv /\ Chain /\ Order /\ TypeOK /\ TypeOK'
    BY OrderInvIs DEF IInv
  <1>1. /\ UNCHANGED <<heap, task, issued>>
        /\ documents'[k] = None /\ \A j \in Keys : j # k => documents'[j] = documents[j]
    BY <1>0 DEF GcRemove, TypeOK
  <1>2. CASE documents' = documents /\ lives' = lives
    <2>1. Chain'
      BY <1>0, <1>1, <1>2, QuietChain
    <2>2. Order'
      BY <1>0, <1>1, <1>2, QuietOrder
    <2> QED BY <2>1, <2>2, OrderInvIs, PTL
  <1>3. ASSUME NEW j \in Keys, documents'[j] # documents[j],
               Opens(j, [op |-> "EVICT", id |-> 0, reply |-> Say("none"),
                         done |-> issued, after |-> Gone])
        PROVE  OrderInv'
    <2>p. PICK p : p = [op |-> "EVICT", id |-> 0, reply |-> Say("none"),
                        done |-> issued, after |-> Gone]
      OBVIOUS
    <2>1. j = k /\ documents[k] # None
      BY <1>1, <1>3
    <2>2. Opens(k, p)
      BY <1>3, <2>p, <2>1
    <2>3. p \in PointType
      BY <1>0, <2>p, SayIsReply DEF IInv, TypeOK, PointType, Gone, Contents, NoValue
    <2>4. p.op = "EVICT" /\ p.id = 0 /\ p.done = issued /\ p.after = Gone /\ p.reply = Say("none")
      BY <2>p
    <2>5. Seen(heap', documents'[k]) = Gone
      BY <1>1 DEF Seen
    <2>6. Seen(heap, documents[k]) \in Contents /\ Seen(heap, documents[k]).there
      BY <1>0, <2>1, SeenIs DEF IInv, WellKeyed, TypeOK
    <2>7. /\ Allowed(Seen(heap, documents[k]), p) /\ Resets(p)
          /\ p.after = Effect(Seen(heap, documents[k]), p)
      BY <2>4, <2>6 DEF Allowed, Effect, Resets, Say
    <2>8. /\ Chain' /\ Typed /\ Typed'
          /\ \E l \in Nat : Adds(k, l, 1, p) /\ \A m \in Lives(k)' : ~(m > l)
      BY <1>1, <2>2, <2>3, <2>4, <2>5, <2>7, OpeningStep
    <2>l. PICK l \in Nat : Adds(k, l, 1, p) /\ \A m \in Lives(k)' : ~(m > l)
      BY <2>8
    <2>9. Order'
      BY <1>0, <1>1, <2>3, <2>4, <2>8, <2>l, EvictedKeeps
    <2> QED BY <2>8, <2>9, OrderInvIs, PTL
  <1> QED BY <1>2, <1>3 DEF Evict

\* The atomic store on a document that is there.
LEMMA OnDocument ==
  ASSUME NEW h, NEW d, d # None, NEW p
  PROVE  /\ (p.reply = Say("ok") /\ p.op \in {"SET", "DELPATH", "EXPIRE"} =>
               Allowed(Seen(h, d), p))
         /\ (p.op = "INC" /\ p.reply = [kind |-> "integer", value |-> h[d].count + 1] =>
               Allowed(Seen(h, d), p))
         /\ (p.op = "SET" => Effect(Seen(h, d), p) =
               [there |-> TRUE, val |-> p.id, count |-> h[d].count])
         /\ (p.op = "INC" => Effect(Seen(h, d), p) =
               [there |-> TRUE, val |-> h[d].val, count |-> h[d].count + 1])
         /\ (p.op = "DELPATH" /\ p.reply = Say("ok") => Effect(Seen(h, d), p) =
               [there |-> TRUE, val |-> NoValue, count |-> h[d].count])
         /\ (p.op = "EXPIRE" => Effect(Seen(h, d), p) = Seen(h, d))
  <1>s. PICK s : s = Seen(h, d)
    OBVIOUS
  <1>v. PICK v, n : v = h[d].val /\ n = h[d].count
    OBVIOUS
  <1>0. s = [there |-> TRUE, val |-> v, count |-> n]
    BY <1>s, <1>v DEF Seen
  <1>r. s.there = TRUE /\ s.val = v /\ s.count = n
    BY <1>0
  <1>1. ASSUME p.reply = Say("ok"), p.op \in {"SET", "DELPATH", "EXPIRE"} PROVE Allowed(s, p)
    <2>1. p.reply.kind = "ok"
      BY <1>1 DEF Say
    <2> QED BY <1>r, <1>1, <2>1 DEF Allowed
  <1>2. ASSUME p.op = "INC", p.reply = [kind |-> "integer", value |-> n + 1] PROVE Allowed(s, p)
    <2>1. p.reply.kind = "integer" /\ p.reply.value = n + 1
      BY <1>2
    <2> QED BY <1>r, <1>2, <2>1 DEF Allowed
  <1>3. p.op = "SET" => Effect(s, p) = [there |-> TRUE, val |-> p.id, count |-> n]
    BY <1>0 DEF Effect
  <1>4. p.op = "INC" => Effect(s, p) = [there |-> TRUE, val |-> v, count |-> n + 1]
    BY <1>0 DEF Effect
  <1>5. ASSUME p.op = "DELPATH", p.reply = Say("ok")
        PROVE  Effect(s, p) = [there |-> TRUE, val |-> NoValue, count |-> n]
    <2>1. p.reply.kind = "ok"
      BY <1>5 DEF Say
    <2> QED BY <1>0, <1>5, <2>1 DEF Effect
  <1>6. p.op = "EXPIRE" => Effect(s, p) = s
    BY DEF Effect
  <1> QED BY <1>s, <1>v, <1>1, <1>2, <1>3, <1>4, <1>5, <1>6

\* The last steps of the commands, each on the Arc it holds.
LEMMA ProceedStep ==
  ASSUME OrderInv, IInv', Engaged', NEW c \in Clients, Proceed(c), Record(c)
  PROVE  OrderInv'
  <1>0. IInv /\ TypeOK /\ Engaged
    BY OrderInvIs DEF IInv
  <1>1. ASSUME task[c].pc \in {"read", "write", "delete_path", "set_ttl"}
        PROVE  /\ task[c].pc \notin {"idle", "create"} /\ task[c].op \in Ops
               /\ task[c].ref \in DocRefs /\ task[c].ref # None /\ Allocated(task[c].ref)
               /\ heap[task[c].ref] \in Doc
    <2>1. task[c].op \in Ops
      BY <1>0, <1>1 DEF TypeOK, Task, Engaged
    <2> QED BY <2>1, <1>0, <1>1, BusyTask, NoneAssumption DEF Pcs
  <1>r. PICK d : d = task[c].ref
    OBVIOUS
  <1>2. ASSUME heap' = [heap EXCEPT ![d] = heap'[d]], heap'[d] \in Doc,
               heap'[d].key = heap[d].key
        PROVE  \A e \in DocRefs : Allocated(e) =>
                  /\ heap'[e] # None /\ heap'[e].key = heap[e].key
                  /\ e # task[c].ref => Seen(heap', e) = Seen(heap, e)
    <2>1. ASSUME NEW e \in DocRefs, Allocated(e), e = d
          PROVE  heap'[e] # None /\ heap'[e].key = heap[e].key
      BY <1>2, <2>1, NoDocAssumption
    <2>2. ASSUME NEW e \in DocRefs, Allocated(e), e # d
          PROVE  heap'[e] = heap[e] /\ heap[e] # None
      BY <1>2, <2>2, <1>0 DEF TypeOK, Allocated
    <2>3. ASSUME NEW e \in DocRefs, Allocated(e), e # d PROVE Seen(heap', e) = Seen(heap, e)
      BY <2>2, <2>3 DEF Seen
    <2> QED BY <2>1, <2>2, <2>3, <1>r
  <1>3. ASSUME Read(c) PROVE OrderInv'
    <2> DEFINE r == [kind |-> "value", val |-> heap[d].val, count |-> heap[d].count]
    <2>1. /\ task[c].pc = "read" /\ task[c].op = "GET" /\ Finish(c, r)
          /\ UNCHANGED <<documents, heap>>
      BY <1>0, <1>3, <1>r DEF Read, Engaged
    <2>2. Seen(heap, d) = [there |-> TRUE, val |-> heap[d].val, count |-> heap[d].count]
      BY <1>1, <1>r, <2>1 DEF Seen
    <2>3. ASSUME NEW p, p.op = "GET", p.reply = r
          PROVE  Allowed(Seen(heap, d), p) /\ Seen(heap', d) = Effect(Seen(heap, d), p)
      BY <2>1, <2>2, <2>3 DEF Allowed, Effect
    <2>4. \A e \in DocRefs : Allocated(e) =>
             /\ heap'[e] # None /\ heap'[e].key = heap[e].key
             /\ e # task[c].ref => Seen(heap', e) = Seen(heap, e)
      BY <2>1 DEF Allocated
    <2> HIDE DEF r
    <2> QED BY <1>1, <1>r, <2>1, <2>3, <2>4, ArcStep
  <1>4. ASSUME Write(c) PROVE OrderInv'
    <2> DEFINE new == IF task[c].op = "SET" THEN [heap[d] EXCEPT !.val = task[c].id]
                      ELSE [heap[d] EXCEPT !.count = @ + 1]
               r == IF task[c].op = "SET" THEN Say("ok")
                    ELSE [kind |-> "integer", value |-> new.count]
    <2>1. /\ task[c].pc = "write" /\ task[c].op \in {"SET", "INC"} /\ Finish(c, r)
          /\ documents' = documents /\ heap' = [heap EXCEPT ![d] = UpdateVersion(new)]
      BY <1>0, <1>4, <1>r DEF Write, Engaged
    <2>2. /\ d \in DocRefs /\ d # None /\ heap[d] \in Doc
      BY <1>1, <1>r, <2>1
    <2>3. heap'[d] = UpdateVersion(new)
      BY <1>0, <2>1, <2>2 DEF TypeOK
    <2>4. /\ new \in Doc
          /\ new.key = heap[d].key
          /\ (task[c].op = "SET" => new.val = task[c].id /\ new.count = heap[d].count)
          /\ (task[c].op = "INC" => new.val = heap[d].val /\ new.count = heap[d].count + 1)
      <3>1. task[c].id \in Nat
        BY <1>0 DEF TypeOK, Task
      <3> QED BY <2>1, <2>2, <3>1 DEF Doc
    <2>5. task[c].op = "SET" => r = Say("ok")
      OBVIOUS
    <2>6. task[c].op = "INC" => r = [kind |-> "integer", value |-> new.count]
      OBVIOUS
    <2> HIDE DEF new, r
    <2>7. /\ heap'[d] \in Doc /\ heap'[d].key = heap[d].key
          /\ heap'[d].val = new.val /\ heap'[d].count = new.count
      BY <2>3, <2>4 DEF UpdateVersion, Doc
    <2>8. /\ Seen(heap, d) = [there |-> TRUE, val |-> heap[d].val, count |-> heap[d].count]
          /\ Seen(heap', d) = [there |-> TRUE, val |-> new.val, count |-> new.count]
      BY <2>2, <2>7 DEF Seen
    <2>9. ASSUME NEW p, p.op = task[c].op, p.id = task[c].id, p.reply = r
          PROVE  Allowed(Seen(heap, d), p) /\ Seen(heap', d) = Effect(Seen(heap, d), p)
      <3>1. CASE task[c].op = "SET"
        <4>1. p.op = "SET" /\ p.reply = Say("ok") /\ p.id = task[c].id
          BY <2>5, <2>9, <3>1
        <4>2. /\ Allowed(Seen(heap, d), p)
              /\ Effect(Seen(heap, d), p) = [there |-> TRUE, val |-> p.id, count |-> heap[d].count]
          BY <2>2, <4>1, OnDocument
        <4>3. Seen(heap', d) = [there |-> TRUE, val |-> p.id, count |-> heap[d].count]
          BY <2>4, <2>8, <3>1, <4>1
        <4> QED BY <4>2, <4>3
      <3>2. CASE task[c].op = "INC"
        <4>1. p.op = "INC" /\ p.reply = [kind |-> "integer", value |-> heap[d].count + 1]
          BY <2>4, <2>6, <2>9, <3>2
        <4>2. /\ Allowed(Seen(heap, d), p)
              /\ Effect(Seen(heap, d), p)
                    = [there |-> TRUE, val |-> heap[d].val, count |-> heap[d].count + 1]
          BY <2>2, <4>1, OnDocument
        <4>3. Seen(heap', d) = [there |-> TRUE, val |-> heap[d].val, count |-> heap[d].count + 1]
          BY <2>4, <2>8, <3>2
        <4> QED BY <4>2, <4>3
      <3> QED BY <2>1, <3>1, <3>2
    <2>10. heap' = [heap EXCEPT ![d] = heap'[d]]
      BY <2>1, <2>3
    <2>11. heap'[d].key = heap[d].key
      BY <2>7
    <2> QED BY <1>1, <1>2, <1>r, <2>1, <2>7, <2>9, <2>10, <2>11, ArcStep
  <1>5. ASSUME DeletePath(c) PROVE OrderInv'
    <2>1. /\ task[c].pc = "delete_path" /\ task[c].op = "DELPATH" /\ Finish(c, Say("ok"))
          /\ documents' = documents
          /\ heap' = [heap EXCEPT ![d] = UpdateVersion([@ EXCEPT !.val = NoValue])]
      BY <1>0, <1>5, <1>r DEF DeletePath, Engaged
    <2>2. /\ d \in DocRefs /\ d # None /\ heap[d] \in Doc
      BY <1>1, <1>r, <2>1
    <2>3. heap'[d] = UpdateVersion([heap[d] EXCEPT !.val = NoValue])
      BY <1>0, <2>1, <2>2 DEF TypeOK
    <2>4. /\ heap'[d] \in Doc /\ heap'[d].key = heap[d].key
          /\ heap'[d].val = NoValue /\ heap'[d].count = heap[d].count
      <3>n. PICK n : n = [heap[d] EXCEPT !.val = NoValue]
        OBVIOUS
      <3>1. n \in Doc /\ n.key = heap[d].key /\ n.val = NoValue /\ n.count = heap[d].count
        BY <2>2, <3>n DEF Doc, NoValue
      <3>2. heap'[d] = UpdateVersion(n)
        BY <2>3, <3>n
      <3> QED BY <3>1, <3>2 DEF UpdateVersion, Doc
    <2>5. /\ Seen(heap, d) = [there |-> TRUE, val |-> heap[d].val, count |-> heap[d].count]
          /\ Seen(heap', d) = [there |-> TRUE, val |-> NoValue, count |-> heap[d].count]
      BY <2>2, <2>4 DEF Seen
    <2>6. ASSUME NEW p, p.op = "DELPATH", p.reply = Say("ok")
          PROVE  Allowed(Seen(heap, d), p) /\ Seen(heap', d) = Effect(Seen(heap, d), p)
      BY <2>2, <2>5, <2>6, OnDocument
    <2>7. heap' = [heap EXCEPT ![d] = heap'[d]]
      BY <2>1, <2>2, <2>3, <1>0 DEF TypeOK
    <2>8. \A e \in DocRefs : Allocated(e) =>
             /\ heap'[e] # None /\ heap'[e].key = heap[e].key
             /\ e # task[c].ref => Seen(heap', e) = Seen(heap, e)
      BY <1>2, <2>4, <2>7
    <2> QED BY <1>1, <1>r, <2>1, <2>6, <2>8, ArcStep
  <1>6. ASSUME SetTTL(c) PROVE OrderInv'
    <2>1. /\ task[c].pc = "set_ttl" /\ task[c].op = "EXPIRE" /\ Finish(c, Say("ok"))
          /\ documents' = documents /\ task[c].ttl \in Nat
          /\ heap' = [heap EXCEPT ![d].ttl = task[c].ttl]
      BY <1>0, <1>6, <1>r DEF SetTTL, Engaged, TypeOK, Task
    <2>2. /\ d \in DocRefs /\ d # None /\ heap[d] \in Doc
      BY <1>1, <1>r, <2>1
    <2>3. heap'[d] = [heap[d] EXCEPT !.ttl = task[c].ttl]
      BY <1>0, <2>1, <2>2 DEF TypeOK
    <2>4. /\ heap'[d] \in Doc /\ heap'[d].key = heap[d].key
          /\ heap'[d].val = heap[d].val /\ heap'[d].count = heap[d].count
      BY <2>1, <2>2, <2>3 DEF Doc
    <2>5. /\ Seen(heap, d) = [there |-> TRUE, val |-> heap[d].val, count |-> heap[d].count]
          /\ Seen(heap', d) = Seen(heap, d)
      BY <2>2, <2>4 DEF Seen
    <2>6. ASSUME NEW p, p.op = "EXPIRE", p.reply = Say("ok")
          PROVE  Allowed(Seen(heap, d), p) /\ Seen(heap', d) = Effect(Seen(heap, d), p)
      BY <2>2, <2>5, <2>6, OnDocument
    <2>7. heap' = [heap EXCEPT ![d] = heap'[d]]
      BY <2>1, <2>2, <2>3, <1>0 DEF TypeOK
    <2>8. \A e \in DocRefs : Allocated(e) =>
             /\ heap'[e] # None /\ heap'[e].key = heap[e].key
             /\ e # task[c].ref => Seen(heap', e) = Seen(heap, e)
      BY <1>2, <2>4, <2>7
    <2> QED BY <1>1, <1>r, <2>1, <2>6, <2>8, ArcStep
  <1> QED BY <1>3, <1>4, <1>5, <1>6, InsertStep DEF Proceed

\* The first steps of the commands.
LEMMA CommandStep ==
  ASSUME OrderInv, IInv', Engaged', NEW c \in Clients, Command(c), Record(c)
  PROVE  OrderInv'
  <1>r. Say("exists") \in Replies /\ Say("null") \in Replies /\ Say("not_found") \in Replies
    BY SayIsReply
  <1>p. {"create", "read", "write", "delete_path", "set_ttl"} \subseteq Pcs \ {"idle"}
    BY DEF Pcs
  <1>n. IInv /\ TypeOK
    BY OrderInvIs DEF IInv
  <1>1. ASSUME NEW k \in Keys, NEW t, CreateCheck(c, k, t) PROVE OrderInv'
    <2>1. CASE documents[k] # None /\ Answer(c, "CREATE", k, Say("exists"))
               /\ UNCHANGED <<documents, heap, raced>>
      <3>1. "CREATE" \in Ops
        BY <2>1 DEF Answer
      <3> QED BY <2>1, <3>1, <1>r, AnswerStep
    <2>2. CASE Begin(c, "CREATE", k, "create", None, t) /\ UNCHANGED <<documents, heap, raced>>
      <3>1. "CREATE" \in Ops
        BY <2>2 DEF Begin
      <3> QED BY <2>2, <3>1, <1>p, BeginStep
    <2> QED BY <1>1, <2>1, <2>2 DEF CreateCheck
  <1>2. ASSUME NEW k \in Keys, NEW t, FindForExpire(c, k, t) PROVE OrderInv'
    <2>1. CASE documents[k] = None /\ Answer(c, "EXPIRE", k, Say("not_found"))
               /\ UNCHANGED <<documents, heap, raced>>
      <3>1. "EXPIRE" \in Ops
        BY <2>1 DEF Answer
      <3> QED BY <2>1, <3>1, <1>r, AnswerStep
    <2>2. CASE Begin(c, "EXPIRE", k, "set_ttl", documents[k], t) /\ UNCHANGED <<documents, heap, raced>>
      <3>1. "EXPIRE" \in Ops
        BY <2>2 DEF Begin
      <3> QED BY <2>2, <3>1, <1>p, BeginStep
    <2> QED BY <1>2, <2>1, <2>2 DEF FindForExpire
  <1>3. ASSUME NEW k \in Keys, NEW op \in {"SET", "INC"}, GetOrCreate(c, op, k) PROVE OrderInv'
    <2>0. op \in Ops
      BY <1>3 DEF GetOrCreate, Begin
    <2>1. CASE Begin(c, op, k, "write", documents[k], NoTTL) /\ UNCHANGED <<documents, heap, raced>>
      BY <2>0, <2>1, <1>p, BeginStep
    <2>2. ASSUME NEW d \in DocRefs, documents[k] = None, Install(d, k, NoTTL),
                 Begin(c, op, k, "write", d, NoTTL)
          PROVE  OrderInv'
      BY <2>0, <2>2, MakeStep
    <2> QED BY <1>3, <2>1, <2>2 DEF GetOrCreate
  <1>4. ASSUME NEW k \in Keys, Get(c, k) PROVE OrderInv'
    <2>1. CASE documents[k] = None /\ Answer(c, "GET", k, Say("null"))
               /\ UNCHANGED <<documents, heap, raced>>
      <3>1. "GET" \in Ops
        BY <2>1 DEF Answer
      <3> QED BY <2>1, <3>1, <1>r, AnswerStep
    <2>2. CASE Begin(c, "GET", k, "read", documents[k], NoTTL) /\ UNCHANGED <<documents, heap, raced>>
      <3>1. "GET" \in Ops
        BY <2>2 DEF Begin
      <3> QED BY <2>2, <3>1, <1>p, BeginStep
    <2> QED BY <1>4, <2>1, <2>2 DEF Get
  <1>5. ASSUME NEW k \in Keys, Delete(c, k) PROVE OrderInv'
    <2>1. CASE documents[k] = None /\ Answer(c, "DEL", k, Say("not_found"))
      <3>1. "DEL" \in Ops
        BY <2>1 DEF Answer
      <3>2. UNCHANGED <<documents, heap>>
        BY <1>5, <2>1, <1>n DEF Delete, TypeOK
      <3> QED BY <2>1, <3>1, <3>2, <1>r, AnswerStep
    <2>2. CASE documents[k] # None /\ Answer(c, "DEL", k, Say("ok"))
      BY <1>5, <2>2, DeleteStep DEF Delete
    <2> QED BY <1>5, <2>1, <2>2 DEF Delete
  <1>6. ASSUME NEW k \in Keys, FindForDeletePath(c, k) PROVE OrderInv'
    <2>1. CASE documents[k] = None /\ Answer(c, "DELPATH", k, Say("not_found"))
               /\ UNCHANGED <<documents, heap, raced>>
      <3>1. "DELPATH" \in Ops
        BY <2>1 DEF Answer
      <3> QED BY <2>1, <3>1, <1>r, AnswerStep
    <2>2. CASE Begin(c, "DELPATH", k, "delete_path", documents[k], NoTTL)
               /\ UNCHANGED <<documents, heap, raced>>
      <3>1. "DELPATH" \in Ops
        BY <2>2 DEF Begin
      <3> QED BY <2>2, <3>1, <1>p, BeginStep
    <2> QED BY <1>6, <2>1, <2>2 DEF FindForDeletePath
  <1> QED BY <1>1, <1>2, <1>3, <1>4, <1>5, <1>6 DEF Command
-----------------------------------------------------------------------------
LEMMA EngagedKeeps ==
  ASSUME IInv, Engaged, [Next]_vars
  PROVE  Engaged'
  <1>t. task \in [Clients -> Task]
    BY DEF IInv, TypeOK
  <1>1. ASSUME NEW c \in Clients, Command(c) PROVE Engaged'
    <2>1. ASSUME NEW k \in Keys, NEW op, NEW r, Answer(c, op, k, r) PROVE Engaged'
      BY <1>t, <2>1 DEF Answer, Done, Engaged
    <2>2. ASSUME NEW k \in Keys, NEW op, NEW pc, NEW d, NEW t, Begin(c, op, k, pc, d, t),
                 <<op, pc>> \in {<<"CREATE", "create">>, <<"GET", "read">>, <<"SET", "write">>,
                                 <<"INC", "write">>, <<"DELPATH", "delete_path">>,
                                 <<"EXPIRE", "set_ttl">>}
          PROVE  Engaged'
      <3>1. task'[c].op = op /\ task'[c].pc = pc /\ \A b \in Clients : b # c => task'[b] = task[b]
        BY <1>t, <2>2 DEF Begin
      <3>2. ASSUME NEW b \in Clients, b # c PROVE task'[b] = task[b]
        BY <3>1, <3>2
      <3> QED BY <2>2, <3>1, <3>2 DEF Engaged
    <2> QED BY <1>1, <2>1, <2>2 DEF Command, CreateCheck, FindForExpire, GetOrCreate, Get,
                                   Delete, FindForDeletePath
  <1>2. ASSUME NEW c \in Clients, Proceed(c) PROVE Engaged'
    <2>1. ASSUME NEW r, Finish(c, r) PROVE Engaged'
      BY <1>t, <2>1 DEF Finish, Done, Engaged
    <2> QED BY <1>2, <2>1 DEF Proceed, CreateInsert, Read, Write, DeletePath, SetTTL
  <1>3. ASSUME task' = task PROVE Engaged'
    BY <1>3 DEF Engaged
  <1>4. GcStep \/ Tick \/ UNCHANGED vars => task' = task
    BY DEF GcStep, GcSweep, GcScan, GcRemove, Tick, vars
  <1> QED BY <1>1, <1>2, <1>3, <1>4 DEF Next

LEMMA InitOrder == OInit => OrderInv
  <1> SUFFICES ASSUME OInit PROVE OrderInv
    OBVIOUS
  <1> DEFINE life == [ref |-> None, points |-> <<Start>>]
  <1>1. IInv /\ Engaged
    BY InitIInv DEF OInit, Init, Engaged, NoTask, Done
  <1>2. \A k \in Keys : lives[k] = <<life>>
    BY DEF OInit
  <1>3. Start \in PointType /\ life \in LifeType
    BY SayIsReply DEF Start, PointType, LifeType, Gone, Contents, NoValue
  <1>4. lives \in [Keys -> Seq(LifeType)]
    BY <1>3 DEF OInit
  <1>5. \A k \in Keys : /\ Lives(k) = {1} /\ Len(lives[k]) = 1
                        /\ lives[k][1].ref = None /\ Len(lives[k][1].points) = 1
                        /\ Points(k, 1) = {1} /\ At(k, 1, 1) = Start
    BY <1>2 DEF Lives, Points, At
  <1>6. /\ Start.op = "START" /\ Start.id = 0 /\ Start.done = 0 /\ Start.after = Gone
        /\ Gone.there = FALSE /\ "START" \notin Ops
    BY OpsAssumption DEF Start, Gone, AllOps
  <1>7. /\ issued = 0 /\ \A c \in Clients : task[c].pc = "idle" /\ task[c].id = 0 /\ task[c].op = "none"
        /\ \A k \in Keys : documents[k] = None
    BY DEF OInit, Init, NoTask, Done
  <1>8. Typed
    BY <1>4, <1>5 DEF Typed
  <1>9. Ends
    BY <1>5, <1>6 DEF Ends, Seen
  <1>10. Owned
    BY <1>5 DEF Owned
  <1>11. Begins
    BY <1>5 DEF Begins
  <1>12. Current
    BY <1>5, <1>6, <1>7 DEF Current, Seen
  <1>13. Explained
    BY <1>5 DEF Explained
  <1>14. Times /\ RealTime /\ Once /\ Told /\ Works /\ Unanswered
    BY <1>5, <1>6, <1>7 DEF Times, RealTime, Once, Told, Works, Unanswered
  <1> QED BY <1>1, <1>8, <1>9, <1>10, <1>11, <1>12, <1>13, <1>14 DEF OrderInv, Linearized

LEMMA NextOrder == OrderInv /\ [ONext]_ovars => OrderInv'
  <1> SUFFICES ASSUME OrderInv, [ONext]_ovars PROVE OrderInv'
    OBVIOUS
  <1>0. IInv /\ Engaged /\ Chain /\ Order
    BY OrderInvIs
  <1>1. [Next]_vars
    BY DEF ONext, Next, ovars
  <1>2. IInv' /\ Engaged'
    BY <1>0, <1>1, NextIInv, EngagedKeeps
  <1>3. ASSUME lives' = lives, documents' = documents, heap' = heap, task' = task, issued' = issued
        PROVE  OrderInv'
    BY <1>0, <1>2, <1>3, QuietChain, QuietOrder, OrderInvIs, PTL
  <1>4. CASE GcStep /\ Evict
    <2>1. ASSUME GcSweep \/ \E k \in Keys : GcScan(k) PROVE OrderInv'
      <3>1. UNCHANGED <<documents, heap, task, issued>>
        BY <2>1 DEF GcSweep, GcScan
      <3> QED BY <3>1, <1>3, <1>4 DEF Evict
    <2>2. ASSUME NEW k \in Keys, GcRemove(k) PROVE OrderInv'
      BY <2>2, <1>2, <1>4, EvictStep
    <2> QED BY <1>4, <2>1, <2>2 DEF GcStep
  <1>5. CASE Tick /\ lives' = lives
    BY <1>3, <1>5 DEF Tick
  <1>6. CASE UNCHANGED ovars
    BY <1>3, <1>6 DEF ovars, vars
  <1> QED BY <1>2, <1>4, <1>5, <1>6, CommandStep, ProceedStep DEF ONext

\* Whatever the connections, the ids, the documents and the commands, the
\* answers are those of an atomic store that takes the commands one at a time,
\* each between its first step and its answer (manager.rs, handler.rs).
THEOREM Linearizability == OSpec => []Linearized
  <1>1. OrderInv => Linearized
    BY DEF OrderInv
  <1> QED BY <1>1, InitOrder, NextOrder, PTL DEF OSpec
=============================================================================
