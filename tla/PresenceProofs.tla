---------------------------- MODULE PresenceProofs ----------------------------
(***************************************************************************)
(* Presence, proved for every set of connections, documents and data.  The *)
(* three invariants are inductive together: OneEntryEach says that a       *)
(* connection between its two accesses is not listed, CleanupIsComplete    *)
(* what a cleanup that is under way has done already.                      *)
(***************************************************************************)
EXTENDS Presence, TLAPS

IInv == TypeOK /\ OneEntryEach /\ CleanupIsComplete

\* What a step of connection c does to the tasks.
LEMMA BecomeTyped ==
    ASSUME TypeOK, NEW c \in Clients, NEW t \in Task, Become(c, t)
    PROVE  /\ task' \in [Clients -> Task]
           /\ task'[c] = t
           /\ \A o \in Clients \ {c} : task'[o] = task[o]
  BY DEF TypeOK, Become

LEMMA States ==
    /\ \A pc \in {"open", "answer", "closed", "failed", "panicked"} :
          In(pc) \in Task /\ In(pc).pc = pc
    /\ \A k \in Keys : \A d \in Datas : [pc |-> "push", key |-> k, data |-> d] \in Task
    /\ \A todo \in SUBSET Keys : [pc |-> "cleanup", todo |-> todo] \in Task
  BY DEF Task, In

LEMMA PushTyped ==
    ASSUME TypeOK, NEW c \in Clients, task[c].pc = "push"
    PROVE  task[c].key \in Keys /\ task[c].data \in Datas
  BY DEF TypeOK, Task

LEMMA CleanupTyped ==
    ASSUME TypeOK, NEW c \in Clients, task[c].pc = "cleanup"
    PROVE  task[c].todo \in SUBSET Keys
  BY DEF TypeOK, Task
-----------------------------------------------------------------------------
LEMMA InitIInv == Init => IInv
  BY States DEF Init, IInv, TypeOK, OneEntryEach, CleanupIsComplete, Entries, In

\* A step that touches one list only, there one connection's entries, and
\* the task of that connection.
LEMMA OneList ==
    ASSUME IInv, NEW c \in Clients, NEW k \in Keys, NEW list \in SUBSET Entry,
           presence' = [presence EXCEPT ![k] = list],
           Without(list, c) = Without(presence[k], c)
    PROVE  /\ presence' \in [Keys -> SUBSET Entry]
           /\ \A o \in Clients : \A j \in Keys :
                 o # c \/ j # k => Entries(o, j)' = Entries(o, j)
           /\ Entries(c, k)' = {p \in list : p.client = c}
           /\ \A j \in Keys \ {k} : presence'[j] = presence[j]
           /\ presence'[k] = list
<1>1. presence \in [Keys -> SUBSET Entry]
  BY DEF IInv, TypeOK
<1>2. \A o \in Clients : \A j \in Keys :
          o # c \/ j # k => {p \in presence'[j] : p.client = o} = Entries(o, j)
  <2> SUFFICES ASSUME NEW o \in Clients, NEW j \in Keys, o # c \/ j # k
               PROVE  {p \in presence'[j] : p.client = o} = Entries(o, j)
    OBVIOUS
  <2>1. CASE j # k
    BY <1>1, <2>1 DEF Entries
  <2>2. CASE j = k /\ o # c
    <3>1. presence'[j] = list
      BY <1>1, <2>2
    <3>2. \A p : p \in list /\ p.client = o <=> p \in presence[k] /\ p.client = o
      BY <2>2 DEF Without
    <3> QED BY <3>1, <3>2, <2>2 DEF Entries
  <2> QED BY <2>1, <2>2
<1> QED BY <1>1, <1>2 DEF Entries

\* What the two invariants ask of a step of connection c on the list of k,
\* when elsewhere neither the lists nor the tasks change.
LEMMA OneEntryKept ==
    ASSUME OneEntryEach, NEW c \in Clients, NEW k \in Keys,
           \A o \in Clients : \A j \in Keys :
               o # c \/ j # k => Entries(o, j)' = Entries(o, j),
           \A o \in Clients \ {c} : task'[o] = task[o],
           \A p, q \in Entries(c, k)' : p = q,
           task'[c].pc = "push" => task'[c].key = k /\ Entries(c, k)' = {}
    PROVE  OneEntryEach'
<1> SUFFICES ASSUME NEW o \in Clients, NEW j \in Keys
             PROVE  /\ \A p, q \in Entries(o, j)' : p = q
                    /\ task'[o].pc = "push" /\ task'[o].key = j
                         => Entries(o, j)' = {}
  BY DEF OneEntryEach
<1>1. CASE o = c /\ j = k
  BY <1>1
<1>2. CASE o # c
  <2>1. Entries(o, j)' = Entries(o, j) /\ task'[o] = task[o]
    BY <1>2
  <2>2. \A p, q \in Entries(o, j) : p = q
    BY DEF OneEntryEach
  <2>3. task[o].pc = "push" /\ task[o].key = j => Entries(o, j) = {}
    BY DEF OneEntryEach
  <2> QED BY <2>1, <2>2, <2>3
<1>3. CASE o = c /\ j # k
  <2>1. Entries(o, j)' = Entries(o, j)
    BY <1>3
  <2>2. \A p, q \in Entries(o, j) : p = q
    BY DEF OneEntryEach
  <2>3. ~(task'[o].pc = "push" /\ task'[o].key = j)
    BY <1>3
  <2> QED BY <2>1, <2>2, <2>3
<1> QED BY <1>1, <1>2, <1>3

LEMMA CleanupKept ==
    ASSUME CleanupIsComplete, NEW c \in Clients, NEW k \in Keys,
           \A o \in Clients : \A j \in Keys :
               o # c \/ j # k => Entries(o, j)' = Entries(o, j),
           \A o \in Clients \ {c} : task'[o] = task[o],
           \A j \in Keys : \/ task'[c].pc = "closed"
                           \/ task'[c].pc = "cleanup" /\ j \notin task'[c].todo
                           => Entries(c, j)' = {}
    PROVE  CleanupIsComplete'
<1> SUFFICES ASSUME NEW o \in Clients, NEW j \in Keys,
                    \/ task'[o].pc = "closed"
                    \/ task'[o].pc = "cleanup" /\ j \notin task'[o].todo
             PROVE  Entries(o, j)' = {}
  BY DEF CleanupIsComplete
<1>1. CASE o = c
  BY <1>1
<1>2. CASE o # c
  <2>1. Entries(o, j)' = Entries(o, j) /\ task'[o] = task[o]
    BY <1>2
  <2> QED BY <2>1 DEF CleanupIsComplete
<1> QED BY <1>1, <1>2

LEMMA SetPresenceIInv ==
    ASSUME IInv, NEW c \in Clients, NEW k \in Keys, NEW d \in Datas,
           SetPresence(c, k, d)
    PROVE  IInv'
<1> DEFINE list == Without(presence[k], c)
           t == [pc |-> "push", key |-> k, data |-> d]
<1>1. list \in SUBSET Entry /\ Without(list, c) = Without(presence[k], c)
  BY DEF Without, IInv, TypeOK
<1>2. /\ presence' = [presence EXCEPT ![k] = list]
      /\ listed' = listed \cup {k} /\ task[c].pc = "open"
      /\ sets' = sets + 1 /\ gcs' = gcs
  BY DEF SetPresence, IInv, TypeOK
<1>3. t \in Task /\ t.pc = "push" /\ t.key = k
  BY States
<1>4. /\ task' \in [Clients -> Task] /\ task'[c] = t
      /\ \A o \in Clients \ {c} : task'[o] = task[o]
  BY <1>3, BecomeTyped DEF SetPresence, IInv
<1> HIDE DEF list, t
<1>5. /\ presence' \in [Keys -> SUBSET Entry]
      /\ \A o \in Clients : \A j \in Keys :
            o # c \/ j # k => Entries(o, j)' = Entries(o, j)
      /\ Entries(c, k)' = {p \in list : p.client = c}
      /\ \A j \in Keys \ {k} : presence'[j] = presence[j]
  BY <1>1, <1>2, OneList
<1>6. Entries(c, k)' = {}
  BY <1>5 DEF list, Without
<1>7. TypeOK'
  BY <1>2, <1>4, <1>5 DEF IInv, TypeOK
<1>8. OneEntryEach'
  BY <1>3, <1>4, <1>5, <1>6, OneEntryKept DEF IInv
<1>9. CleanupIsComplete'
  <2>1. task'[c].pc = "push"
    BY <1>3, <1>4
  <2> QED BY <2>1, <1>4, <1>5, CleanupKept DEF IInv
<1> QED BY <1>7, <1>8, <1>9 DEF IInv

LEMMA PushIInv ==
    ASSUME IInv, NEW c \in Clients, Push(c)
    PROVE  IInv'
<1>a. task[c].pc = "push" /\ task[c].key \in Keys /\ task[c].data \in Datas
  BY PushTyped DEF Push, IInv
<1>b. PICK k \in Keys, e \in Entry :
          k = task[c].key /\ e = [client |-> c, data |-> task[c].data]
  BY <1>a DEF Entry
<1> DEFINE list == presence[k] \cup {e}
<1>1. /\ task[c].pc = "push" /\ k = task[c].key /\ e.client = c
      /\ sets' = sets /\ gcs' = gcs /\ listed' = listed
  BY <1>a, <1>b DEF Push
<1>2. CASE k \in listed
  <2>1. presence' = [presence EXCEPT ![k] = list] /\ Become(c, In("answer"))
    BY <1>b, <1>1, <1>2 DEF Push, IInv, TypeOK
  <2>2. list \in SUBSET Entry /\ Without(list, c) = Without(presence[k], c)
    BY <1>1 DEF Without, IInv, TypeOK
  <2>3. /\ task' \in [Clients -> Task] /\ task'[c].pc = "answer"
        /\ \A o \in Clients \ {c} : task'[o] = task[o]
    BY <2>1, States, BecomeTyped DEF IInv
  <2>4. Entries(c, k) = {}
    BY <1>1 DEF IInv, OneEntryEach
  <2>5. \A p \in list : p.client = c => p = e
    BY <2>4 DEF Entries
  <2>6. /\ presence' \in [Keys -> SUBSET Entry]
        /\ \A o \in Clients : \A j \in Keys :
              o # c \/ j # k => Entries(o, j)' = Entries(o, j)
        /\ \A p \in Entries(c, k)' : p = e
        /\ \A j \in Keys \ {k} : presence'[j] = presence[j]
    <3> HIDE DEF list
    <3>1. /\ presence' \in [Keys -> SUBSET Entry]
          /\ \A o \in Clients : \A j \in Keys :
                o # c \/ j # k => Entries(o, j)' = Entries(o, j)
          /\ Entries(c, k)' = {p \in list : p.client = c}
          /\ \A j \in Keys \ {k} : presence'[j] = presence[j]
      BY <2>1, <2>2, OneList
    <3> QED BY <3>1, <2>5
  <2>7. TypeOK'
    BY <1>1, <1>2, <2>3, <2>6 DEF IInv, TypeOK
  <2>8. OneEntryEach'
    <3>1. task'[c].pc # "push" /\ \A p, q \in Entries(c, k)' : p = q
      BY <2>3, <2>6
    <3> QED BY <3>1, <2>3, <2>6, OneEntryKept DEF IInv
  <2>9. CleanupIsComplete'
    <3>1. ~(task'[c].pc = "closed") /\ ~(task'[c].pc = "cleanup")
      BY <2>3
    <3> QED BY <3>1, <2>3, <2>6, CleanupKept DEF IInv
  <2> QED BY <2>7, <2>8, <2>9 DEF IInv
<1>3. CASE k \notin listed
  <2>1. presence' = presence /\ Become(c, In("panicked"))
    BY <1>1, <1>3 DEF Push
  <2>2. /\ task' \in [Clients -> Task] /\ task'[c].pc = "panicked"
        /\ \A o \in Clients \ {c} : task'[o] = task[o]
    BY <2>1, States, BecomeTyped DEF IInv
  <2>3. \A o \in Clients : \A j \in Keys : Entries(o, j)' = Entries(o, j)
    BY <2>1 DEF Entries
  <2>4. TypeOK'
    BY <1>1, <2>1, <2>2 DEF IInv, TypeOK
  <2>5. OneEntryEach'
    <3>1. task'[c].pc # "push" /\ \A p, q \in Entries(c, k)' : p = q
      BY <2>2, <2>3 DEF IInv, OneEntryEach
    <3> QED BY <3>1, <2>2, <2>3, OneEntryKept DEF IInv
  <2>6. CleanupIsComplete'
    <3>1. ~(task'[c].pc = "closed") /\ ~(task'[c].pc = "cleanup")
      BY <2>2
    <3> QED BY <3>1, <2>2, <2>3, CleanupKept DEF IInv
  <2> QED BY <2>4, <2>5, <2>6 DEF IInv
<1> QED BY <1>2, <1>3

LEMMA RemovePresenceIInv ==
    ASSUME IInv, NEW c \in Clients, NEW k \in Keys, RemovePresence(c, k)
    PROVE  IInv'
<1> DEFINE list == Without(presence[k], c)
           t == [pc |-> "cleanup", todo |-> task[c].todo \ {k}]
<1>1. list \in SUBSET Entry /\ Without(list, c) = Without(presence[k], c)
  BY DEF Without, IInv, TypeOK
<1>2. /\ presence' = [presence EXCEPT ![k] = list]
      /\ listed' = listed /\ task[c].pc = "cleanup"
      /\ sets' = sets /\ gcs' = gcs
  BY DEF RemovePresence, IInv, TypeOK
<1>3. t \in Task /\ t.pc = "cleanup" /\ t.todo = task[c].todo \ {k}
  BY <1>2, CleanupTyped, States DEF IInv
<1>4. /\ task' \in [Clients -> Task] /\ task'[c] = t
      /\ \A o \in Clients \ {c} : task'[o] = task[o]
  BY <1>3, BecomeTyped DEF RemovePresence, IInv
<1> HIDE DEF list, t
<1>5. /\ presence' \in [Keys -> SUBSET Entry]
      /\ \A o \in Clients : \A j \in Keys :
            o # c \/ j # k => Entries(o, j)' = Entries(o, j)
      /\ Entries(c, k)' = {p \in list : p.client = c}
      /\ \A j \in Keys \ {k} : presence'[j] = presence[j]
      /\ presence'[k] = list
  BY <1>1, <1>2, OneList
<1>6. Entries(c, k)' = {} /\ list \subseteq presence[k]
  BY <1>5 DEF list, Without
<1>7. TypeOK'
  BY <1>2, <1>4, <1>5, <1>6 DEF IInv, TypeOK
<1>8. OneEntryEach'
  <2>1. task'[c].pc # "push"
    BY <1>3, <1>4
  <2> QED BY <2>1, <1>4, <1>5, <1>6, OneEntryKept DEF IInv
<1>9. CleanupIsComplete'
  <2>1. \A j \in Keys : j \notin task'[c].todo => Entries(c, j)' = {}
    <3> SUFFICES ASSUME NEW j \in Keys, j \notin task'[c].todo
                 PROVE  Entries(c, j)' = {}
      OBVIOUS
    <3>1. CASE j = k
      BY <3>1, <1>6
    <3>2. CASE j # k
      <4>1. j \notin task[c].todo
        BY <3>2, <1>3, <1>4
      <4>2. Entries(c, j) = {}
        BY <4>1, <1>2 DEF IInv, CleanupIsComplete
      <4> QED BY <4>2, <3>2, <1>5
    <3> QED BY <3>1, <3>2
  <2>2. task'[c].pc = "cleanup"
    BY <1>3, <1>4
  <2> QED BY <2>1, <2>2, <1>4, <1>5, CleanupKept DEF IInv
<1> QED BY <1>7, <1>8, <1>9 DEF IInv

LEMMA CollectIInv ==
    ASSUME IInv, NEW k \in Keys, Collect(k)
    PROVE  IInv'
<1>1. /\ presence \in [Keys -> SUBSET Entry]
      /\ presence' = [presence EXCEPT ![k] = {}]
      /\ listed' = listed \ {k} /\ task' = task /\ sets' = sets
  BY DEF Collect, IInv, TypeOK
<1>2. \A j \in Keys : presence'[j] \subseteq presence[j]
  BY <1>1
<1>3. \A c \in Clients : \A j \in Keys : Entries(c, j)' \subseteq Entries(c, j)
  BY <1>1, <1>2 DEF Entries
<1>4. TypeOK'
  BY <1>1 DEF Collect, IInv, TypeOK
<1>5. OneEntryEach'
  <2> SUFFICES ASSUME NEW c \in Clients, NEW j \in Keys
               PROVE  /\ \A p, q \in Entries(c, j)' : p = q
                      /\ task'[c].pc = "push" /\ task'[c].key = j
                           => Entries(c, j)' = {}
    BY DEF OneEntryEach
  <2>1. \A p, q \in Entries(c, j) : p = q
    BY DEF IInv, OneEntryEach
  <2>2. task[c].pc = "push" /\ task[c].key = j => Entries(c, j) = {}
    BY DEF IInv, OneEntryEach
  <2> QED BY <2>1, <2>2, <1>1, <1>3
<1>6. CleanupIsComplete'
  <2> SUFFICES ASSUME NEW c \in Clients, NEW j \in Keys,
                      \/ task'[c].pc = "closed"
                      \/ task'[c].pc = "cleanup" /\ j \notin task'[c].todo
               PROVE  Entries(c, j)' = {}
    BY DEF CleanupIsComplete
  <2>1. Entries(c, j) = {}
    BY <1>1 DEF IInv, CleanupIsComplete
  <2> QED BY <2>1, <1>3
<1> QED BY <1>4, <1>5, <1>6 DEF IInv

\* Steps that change where a connection is, and no list.
LEMMA TaskIInv ==
    ASSUME IInv, NEW c \in Clients, Answer(c) \/ Disconnect(c) \/ Closed(c)
    PROVE  IInv'
<1>1. presence' = presence /\ listed' = listed /\ sets' = sets /\ gcs' = gcs
  BY DEF Answer, Disconnect, Closed, maps
<1>2. \A o \in Clients : \A j \in Keys : Entries(o, j)' = Entries(o, j)
  BY <1>1 DEF Entries
<1>3. /\ task' \in [Clients -> Task] /\ task'[c].pc # "push"
      /\ \A o \in Clients \ {c} : task'[o] = task[o]
      /\ \A j \in Keys :
            \/ task'[c].pc = "closed"
            \/ task'[c].pc = "cleanup" /\ j \notin task'[c].todo
            => Entries(c, j)' = {}
  <2>1. CASE Answer(c)
    <3>1. /\ task' \in [Clients -> Task] /\ task'[c].pc \in {"open", "failed"}
          /\ \A o \in Clients \ {c} : task'[o] = task[o]
      BY <2>1, States, BecomeTyped DEF Answer, IInv
    <3> QED BY <3>1
  <2>2. CASE Disconnect(c)
    <3>1. [pc |-> "cleanup", todo |-> Keys] \in Task
      BY States
    <3>2. /\ task' \in [Clients -> Task]
          /\ task'[c] = [pc |-> "cleanup", todo |-> Keys]
          /\ \A o \in Clients \ {c} : task'[o] = task[o]
      BY <2>2, <3>1, BecomeTyped DEF Disconnect, IInv
    <3>3. task'[c].pc = "cleanup" /\ task'[c].todo = Keys
      BY <3>2
    <3> QED BY <3>2, <3>3
  <2>3. CASE Closed(c)
    <3>1. task[c].pc = "cleanup" /\ task[c].todo = {}
      BY <2>3 DEF Closed
    <3>2. /\ task' \in [Clients -> Task] /\ task'[c].pc = "closed"
          /\ \A o \in Clients \ {c} : task'[o] = task[o]
      BY <2>3, States, BecomeTyped DEF Closed, IInv
    <3>3. \A j \in Keys : Entries(c, j) = {}
      BY <3>1 DEF IInv, CleanupIsComplete
    <3> QED BY <3>2, <3>3, <1>2
  <2> QED BY <2>1, <2>2, <2>3
<1>4. TypeOK'
  BY <1>1, <1>3 DEF IInv, TypeOK
<1>5. OneEntryEach'
  <2> SUFFICES ASSUME NEW o \in Clients, NEW j \in Keys
               PROVE  /\ \A p, q \in Entries(o, j)' : p = q
                      /\ task'[o].pc = "push" /\ task'[o].key = j
                           => Entries(o, j)' = {}
    BY DEF OneEntryEach
  <2>1. \A p, q \in Entries(o, j) : p = q
    BY DEF IInv, OneEntryEach
  <2>2. task[o].pc = "push" /\ task[o].key = j => Entries(o, j) = {}
    BY DEF IInv, OneEntryEach
  <2> QED BY <2>1, <2>2, <1>2, <1>3
<1>6. CleanupIsComplete'
  <2> SUFFICES ASSUME NEW o \in Clients, NEW j \in Keys,
                      \/ task'[o].pc = "closed"
                      \/ task'[o].pc = "cleanup" /\ j \notin task'[o].todo
               PROVE  Entries(o, j)' = {}
    BY DEF CleanupIsComplete
  <2>1. CASE o = c
    BY <2>1, <1>3
  <2>2. CASE o # c
    <3>1. task'[o] = task[o]
      BY <2>2, <1>3
    <3>2. Entries(o, j) = {}
      BY <3>1 DEF IInv, CleanupIsComplete
    <3> QED BY <3>2, <1>2
  <2> QED BY <2>1, <2>2
<1> QED BY <1>4, <1>5, <1>6 DEF IInv

LEMMA StepIInv == IInv /\ [Next]_vars => IInv'
<1> SUFFICES ASSUME IInv, [Next]_vars PROVE IInv'
  OBVIOUS
<1>1. CASE UNCHANGED vars
  <2>1. TypeOK'
    BY <1>1 DEF vars, maps, IInv, TypeOK
  <2>2. OneEntryEach'
    BY <1>1 DEF vars, maps, IInv, OneEntryEach, Entries
  <2>3. CleanupIsComplete'
    BY <1>1 DEF vars, maps, IInv, CleanupIsComplete, Entries
  <2> QED BY <2>1, <2>2, <2>3 DEF IInv
<1> QED BY <1>1, SetPresenceIInv, PushIInv, RemovePresenceIInv, CollectIInv, TaskIInv
        DEF Next

\* The presence lists and the tasks keep to their ranges, a connection is
\* listed at most once per document, and cleanup() leaves none of its entries
\* (set_presence, remove_presence, gc).
THEOREM Invariance == Spec => [](TypeOK /\ OneEntryEach /\ CleanupIsComplete)
<1>1. Init => IInv
  BY InitIInv
<1>2. IInv /\ [Next]_vars => IInv'
  BY StepIInv
<1> QED BY <1>1, <1>2, PTL DEF Spec, IInv

\* A connection is listed at most once per document, and not at all between
\* the two accesses of set_presence.
THEOREM OneEntrySafety == Spec => []OneEntryEach
  BY Invariance, PTL

\* What a step of c does to the list of k leaves the entries of o alone if it
\* only takes out, or puts in, entries of c.
LEMMA OthersStay ==
    ASSUME TypeOK, NEW c \in Clients, NEW k \in Keys, NEW list \in SUBSET Entry,
           presence' = [presence EXCEPT ![k] = list],
           Without(list, c) = Without(presence[k], c),
           NEW o \in Clients, o # c, NEW j \in Keys
    PROVE  Entries(o, j)' = Entries(o, j)
<1>1. CASE j # k
  BY <1>1 DEF TypeOK, Entries
<1>2. CASE j = k
  <2>1. presence'[j] = list
    BY <1>2 DEF TypeOK
  <2>2. {p \in list : p.client = o} = {p \in presence[k] : p.client = o}
    BY DEF Without
  <2> QED BY <1>2, <2>1, <2>2 DEF Entries
<1> QED BY <1>1, <1>2

LEMMA StepOwner ==
    ASSUME IInv, [Next]_vars, NEW o \in Clients, NEW j \in Keys,
           Entries(o, j)' # Entries(o, j)
    PROVE  task'[o] # task[o] \/ Collect(j)
<1> USE DEF IInv
<1>1. ASSUME NEW c \in Clients, NEW k \in Keys, NEW d \in Datas, SetPresence(c, k, d)
      PROVE  task'[o] # task[o]
  <2>1. Without(presence[k], c) \in SUBSET Entry
    BY DEF TypeOK, Without
  <2>2. o = c
    BY <1>1, <2>1, OthersStay DEF SetPresence, Without
  <2>3. task'[c].pc = "push" /\ task[c].pc = "open"
    BY <1>1, States, BecomeTyped DEF SetPresence
  <2> QED BY <2>2, <2>3
<1>2. ASSUME NEW c \in Clients, Push(c) PROVE task'[o] # task[o]
  <2>1. task[c].pc = "push" /\ task[c].key \in Keys /\ task[c].data \in Datas
    BY <1>2, PushTyped DEF Push
  <2> DEFINE e == [client |-> c, data |-> task[c].data]
             list == presence[task[c].key] \cup {e}
  <2>2. presence' = presence \/ presence' = [presence EXCEPT ![task[c].key] = list]
    BY <1>2 DEF Push
  <2>3. list \in SUBSET Entry /\ Without(list, c) = Without(presence[task[c].key], c)
    BY <2>1 DEF TypeOK, Entry, Without
  <2>4. presence' # presence
    BY DEF Entries
  <2>5. o = c
    BY <2>1, <2>2, <2>3, <2>4, OthersStay
  <2>6. task'[c].pc \in {"answer", "panicked"}
    BY <1>2, States, BecomeTyped DEF Push
  <2> QED BY <2>1, <2>5, <2>6
<1>3. ASSUME NEW c \in Clients, NEW k \in Keys, RemovePresence(c, k) PROVE task'[o] # task[o]
  <2>1. task[c].pc = "cleanup" /\ k \in task[c].todo /\ task[c].todo \in SUBSET Keys
    BY <1>3, CleanupTyped DEF RemovePresence
  <2>2. Without(presence[k], c) \in SUBSET Entry
    BY DEF TypeOK, Without
  <2>3. o = c
    BY <1>3, <2>2, OthersStay DEF RemovePresence, Without
  <2>4. task'[c] = [pc |-> "cleanup", todo |-> task[c].todo \ {k}]
    BY <1>3, <2>1, States, BecomeTyped DEF RemovePresence
  <2> QED BY <2>1, <2>3, <2>4
<1>4. ASSUME NEW k \in Keys, Collect(k) PROVE Collect(j)
  <2>1. j = k
    BY <1>4 DEF Collect, TypeOK, Entries
  <2> QED BY <1>4, <2>1
<1>5. ASSUME presence' = presence PROVE FALSE
  BY <1>5 DEF Entries
<1>6. ASSUME NEW c \in Clients, Answer(c) \/ Disconnect(c) \/ Closed(c) PROVE FALSE
  BY <1>5, <1>6 DEF Answer, Disconnect, Closed, maps
<1>7. CASE UNCHANGED vars
  BY <1>5, <1>7 DEF vars, maps
<1> QED BY <1>1, <1>2, <1>3, <1>4, <1>6, <1>7 DEF Next

\* Nobody but the connection itself and gc(), with the whole list, takes an
\* entry away (set_presence, remove_presence, gc).
THEOREM OwnerSafety == Spec => OnlyOwnerOrGc
<1>1. IInv /\ [Next]_vars =>
        [\A c \in Clients : \A k \in Keys :
            Entries(c, k)' # Entries(c, k) => task'[c] # task[c] \/ Collect(k)]_vars
  BY StepOwner
<1> QED BY <1>1, InitIInv, StepIInv, PTL DEF Spec, OnlyOwnerOrGc
=============================================================================
