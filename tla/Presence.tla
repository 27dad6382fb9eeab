------------------------------- MODULE Presence -------------------------------
(***************************************************************************)
(* crates/ussl-core/src/manager.rs: the presence map, from document id to  *)
(* the list of who is there, as the connections and the garbage collector  *)
(* use it.  One step is one access to the DashMap.  A connection has an id *)
(* of its own, made from its address when it is accepted, and runs on one  *)
(* task: the ways that task ends (tcp.rs, websocket.rs) decide whether     *)
(* handler.cleanup() is called.                                            *)
(*                                                                         *)
(* A list holds no two entries of one connection (OneEntryEach), and the   *)
(* order of a list is not looked at: lists are modelled as sets.           *)
(***************************************************************************)
EXTENDS Integers, FiniteSets

CONSTANTS
    Clients,      \* the connections
    Keys,         \* the document ids
    Datas,        \* what a PRESENCE ... DATA carries
    MaxSets,      \* bound on the number of PRESENCE ... DATA commands
    MaxGcs        \* bound on the number of documents collected

ASSUME BoundAssumption == MaxSets \in Nat /\ MaxGcs \in Nat

VARIABLES
    listed,       \* the ids under which the DashMap has a list
    presence,     \* the lists; the empty one where there is none
    task,         \* per connection: where its task is
    sets,         \* number of PRESENCE ... DATA commands
    gcs           \* number of documents collected

maps == <<listed, presence>>
vars == <<maps, task, sets, gcs>>
-----------------------------------------------------------------------------
Entry == [client : Clients, data : Datas]

\* "closed" is a task that ended after cleanup(), "failed" one that ended
\* with the error of a write, "panicked" one that panicked.
Task ==
    [pc : {"open", "answer", "closed", "failed", "panicked"}]
    \cup [pc : {"push"}, key : Keys, data : Datas]
    \cup [pc : {"cleanup"}, todo : SUBSET Keys]

In(pc) == [pc |-> pc]

Become(c, t) == task' = [task EXCEPT ![c] = t]

Without(list, c) == {p \in list : p.client # c}

Init ==
    /\ listed = {}
    /\ presence = [k \in Keys |-> {}]
    /\ task = [c \in Clients |-> In("open")]
    /\ sets = 0
    /\ gcs = 0

(***************************************************************************)
(* set_presence: entry().or_insert_with(Vec::new), and in the same access  *)
(* the connection's old entry goes; in a second access the new entry comes *)
(* into the list that get_mut().unwrap() finds.                            *)
(***************************************************************************)
\* Mutant: the list is not cleared of the connection's old entry.
SetPresenceKeep(c, k, d) ==
    /\ task[c].pc = "open" /\ sets < MaxSets
    /\ listed' = listed \cup {k}
    /\ UNCHANGED presence
    /\ Become(c, [pc |-> "push", key |-> k, data |-> d])
    /\ sets' = sets + 1
    /\ UNCHANGED gcs

\* Mutant: a new list for every new entry.
SetPresenceAnew(c, k, d) ==
    /\ task[c].pc = "open" /\ sets < MaxSets
    /\ listed' = listed \cup {k}
    /\ presence' = [presence EXCEPT ![k] = {}]
    /\ Become(c, [pc |-> "push", key |-> k, data |-> d])
    /\ sets' = sets + 1
    /\ UNCHANGED gcs

SetPresence(c, k, d) ==
    /\ task[c].pc = "open" /\ sets < MaxSets
    /\ listed' = listed \cup {k}
    /\ presence' = [presence EXCEPT ![k] = Without(@, c)]
    /\ Become(c, [pc |-> "push", key |-> k, data |-> d])
    /\ sets' = sets + 1
    /\ UNCHANGED gcs

Push(c) ==
    LET t == task[c] IN
    /\ t.pc = "push"
    /\ \/ /\ t.key \in listed
          /\ presence' = [presence EXCEPT ![t.key] =
                            @ \cup {[client |-> c, data |-> t.data]}]
          /\ Become(c, In("answer"))
       \/ /\ t.key \notin listed
          /\ Become(c, In("panicked"))
          /\ UNCHANGED presence
    /\ UNCHANGED <<listed, sets, gcs>>

\* The answer is written, or writing it fails and `?` ends the task.
Answer(c) ==
    /\ task[c].pc = "answer"
    /\ Become(c, In("open")) \/ Become(c, In("failed"))
    /\ UNCHANGED <<maps, sets, gcs>>

(***************************************************************************)
(* QUIT, the end of the stream, or an error while reading or while writing *)
(* a delta: cleanup() goes through the lists, one at a time.               *)
(***************************************************************************)
Disconnect(c) ==
    /\ task[c].pc = "open"
    /\ Become(c, [pc |-> "cleanup", todo |-> Keys])
    /\ UNCHANGED <<maps, sets, gcs>>

\* Mutant: the first list with the connection in it is the last looked at.
RemoveFirst(c, k) ==
    /\ task[c].pc = "cleanup" /\ k \in task[c].todo
    /\ presence' = [presence EXCEPT ![k] = Without(@, c)]
    /\ Become(c, [pc |-> "cleanup", todo |->
                    IF presence' = presence THEN task[c].todo \ {k} ELSE {}])
    /\ UNCHANGED <<listed, sets, gcs>>

RemovePresence(c, k) ==
    /\ task[c].pc = "cleanup" /\ k \in task[c].todo
    /\ presence' = [presence EXCEPT ![k] = Without(@, c)]
    /\ Become(c, [pc |-> "cleanup", todo |-> task[c].todo \ {k}])
    /\ UNCHANGED <<listed, sets, gcs>>

Closed(c) ==
    /\ task[c].pc = "cleanup" /\ task[c].todo = {}
    /\ Become(c, In("closed"))
    /\ UNCHANGED <<maps, sets, gcs>>

\* gc() collects a document, and with it the list under its id.  Which
\* document, and when, is the business of module DocumentManager.
Collect(k) ==
    /\ gcs < MaxGcs
    /\ gcs' = gcs + 1
    /\ listed' = listed \ {k}
    /\ presence' = [presence EXCEPT ![k] = {}]
    /\ UNCHANGED <<task, sets>>

Next ==
    \/ \E c \in Clients :
          \/ \E k \in Keys, d \in Datas : SetPresence(c, k, d)
          \/ Push(c) \/ Answer(c) \/ Disconnect(c) \/ Closed(c)
          \/ \E k \in Keys : RemovePresence(c, k)
    \/ \E k \in Keys : Collect(k)

Spec == Init /\ [][Next]_vars
-----------------------------------------------------------------------------
TypeOK ==
    /\ listed \in SUBSET Keys
    /\ presence \in [Keys -> SUBSET Entry]
    /\ \A k \in Keys \ listed : presence[k] = {}
    /\ task \in [Clients -> Task]
    /\ sets \in Nat /\ gcs \in Nat

\* The entries of a connection in the list of a document.
Entries(c, k) == {p \in presence[k] : p.client = c}

\* A connection is listed at most once per document, however often it sets
\* its presence and whatever is collected in between ("Presence information
\* per document"); while it is between the two accesses, not at all.
OneEntryEach ==
    \A c \in Clients : \A k \in Keys :
        /\ \A p, q \in Entries(c, k) : p = q
        /\ task[c].pc = "push" /\ task[c].key = k => Entries(c, k) = {}

\* cleanup() leaves nothing of its connection behind, though other
\* connections and the collector add and remove lists while it runs.
CleanupIsComplete ==
    \A c \in Clients : \A k \in Keys :
        \/ task[c].pc = "closed"
        \/ task[c].pc = "cleanup" /\ k \notin task[c].todo
        => Entries(c, k) = {}

\* Nobody else takes a connection's entry away: it changes in a step of the
\* connection itself, or goes with the whole list when gc() collects the
\* document.
OnlyOwnerOrGc ==
    [][\A c \in Clients : \A k \in Keys :
          Entries(c, k)' # Entries(c, k) => task'[c] # task[c] \/ Collect(k)]_vars
=============================================================================
