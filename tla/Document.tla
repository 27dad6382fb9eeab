------------------------------- MODULE Document -------------------------------
(***************************************************************************)
(* crates/ussl-core/src/document.rs: one Document, as the connection tasks *)
(* that hold its Arc use it.  Its parts have a lock or an atomic each      *)
(* (`ydoc`, `lww_data`, `meta`, `update_count`), and an operation is the   *)
(* sequence of the critical sections it goes through; operations of        *)
(* several workers interleave between them.                                *)
(*                                                                         *)
(* Where a write to lww_data bumps the version it does so inside the write *)
(* lock, hence in one step; a write to the text releases the lock first.   *)
(* Contents are abstracted to numbers: content n is what the n-th write to *)
(* the document's content left there, 0 the empty content.                 *)
(***************************************************************************)
EXTENDS Integers, FiniteSets

CONSTANTS
    Workers,      \* the connection tasks that use the document
    Strategies,   \* "lww" (as are CrdtMap, CrdtCounter, CrdtSet), "crdt-text"
    Ops,          \* the commands they issue, a subset of AllOps
    Threshold,    \* COMPACTION_THRESHOLD
    SizeFloor,    \* updates below which the size is not looked at
    MaxCommands   \* bound on the number of commands issued in all

AllOps == {"GET", "SET", "INC", "COMPACT"}

ASSUME WorkersAssumption == IsFiniteSet(Workers)
ASSUME StrategyAssumption == Strategies \subseteq {"lww", "crdt-text"}
ASSUME OpsAssumption == Ops \subseteq AllOps
ASSUME ThresholdAssumption == Threshold \in Nat \ {0} /\ SizeFloor \in Nat
ASSUME BoundAssumption == MaxCommands \in Nat

VARIABLES
    strategy,     \* meta.strategy
    ydoc,         \* the Yrs document: its text, and the updates it remembers
    lww,          \* lww_data: the value at the path SET uses, the one INC uses
    version,      \* meta.version
    updates,      \* update_count
    compactions,  \* compaction_count
    task,         \* per worker: where its command is
    issued,       \* number of commands issued
    writes        \* history: number of SETs that changed the content

docvars == <<strategy, ydoc, lww, version, updates, compactions>>
vars == <<docvars, task, issued, writes>>
-----------------------------------------------------------------------------
Pcs == {"idle", "set", "count", "version", "inc", "get",
        "check", "snapshot", "swap", "reset", "compacted", "done"}

\* `snap` is what the command read and still uses, `got` its answer.
Task == [pc : Pcs, op : AllOps \cup {"none"}, snap : Nat, got : Nat]

At(pc, op, snap, got) == [pc |-> pc, op |-> op, snap |-> snap, got |-> got]

NoTask == At("idle", "none", 0, 0)

GoTo(w, pc) == task' = [task EXCEPT ![w].pc = pc]

\* Where an operation starts.
Entry(op) == CASE op = "GET" -> "get"
               [] op = "SET" -> "set"
               [] op = "INC" -> "inc"
               [] op = "COMPACT" -> "snapshot"

\* The content a GET shows.
Content == IF strategy = "crdt-text" THEN ydoc.text ELSE lww.val

Init ==
    /\ strategy \in Strategies
    /\ ydoc = [text |-> 0, history |-> 0]
    /\ lww = [val |-> 0, count |-> 0]
    /\ version = 1
    /\ updates = 0
    /\ compactions = 0
    /\ task = [w \in Workers |-> NoTask]
    /\ issued = 0
    /\ writes = 0

Begin(w) ==
    /\ task[w].pc = "idle" /\ issued < MaxCommands
    /\ \E op \in Ops : task' = [task EXCEPT ![w] = At(Entry(op), op, 0, 0)]
    /\ issued' = issued + 1
    /\ UNCHANGED <<docvars, writes>>

Get(w) ==
    /\ task[w].pc = "get"
    /\ task' = [task EXCEPT ![w] = At("done", "GET", 0, Content)]
    /\ UNCHANGED <<docvars, issued, writes>>

(***************************************************************************)
(* Document::set.  CrdtText replaces the whole text under the ydoc lock,   *)
(* then bumps update_count, then the version; the other strategies write   *)
(* lww_data and bump the version under one lock.                           *)
(***************************************************************************)
SetText(w) ==
    /\ task[w].pc = "set" /\ strategy = "crdt-text"
    /\ writes' = writes + 1
    /\ ydoc' = [text |-> writes + 1, history |-> ydoc.history + 1]
    /\ GoTo(w, "count")
    /\ UNCHANGED <<strategy, lww, version, updates, compactions, issued>>

IncrementUpdateCount(w) ==
    /\ task[w].pc = "count"
    /\ updates' = updates + 1
    /\ GoTo(w, "version")
    /\ UNCHANGED <<strategy, ydoc, lww, version, compactions, issued, writes>>

\* Mutant: the CrdtText arm forgets update_version().
UpdateVersionForgotten(w) ==
    /\ task[w].pc = "version"
    /\ GoTo(w, "check")
    /\ UNCHANGED <<docvars, issued, writes>>

UpdateVersion(w) ==
    /\ task[w].pc = "version"
    /\ version' = version + 1
    /\ GoTo(w, "check")
    /\ UNCHANGED <<strategy, ydoc, lww, updates, compactions, issued, writes>>

SetValue(w) ==
    /\ task[w].pc = "set" /\ strategy = "lww"
    /\ writes' = writes + 1
    /\ lww' = [lww EXCEPT !.val = writes + 1]
    /\ version' = version + 1
    /\ GoTo(w, "check")
    /\ UNCHANGED <<strategy, ydoc, updates, compactions, issued>>

\* Mutant: increment forgets update_version().
IncrementUnversioned(w) ==
    /\ task[w].pc = "inc"
    /\ lww' = [lww EXCEPT !.count = @ + 1]
    /\ task' = [task EXCEPT ![w] = At("check", "INC", 0, lww.count + 1)]
    /\ UNCHANGED <<strategy, ydoc, version, updates, compactions, issued, writes>>

\* Document::increment and Document::push, under every strategy.
Increment(w) ==
    /\ task[w].pc = "inc"
    /\ lww' = [lww EXCEPT !.count = @ + 1]
    /\ version' = version + 1
    /\ task' = [task EXCEPT ![w] = At("check", "INC", 0, lww.count + 1)]
    /\ UNCHANGED <<strategy, ydoc, updates, compactions, issued, writes>>

\* Mutant: one update more before a compaction.
ShouldCompactLate(w) ==
    /\ task[w].pc = "check"
    /\ \/ updates > Threshold /\ GoTo(w, "snapshot")
       \/ updates <= Threshold /\ GoTo(w, "done")
    /\ UNCHANGED <<docvars, issued, writes>>

(***************************************************************************)
(* maybe_auto_compact: should_compact, then compact; COMPACT starts at the *)
(* latter.  Above SizeFloor updates the encoded size decides as well; it   *)
(* is left open whether that exceeds COMPACTION_SIZE_THRESHOLD.            *)
(***************************************************************************)
ShouldCompact(w) ==
    /\ task[w].pc = "check"
    /\ \/ updates >= Threshold /\ GoTo(w, "snapshot")
       \/ updates < Threshold /\ updates > SizeFloor /\ GoTo(w, "snapshot")
       \/ updates < Threshold /\ GoTo(w, "done")
    /\ UNCHANGED <<docvars, issued, writes>>

\* The text (for lww documents, the encoded Yrs state) is read under a read
\* lock, and a fresh Doc is filled with it without any lock.
CompactRead(w) ==
    /\ task[w].pc = "snapshot"
    /\ task' = [task EXCEPT ![w] = At("swap", task[w].op, ydoc.text, task[w].got)]
    /\ UNCHANGED <<docvars, issued, writes>>

CompactSwap(w) ==
    /\ task[w].pc = "swap"
    /\ ydoc' = [text |-> task[w].snap,
                history |-> IF task[w].snap = 0 THEN 0 ELSE 1]
    /\ GoTo(w, "reset")
    /\ UNCHANGED <<strategy, lww, version, updates, compactions, issued, writes>>

CompactReset(w) ==
    /\ task[w].pc = "reset"
    /\ updates' = 0
    /\ GoTo(w, "compacted")
    /\ UNCHANGED <<strategy, ydoc, lww, version, compactions, issued, writes>>

CompactCount(w) ==
    /\ task[w].pc = "compacted"
    /\ compactions' = compactions + 1
    /\ GoTo(w, "done")
    /\ UNCHANGED <<strategy, ydoc, lww, version, updates, issued, writes>>

Work(w) ==
    \/ Begin(w) \/ Get(w)
    \/ SetText(w) \/ IncrementUpdateCount(w) \/ UpdateVersion(w)
    \/ SetValue(w) \/ Increment(w)
    \/ ShouldCompact(w) \/ CompactRead(w) \/ CompactSwap(w)
    \/ CompactReset(w) \/ CompactCount(w)

\* The answer goes out, where nothing else follows (module WritePath).
Reply(w) ==
    /\ task[w].pc = "done"
    /\ GoTo(w, "idle")
    /\ UNCHANGED <<docvars, issued, writes>>

Next == \E w \in Workers : Work(w) \/ Reply(w)

Spec == Init /\ [][Next]_vars
-----------------------------------------------------------------------------
TypeOK ==
    /\ strategy \in Strategies
    /\ ydoc \in [text : Nat, history : Nat]
    /\ lww \in [val : Nat, count : Nat]
    /\ version \in Nat /\ updates \in Nat /\ compactions \in Nat
    /\ task \in [Workers -> Task]
    /\ issued \in Nat /\ writes \in Nat

\* The workers that changed the text and have not bumped the version yet.
Unversioned == {w \in Workers : task[w].pc \in {"count", "version"}}

\* The version counts every write once, those to the text as soon as they
\* finish, and whatever compactions do in between.
VersionCountsWrites ==
    version + Cardinality(Unversioned) = 1 + writes + lww.count

\* Auto-compaction "prevents unbounded memory growth": the updates a text
\* document remembers stay within a bound, however compactions race.  Between
\* a compaction's swap and its reset of update_count the other workers go on
\* writing, and the reset drops what they counted.  After a swap each worker
\* may have a reset to come; every one allows T - 1 updates more, and one by
\* each of the workers that do not compact by then, so 1 to W of them.
HistoryBounded ==
    LET W == Cardinality(Workers)
    IN  ydoc.history <= 1 + W * (Threshold - 1) + (W * (W + 1)) \div 2

\* A compaction leaves the content as it was.
CompactionKeepsContent ==
    [][\A w \in Workers : CompactSwap(w) => Content' = Content]_vars
=============================================================================
